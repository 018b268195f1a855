------------------------ MODULE PatchAlgebra_proofs -------------------------
(***************************************************************************)
(* Facts about the patch language that hold for every choice of subjects,  *)
(* properties and values: what a batch makes of a record is a record, and  *)
(* applying the same batch a second time changes nothing.                  *)
(***************************************************************************)
EXTENDS PatchAlgebra, Integers, Functions, WellFoundedInduction, TLAPS

-----------------------------------------------------------------------------
(* Sets of naturals, and sequences that grow by one element. *)

\* A set of naturals that is not empty has a least element.
LEMMA LeastNat ==
    ASSUME NEW T, T \subseteq Nat, T # {}
    PROVE  \E x \in T : \A y \in T : x <= y
<1> DEFINE Less == {ss \in Nat \X Nat : ss[1] < ss[2]}
<1>1. OpToRel(<, Nat) = Less
    BY Zenon DEF OpToRel
<1>2. IsWellFoundedOn(Less, Nat)
    BY <1>1, NatLessThanWellFounded, Zenon
<1>3. \E x \in T : \A y \in T : ~ (<<y, x>> \in Less)
  <2> HIDE DEF Less
  <2> QED
      BY <1>2, WFMin
<1>4. ASSUME NEW x \in Nat, NEW y \in Nat, ~ (<<y, x>> \in Less)
      PROVE  x <= y
  <2>1. y < x => <<y, x>> \in Less
      OBVIOUS
  <2> QED
      BY <2>1, <1>4
<1> QED
  <2> HIDE DEF Less
  <2> QED
      BY <1>3, <1>4

\* A bounded set of naturals that is not empty has Max as its greatest element.
LEMMA MaxIsLast ==
    ASSUME NEW n \in Nat, NEW T, T \subseteq 0 .. n, T # {}
    PROVE  Max(T) \in T /\ \A y \in T : y <= Max(T)
<1> DEFINE Bounds == {u \in Nat : \A y \in T : y <= u}
<1>1. n \in Bounds /\ Bounds \subseteq Nat
    OBVIOUS
<1>2. PICK u \in Bounds : \A v \in Bounds : u <= v
    BY <1>1, LeastNat
<1>3. u \in T
  <2>1. SUFFICES ASSUME u \notin T
                 PROVE  FALSE
      OBVIOUS
  <2>2. \A y \in T : y < u /\ y \in Nat
      BY <2>1
  <2>3. PICK t \in T : TRUE
      OBVIOUS
  <2>4. u - 1 \in Nat
      BY <2>2, <2>3
  <2>5. \A y \in T : y <= u - 1
      BY <2>2
  <2>6. u - 1 \in Bounds
      BY <2>4, <2>5
  <2> QED
      BY <1>2, <2>6
<1>4. \E x \in T : \A y \in T : x >= y
    BY <1>3
<1> QED
    BY <1>4 DEF Max

\* The greatest element of a set of naturals is its Max.
LEMMA GreatestIsMax ==
    ASSUME NEW T, T \subseteq Nat, NEW x \in T, \A y \in T : y <= x
    PROVE  Max(T) = x
<1>1. x \in Nat /\ T \subseteq 0 .. x /\ T # {}
    OBVIOUS
<1>2. Max(T) \in T /\ \A y \in T : y <= Max(T)
    BY <1>1, MaxIsLast
<1>3. Max(T) \in Nat /\ Max(T) <= x /\ x <= Max(T)
    BY <1>2
<1> QED
    BY <1>1, <1>3

\* And Min is the least.
LEMMA MinIsFirst ==
    ASSUME NEW T, T \subseteq Nat, T # {}
    PROVE  Min(T) \in T /\ \A y \in T : Min(T) <= y
<1>1. \E x \in T : \A y \in T : x <= y
    BY LeastNat
<1> QED
    BY <1>1 DEF Min

LEMMA LeastIsMin ==
    ASSUME NEW T, T \subseteq Nat, NEW x \in T, \A y \in T : x <= y
    PROVE  Min(T) = x
<1>1. Min(T) \in T /\ \A y \in T : Min(T) <= y
    BY MinIsFirst
<1>2. Min(T) \in Nat /\ x \in Nat /\ Min(T) <= x /\ x <= Min(T)
    BY <1>1
<1> QED
    BY <1>2

\* A sequence of elements of S that grows by one of them.
LEMMA AppendGrows ==
    ASSUME NEW S, NEW s \in Seq(S), NEW x \in S
    PROVE  /\ Append(s, x) \in Seq(S)
           /\ Range(Append(s, x)) = Range(s) \cup {x}
<1>1. /\ Append(s, x) \in Seq(S) /\ Len(s) \in Nat
      /\ DOMAIN s = 1 .. Len(s) /\ DOMAIN Append(s, x) = 1 .. Len(s) + 1
    OBVIOUS
<1>2. \A i \in 1 .. Len(s) : Append(s, x)[i] = s[i]
    OBVIOUS
<1>3. Append(s, x)[Len(s) + 1] = x
    OBVIOUS
<1> QED
    BY <1>1, <1>2, <1>3 DEF Range

-----------------------------------------------------------------------------
(* What a batch makes of a record is a record. *)

\* A batch as it is applied: patches at some positions up to n.
IsBatch(b, n) == DOMAIN b \subseteq 1 .. n /\ \A i \in DOMAIN b : b[i] \in Patch

LEMMA PatchKinds ==
    ASSUME NEW p \in Patch
    PROVE  /\ p.op = "assign" => p.prop \in Scalar /\ p.value \in Value
           /\ p.op \in {"insert", "discard"} => p.prop \in SetField
           /\ p.op = "erase" => p.prop \in Field
           /\ p.op \in {"create", "drop", "identify", "assign", "erase",
                        "hold", "insert", "discard"}
           /\ p.on \in Subject
    BY DEF Patch, RootPatch, AssignPatch, ErasePatch, HoldPatch, MemberPatch

LEMMA FreshIsRecordOf ==
    ASSUME NEW identity \in {"bare", "full"}
    PROVE  Fresh(identity) \in Record
    BY DEF Fresh, Record

LEMMA LastDropType ==
    ASSUME NEW n \in Nat, NEW b, IsBatch(b, n), NEW s
    PROVE  /\ LastDrop(b, s) \in 0 .. n
           /\ \A i \in DOMAIN b : b[i].op = "drop" /\ b[i].on = s
                => i <= LastDrop(b, s)
           /\ LastDrop(b, s) # 0 =>
                /\ LastDrop(b, s) \in DOMAIN b
                /\ b[LastDrop(b, s)].op = "drop"
                /\ b[LastDrop(b, s)].on = s
<1> DEFINE D == {0} \cup {i \in DOMAIN b : b[i].op = "drop" /\ b[i].on = s}
<1>1. D \subseteq 0 .. n /\ D # {}
    BY DEF IsBatch
<1>2. Max(D) \in D /\ \A y \in D : y <= Max(D)
    BY <1>1, MaxIsLast
<1>3. LastDrop(b, s) = Max(D)
    BY DEF LastDrop
<1> QED
    BY <1>1, <1>2, <1>3

\* The writes that bear on a cell are positions of the batch.
LEMMA WritesArePositions ==
    ASSUME NEW n \in Nat, NEW b, IsBatch(b, n), NEW s, NEW f, NEW m
    PROVE  /\ Surviving(b, s) \subseteq DOMAIN b
           /\ ScalarWrites(b, s, f) \subseteq Surviving(b, s)
           /\ MemberWrites(b, s, f, m) \subseteq Surviving(b, s)
           /\ DOMAIN b \subseteq 0 .. n
    BY DEF IsBatch, Surviving, ScalarWrites, MemberWrites

LEMMA ScalarAfterType ==
    ASSUME NEW n \in Nat, NEW b, IsBatch(b, n), NEW s, NEW f,
           NEW old \in Value \cup {Missing}
    PROVE  ScalarAfter(b, s, f, old) \in Value \cup {Missing}
<1> DEFINE W == ScalarWrites(b, s, f)
<1>1. CASE W = {}
    BY <1>1 DEF ScalarAfter
<1>2. CASE W # {}
  <2>1. W \subseteq 0 .. n /\ W \subseteq DOMAIN b
      BY WritesArePositions
  <2>2. Max(W) \in W
      BY <1>2, <2>1, MaxIsLast
  <2>3. b[Max(W)] \in Patch
      BY <2>1, <2>2 DEF IsBatch
  <2> QED
      BY <1>2, <2>3, PatchKinds DEF ScalarAfter
<1> QED
    BY <1>1, <1>2

LEMMA RecordAfterType ==
    ASSUME NEW n \in Nat, NEW b, IsBatch(b, n), NEW s, NEW r \in Record
    PROVE  RecordAfter(b, s, r) \in Record
<1>1. /\ r.identity \in {"bare", "full"}
      /\ \A f \in Scalar : r.scalar[f] \in Value \cup {Missing}
    BY DEF Record
<1>2. \A f \in Scalar :
        ScalarAfter(b, s, f, r.scalar[f]) \in Value \cup {Missing}
    BY <1>1, ScalarAfterType
<1>3. \A f \in SetField :
        {m \in Member : MemberAfter(b, s, f, m, m \in r.members[f])}
            \in SUBSET Member
    OBVIOUS
<1> QED
    BY <1>1, <1>2, <1>3 DEF RecordAfter, Record

\* Whatever a batch does to a subject that has a record or none, the subject
\* has a record or none afterwards.
LEMMA AfterType ==
    ASSUME NEW n \in Nat, NEW b, IsBatch(b, n), NEW s,
           NEW r \in Record \cup {Absent}, NEW fresh \in Record
    PROVE  After(b, s, r, fresh) \in Record \cup {Absent}
<1>1. RecordAfter(b, s, fresh) \in Record
    BY RecordAfterType
<1>2. r # Absent => RecordAfter(b, s, r) \in Record
    BY RecordAfterType
<1> QED
    BY <1>1, <1>2 DEF After

LEMMA ApplyPatchesType ==
    ASSUME NEW n \in Nat, NEW b, IsBatch(b, n), NEW fresh \in Record,
           NEW st \in [Subject -> Record \cup {Absent}]
    PROVE  ApplyPatches(b, st, fresh) \in [Subject -> Record \cup {Absent}]
    BY AfterType DEF ApplyPatches

-----------------------------------------------------------------------------
(* Applying a batch twice. *)

\* The second application of a batch finds every cell as it would leave it:
\* what the materializer relies on when an entry is delivered to it again.
THEOREM BatchIdempotent ==
    ASSUME NEW n \in Nat, NEW b, IsBatch(b, n), NEW fresh \in Record,
           NEW st \in [Subject -> Record \cup {Absent}]
    PROVE  ApplyPatches(b, ApplyPatches(b, st, fresh), fresh)
             = ApplyPatches(b, st, fresh)
<1> SUFFICES ASSUME NEW s \in Subject
             PROVE  After(b, s, After(b, s, st[s], fresh), fresh)
                      = After(b, s, st[s], fresh)
    BY DEF ApplyPatches
<1> DEFINE r == st[s]
           base == IF r = Absent \/ LastDrop(b, s) > 0 THEN fresh ELSE r
           once == RecordAfter(b, s, base)
<1>1. CASE Surviving(b, s) = {}
    BY <1>1 DEF After
<1>2. CASE Surviving(b, s) # {}
  <2>1. base \in Record
      OBVIOUS
  <2>2. once \in Record /\ once # Absent
      BY <2>1, RecordAfterType, AbsentIsNoRecord
  <2>3. After(b, s, r, fresh) = once
      BY <1>2 DEF After
  <2>4. CASE LastDrop(b, s) > 0
      BY <1>2, <2>3, <2>4 DEF After
  <2>5. CASE ~ (LastDrop(b, s) > 0)
    <3>1. After(b, s, once, fresh) = RecordAfter(b, s, once)
        BY <1>2, <2>2, <2>5 DEF After
    <3>2. \A f \in Scalar :
            ScalarAfter(b, s, f, once.scalar[f]) = once.scalar[f]
        BY DEF RecordAfter, ScalarAfter
    <3>3. \A f \in SetField : \A m \in Member :
            MemberAfter(b, s, f, m, m \in once.members[f])
              <=> m \in once.members[f]
      <4> SUFFICES ASSUME NEW f \in SetField, NEW m \in Member
                   PROVE  MemberAfter(b, s, f, m, m \in once.members[f])
                            <=> m \in once.members[f]
          OBVIOUS
      <4>1. m \in once.members[f]
              <=> MemberAfter(b, s, f, m, m \in base.members[f])
          BY DEF RecordAfter
      <4> QED
          BY <4>1 DEF MemberAfter
    <3>4. RecordAfter(b, s, once) = once
        BY <3>2, <3>3 DEF RecordAfter
    <3> QED
        BY <2>3, <3>1, <3>4
  <2> QED
      BY <2>4, <2>5
<1> QED
    BY <1>1, <1>2

-----------------------------------------------------------------------------
(* A batch that leaves a subject without a record buries it. *)

LEMMA DropIsPatch ==
    ASSUME NEW p \in Patch, p.op = "drop"
    PROVE  p = Drop(p.on)
    BY DEF Patch, RootPatch, AssignPatch, ErasePatch, HoldPatch, MemberPatch,
           Drop

\* Where a batch leaves no record, it either does not name the subject or the
\* last root patch it carries for it is a drop, with the batch's stamp.
LEMMA AbsentIsBuried ==
    ASSUME NEW n \in Nat, NEW b, IsBatch(b, n), NEW s \in Subject,
           NEW r \in Record \cup {Absent}, NEW fresh \in Record,
           After(b, s, r, fresh) = Absent, NEW hlc, NEW old
    PROVE  \/ /\ s \notin Touched(b)
              /\ r = Absent
              /\ Tombstones(b, hlc, old)[s] = old[s]
           \/ /\ \E i \in DOMAIN b : b[i] = Drop(s)
              /\ Tombstones(b, hlc, old)[s] = hlc
<1> DEFINE base == IF r = Absent \/ LastDrop(b, s) > 0 THEN fresh ELSE r
           L == LastDrop(b, s)
           W == RootWrites(b, s)
<1>1. Surviving(b, s) = {}
  <2>1. base \in Record
      OBVIOUS
  <2>2. RecordAfter(b, s, base) # Absent
      BY <2>1, RecordAfterType, AbsentIsNoRecord
  <2> QED
      BY <2>2 DEF After
<1>2. CASE L = 0
  <2>1. s \notin Touched(b)
      BY <1>1, <1>2 DEF Touched, Surviving, IsBatch
  <2>2. W = {}
      BY <2>1 DEF Touched, RootWrites
  <2>3. r = Absent
      BY <1>1, <1>2 DEF After
  <2> QED
      BY <2>1, <2>2, <2>3 DEF Tombstones
<1>3. CASE L # 0
  <2>1. L \in DOMAIN b /\ b[L].op = "drop" /\ b[L].on = s
      BY <1>3, LastDropType
  <2>2. b[L] = Drop(s)
      BY <2>1, DropIsPatch DEF IsBatch
  <2>3. W \subseteq Nat /\ L \in W
      BY <2>1 DEF RootWrites, IsBatch
  <2>4. \A y \in W : y <= L
      BY <1>1, <2>1 DEF Surviving, RootWrites, IsBatch
  <2>5. Max(W) = L
      BY <2>3, <2>4, GreatestIsMax
  <2> QED
      BY <2>1, <2>2, <2>3, <2>5 DEF Tombstones
<1> QED
    BY <1>2, <1>3

-----------------------------------------------------------------------------
(* Batches applied one after another. *)

\* R lists what the batches L[1], L[2], ... make of the store e, up to the n-th.
Unrolled(R, n, L, e, fresh) ==
    /\ DOMAIN R = 0 .. n
    /\ R[0] = e
    /\ \A i \in 1 .. n : R[i] = ApplyPatches(L[i], R[i - 1], fresh)

LEMMA UnrolledIsUnique ==
    ASSUME NEW L, NEW e, NEW fresh, NEW n \in Nat, NEW m \in Nat, NEW R, NEW Q,
           Unrolled(R, n, L, e, fresh), Unrolled(Q, m, L, e, fresh)
    PROVE  \A i \in Nat : i <= n /\ i <= m => R[i] = Q[i]
<1> DEFINE T == {i \in Nat : i <= n /\ i <= m /\ R[i] # Q[i]}
<1> SUFFICES ASSUME T # {}
             PROVE  FALSE
    OBVIOUS
<1>1. PICK t \in T : \A i \in T : t <= i
    BY LeastNat
<1>2. t # 0
    BY <1>1 DEF Unrolled
<1>3. t - 1 \in Nat /\ t - 1 <= n /\ t - 1 <= m /\ t - 1 \notin T
    BY <1>1, <1>2
<1>4. R[t - 1] = Q[t - 1]
    BY <1>3
<1>5. R[t] = ApplyPatches(L[t], R[t - 1], fresh) /\ Q[t] = ApplyPatches(L[t], Q[t - 1], fresh)
    BY <1>1, <1>2 DEF Unrolled
<1> QED
    BY <1>1, <1>4, <1>5

LEMMA UnrolledExists ==
    ASSUME NEW L, NEW e, NEW fresh, NEW n \in Nat
    PROVE  \E R : Unrolled(R, n, L, e, fresh)
<1> DEFINE T == {i \in Nat : ~ \E R : Unrolled(R, i, L, e, fresh)}
<1> SUFFICES ASSUME T # {}
             PROVE  FALSE
    BY Zenon
<1>1. PICK t \in T : \A i \in T : t <= i
    BY LeastNat
<1>2. t # 0
  <2>1. Unrolled([i \in 0 .. 0 |-> e], 0, L, e, fresh)
      BY DEF Unrolled
  <2> QED
      BY <1>1, <2>1
<1>3. t - 1 \in Nat /\ t - 1 \notin T
    BY <1>1, <1>2
<1>4. PICK R : Unrolled(R, t - 1, L, e, fresh)
    BY <1>3
<1> DEFINE Q == [i \in 0 .. t |-> IF i = t THEN ApplyPatches(L[t], R[t - 1], fresh) ELSE R[i]]
<1>5. Unrolled(Q, t, L, e, fresh)
  <2>1. Q[0] = e
      BY <1>1, <1>2, <1>4 DEF Unrolled
  <2>2. ASSUME NEW i \in 1 .. t
        PROVE  Q[i] = ApplyPatches(L[i], Q[i - 1], fresh)
    <3>1. Q[i - 1] = R[i - 1]
        BY <1>1, <2>2
    <3>2. CASE i = t
        BY <3>1, <3>2
    <3>3. CASE i # t
      <4>1. i \in 1 .. t - 1
          BY <1>1, <3>3
      <4>2. R[i] = ApplyPatches(L[i], R[i - 1], fresh)
          BY <1>4, <4>1 DEF Unrolled
      <4> QED
          BY <3>1, <3>3, <4>2
    <3> QED
        BY <3>2, <3>3
  <2> HIDE DEF Q
  <2>3. DOMAIN Q = 0 .. t
      BY DEF Q
  <2> QED
      BY <2>1, <2>2, <2>3 DEF Unrolled
<1> QED
    BY <1>1, <1>5

\* There is a function that applies any number of them.
Applies(R, L, e, fresh) ==
    R = [n \in Nat |-> IF n = 0 THEN e ELSE ApplyPatches(L[n], R[n - 1], fresh)]

LEMMA ReplayExists ==
    ASSUME NEW L, NEW e, NEW fresh
    PROVE  \E R : Applies(R, L, e, fresh)
<1> DEFINE Up(n) == CHOOSE R : Unrolled(R, n, L, e, fresh)
           All == [n \in Nat |-> Up(n)[n]]
<1>1. \A n \in Nat : Unrolled(Up(n), n, L, e, fresh)
    BY UnrolledExists
<1>2. All[0] = e
    BY <1>1 DEF Unrolled
<1>3. ASSUME NEW n \in Nat, n # 0
      PROVE  All[n] = ApplyPatches(L[n], All[n - 1], fresh)
  <2>1. n - 1 \in Nat /\ Unrolled(Up(n), n, L, e, fresh) /\ Unrolled(Up(n - 1), n - 1, L, e, fresh)
      BY <1>1, <1>3
  <2> HIDE DEF Up
  <2>2. Up(n)[n - 1] = Up(n - 1)[n - 1]
      BY <2>1, UnrolledIsUnique
  <2>3. Up(n)[n] = ApplyPatches(L[n], Up(n)[n - 1], fresh)
      BY <1>3, <2>1 DEF Unrolled
  <2> QED
      BY <2>1, <2>2, <2>3
<1>4. All = [n \in Nat |-> IF n = 0 THEN e ELSE ApplyPatches(L[n], All[n - 1], fresh)]
  <2> HIDE DEF Up
  <2> QED
      BY <1>2, <1>3
<1> QED
    BY <1>4 DEF Applies

-----------------------------------------------------------------------------
(* A record as cells, each of which shows the last patch that bears on it. *)

\* Whether the subject has a record, each scalar, and each member of each set.
Cell == [kind : {"here"}]
          \cup [kind : {"scalar"}, prop : Scalar]
          \cup [kind : {"member"}, prop : SetField, member : Member]

Here == [kind |-> "here"]

\* What the cell c of a subject with the record r shows.
Look(r, c) ==
    IF c.kind = "here" THEN IF r = Absent THEN 0 ELSE 1
    ELSE IF c.kind = "scalar"
    THEN IF r = Absent THEN Missing ELSE r.scalar[c.prop]
    ELSE IF r # Absent /\ c.member \in r.members[c.prop] THEN 1 ELSE 0

\* The batch b decides what the cell c of subject s shows.
Bears(b, s, c) ==
    IF c.kind = "here" THEN s \in Touched(b)
    ELSE \/ LastDrop(b, s) # 0
         \/ c.kind = "scalar" /\ ScalarWrites(b, s, c.prop) # {}
         \/ c.kind = "member" /\ MemberWrites(b, s, c.prop, c.member) # {}

\* A subject without patches in the batch keeps its record.
LEMMA UntouchedStays ==
    ASSUME NEW n \in Nat, NEW b, IsBatch(b, n), NEW s, NEW r, NEW fresh,
           s \notin Touched(b)
    PROVE  After(b, s, r, fresh) = r
<1>1. LastDrop(b, s) = 0
    BY LastDropType DEF Touched
<1>2. Surviving(b, s) = {}
    BY DEF Surviving, Touched
<1> QED
    BY <1>1, <1>2 DEF After

\* Whether a batch leaves a record behind it depends on its patches alone.
LEMMA TouchedDecides ==
    ASSUME NEW n \in Nat, NEW b, IsBatch(b, n), NEW s, s \in Touched(b),
           NEW r \in Record \cup {Absent}, NEW fresh \in Record
    PROVE  After(b, s, r, fresh) = Absent <=> Surviving(b, s) = {}
<1>1. CASE Surviving(b, s) = {}
  <2>1. LastDrop(b, s) # 0
      BY <1>1 DEF Surviving, Touched, IsBatch
  <2> QED
      BY <1>1, <2>1 DEF After
<1>2. CASE Surviving(b, s) # {}
  <2> DEFINE base == IF r = Absent \/ LastDrop(b, s) > 0 THEN fresh ELSE r
  <2>1. base \in Record
      OBVIOUS
  <2>2. RecordAfter(b, s, base) # Absent
      BY <2>1, RecordAfterType, AbsentIsNoRecord
  <2> QED
      BY <1>2, <2>2 DEF After
<1> QED
    BY <1>1, <1>2

\* A cell a batch bears on shows the same whatever record the batch met, and
\* any other cell shows what it showed; a fresh record shows nothing, whoever
\* started it.
LEMMA AfterCell ==
    ASSUME NEW n \in Nat, NEW b, IsBatch(b, n), NEW s, NEW c \in Cell,
           NEW r \in Record \cup {Absent}, NEW i \in {"bare", "full"}
    PROVE  /\ ~Bears(b, s, c) => Look(After(b, s, r, Fresh(i)), c) = Look(r, c)
           /\ Bears(b, s, c) =>
                \A q \in Record \cup {Absent}, j \in {"bare", "full"} :
                   Look(After(b, s, r, Fresh(i)), c)
                     = Look(After(b, s, q, Fresh(j)), c)
<1>1. Fresh("bare") \in Record /\ Fresh("full") \in Record
    BY FreshIsRecordOf
<1>2. CASE s \notin Touched(b)
  <2>1. /\ \A q \in Record \cup {Absent}, j \in {"bare", "full"} :
              After(b, s, q, Fresh(j)) = q
      BY <1>2, UntouchedStays
  <2>2. LastDrop(b, s) = 0 /\ Surviving(b, s) = {}
      BY <1>2, LastDropType DEF Surviving, Touched
  <2>3. ~Bears(b, s, c)
      BY <1>2, <2>2 DEF Bears, ScalarWrites, MemberWrites
  <2> QED
      BY <2>1, <2>3
<1>3. CASE s \in Touched(b) /\ Surviving(b, s) = {}
  <2>1. \A q \in Record \cup {Absent}, j \in {"bare", "full"} :
           After(b, s, q, Fresh(j)) = Absent
      BY <1>1, <1>3, TouchedDecides
  <2>2. LastDrop(b, s) # 0
      BY <1>3 DEF Surviving, Touched, IsBatch
  <2>3. Bears(b, s, c)
      BY <1>3, <2>2 DEF Bears, Cell
  <2> QED
      BY <2>1, <2>3
<1>4. CASE s \in Touched(b) /\ Surviving(b, s) # {}
  <2> DEFINE Base(q, j) ==
                 IF q = Absent \/ LastDrop(b, s) > 0 THEN Fresh(j) ELSE q
  <2>1. LastDrop(b, s) \in Nat
      BY LastDropType
  <2>2. ASSUME NEW q \in Record \cup {Absent}, NEW j \in {"bare", "full"}
        PROVE  /\ After(b, s, q, Fresh(j)) = RecordAfter(b, s, Base(q, j))
               /\ Base(q, j) \in Record
               /\ RecordAfter(b, s, Base(q, j)) \in Record
               /\ RecordAfter(b, s, Base(q, j)) # Absent
    <3>1. After(b, s, q, Fresh(j)) = RecordAfter(b, s, Base(q, j))
        BY <1>4 DEF After
    <3>2. Base(q, j) \in Record
        BY <1>1
    <3> HIDE DEF Base
    <3>3. RecordAfter(b, s, Base(q, j)) \in Record
        BY <3>2, RecordAfterType
    <3> QED
        BY <3>1, <3>2, <3>3, AbsentIsNoRecord
  <2>3. ASSUME NEW j \in {"bare", "full"}, NEW d \in Cell, d.kind # "here"
        PROVE  Look(Fresh(j), d) = Look(Absent, d)
    <3>1. Fresh(j) # Absent
        BY <2>3, <1>1, AbsentIsNoRecord
    <3> QED
        BY <2>3, <3>1 DEF Look, Fresh, Cell
  <2> HIDE DEF Base
  <2>4. CASE c.kind = "here"
      BY <1>4, <2>2, <2>4 DEF Look, Bears
  <2>5. CASE c.kind = "scalar"
    <3>1. c.prop \in Scalar
        BY <2>5 DEF Cell
    <3>2. \A q \in Record \cup {Absent}, j \in {"bare", "full"} :
             Look(After(b, s, q, Fresh(j)), c)
               = ScalarAfter(b, s, c.prop, Base(q, j).scalar[c.prop])
      <4>1. \A g : RecordAfter(b, s, g).scalar[c.prop]
                      = ScalarAfter(b, s, c.prop, g.scalar[c.prop])
          BY <3>1 DEF RecordAfter
      <4>2. \A g : g # Absent => Look(g, c) = g.scalar[c.prop]
          BY <2>5 DEF Look
      <4> QED
          BY <2>2, <4>1, <4>2
    <3>3. CASE ScalarWrites(b, s, c.prop) # {}
        BY <2>5, <3>2, <3>3 DEF Bears, ScalarAfter
    <3>4. CASE ScalarWrites(b, s, c.prop) = {}
      <4>1. \A q \in Record \cup {Absent}, j \in {"bare", "full"} :
               Look(After(b, s, q, Fresh(j)), c) = Base(q, j).scalar[c.prop]
          BY <3>2, <3>4 DEF ScalarAfter
      <4>2. \A q \in Record \cup {Absent}, j \in {"bare", "full"} :
               Look(Base(q, j), c) = Base(q, j).scalar[c.prop]
        <5>1. \A q \in Record \cup {Absent}, j \in {"bare", "full"} :
                 Base(q, j) # Absent
            BY <2>2, AbsentIsNoRecord
        <5> QED
            BY <2>5, <5>1 DEF Look
      <4>3. \A q \in Record \cup {Absent}, j \in {"bare", "full"} :
               Look(After(b, s, q, Fresh(j)), c) = Look(Base(q, j), c)
          BY <4>1, <4>2
      <4>4. CASE LastDrop(b, s) = 0
        <5>1. ~Bears(b, s, c)
            BY <2>5, <3>4, <4>4 DEF Bears
        <5>2. Look(Base(r, i), c) = Look(r, c)
            BY <2>3, <2>5, <4>4 DEF Base
        <5> QED
            BY <4>3, <5>1, <5>2
      <4>5. CASE LastDrop(b, s) # 0
        <5>1. \A q \in Record \cup {Absent}, j \in {"bare", "full"} :
                 Look(Base(q, j), c) = Look(Absent, c)
            BY <2>1, <2>3, <2>5, <4>5 DEF Base
        <5>2. Bears(b, s, c)
            BY <2>5, <4>5 DEF Bears
        <5> QED
            BY <4>3, <5>1, <5>2
      <4> QED
          BY <4>4, <4>5
    <3> QED
        BY <3>3, <3>4
  <2>6. CASE c.kind = "member"
    <3>1. c.prop \in SetField /\ c.member \in Member
        BY <2>6 DEF Cell
    <3>2. \A q \in Record \cup {Absent}, j \in {"bare", "full"} :
             Look(After(b, s, q, Fresh(j)), c)
               = IF MemberAfter(b, s, c.prop, c.member,
                                c.member \in Base(q, j).members[c.prop])
                 THEN 1 ELSE 0
      <4>1. \A g : c.member \in RecordAfter(b, s, g).members[c.prop]
                      <=> MemberAfter(b, s, c.prop, c.member,
                                      c.member \in g.members[c.prop])
          BY <3>1 DEF RecordAfter
      <4>2. \A g : g # Absent =>
                Look(g, c) = IF c.member \in g.members[c.prop] THEN 1 ELSE 0
          BY <2>6 DEF Look
      <4> QED
          BY <2>2, <4>1, <4>2
    <3>3. CASE MemberWrites(b, s, c.prop, c.member) # {}
        BY <2>6, <3>2, <3>3 DEF Bears, MemberAfter
    <3>4. CASE MemberWrites(b, s, c.prop, c.member) = {}
      <4>1. \A q \in Record \cup {Absent}, j \in {"bare", "full"} :
               Look(After(b, s, q, Fresh(j)), c)
                 = IF c.member \in Base(q, j).members[c.prop] THEN 1 ELSE 0
          BY <3>2, <3>4 DEF MemberAfter
      <4>2. \A q \in Record \cup {Absent}, j \in {"bare", "full"} :
               Look(Base(q, j), c)
                 = IF c.member \in Base(q, j).members[c.prop] THEN 1 ELSE 0
        <5>1. \A q \in Record \cup {Absent}, j \in {"bare", "full"} :
                 Base(q, j) # Absent
            BY <2>2, AbsentIsNoRecord
        <5> QED
            BY <2>6, <5>1 DEF Look
      <4>3. \A q \in Record \cup {Absent}, j \in {"bare", "full"} :
               Look(After(b, s, q, Fresh(j)), c) = Look(Base(q, j), c)
          BY <4>1, <4>2
      <4>4. CASE LastDrop(b, s) = 0
        <5>1. ~Bears(b, s, c)
            BY <2>6, <3>4, <4>4 DEF Bears
        <5>2. Look(Base(r, i), c) = Look(r, c)
            BY <2>3, <2>6, <4>4 DEF Base
        <5> QED
            BY <4>3, <5>1, <5>2
      <4>5. CASE LastDrop(b, s) # 0
        <5>1. \A q \in Record \cup {Absent}, j \in {"bare", "full"} :
                 Look(Base(q, j), c) = Look(Absent, c)
            BY <2>1, <2>3, <2>6, <4>5 DEF Base
        <5>2. Bears(b, s, c)
            BY <2>6, <4>5 DEF Bears
        <5> QED
            BY <4>3, <5>1, <5>2
      <4> QED
          BY <4>4, <4>5
    <3> QED
        BY <3>3, <3>4
  <2> QED
      BY <2>4, <2>5, <2>6 DEF Cell
<1> QED
    BY <1>2, <1>3, <1>4
=============================================================================
