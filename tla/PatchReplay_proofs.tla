------------------------- MODULE PatchReplay_proofs --------------------------
(***************************************************************************)
(* The loop of applyPatchesToStore computes, for every batch and from      *)
(* every store, what ApplyPatches says of the batch as a whole; and a      *)
(* batch applied again changes nothing.                                    *)
(***************************************************************************)
EXTENDS PatchReplay, PatchAlgebra_proofs, SequenceTheorems

-----------------------------------------------------------------------------
(* A batch with one more patch. *)

LEMMA SequenceIsBatch ==
    ASSUME NEW a \in Seq(Patch)
    PROVE  Len(a) \in Nat /\ IsBatch(a, Len(a))
    BY LenProperties, ElementOfSeq DEF IsBatch

LEMMA OneMore ==
    ASSUME NEW a \in Seq(Patch), NEW p \in Patch
    PROVE  /\ Append(a, p) \in Seq(Patch)
           /\ DOMAIN a = 1 .. Len(a)
           /\ DOMAIN Append(a, p) = 1 .. (Len(a) + 1)
           /\ \A i \in 1 .. Len(a) : Append(a, p)[i] = a[i]
           /\ Append(a, p)[Len(a) + 1] = p
           /\ Len(a) \in Nat
<1>1. /\ Append(a, p) \in Seq(Patch)
      /\ Len(Append(a, p)) = Len(a) + 1
      /\ \A i \in 1 .. Len(a) : Append(a, p)[i] = a[i]
      /\ Append(a, p)[Len(a) + 1] = p
    BY AppendProperties
<1> QED
    BY <1>1, LenProperties

LEMMA LastDropGrows ==
    ASSUME NEW a \in Seq(Patch), NEW p \in Patch, NEW s
    PROVE  LastDrop(Append(a, p), s) =
             IF p.op = "drop" /\ p.on = s THEN Len(a) + 1 ELSE LastDrop(a, s)
<1> DEFINE n == Len(a)
           c == Append(a, p)
           D == {0} \cup {i \in DOMAIN a : a[i].op = "drop" /\ a[i].on = s}
           E == {0} \cup {i \in DOMAIN c : c[i].op = "drop" /\ c[i].on = s}
<1>1. /\ DOMAIN a = 1 .. n /\ DOMAIN c = 1 .. (n + 1) /\ n \in Nat
      /\ \A i \in 1 .. n : c[i] = a[i]
      /\ c[n + 1] = p
    BY OneMore
<1>2. LastDrop(a, s) = Max(D) /\ LastDrop(c, s) = Max(E)
    BY DEF LastDrop
<1>3. CASE p.op = "drop" /\ p.on = s
  <2>1. E \subseteq Nat /\ n + 1 \in E /\ \A y \in E : y <= n + 1
      BY <1>1, <1>3
  <2> QED
      BY <1>2, <1>3, <2>1, GreatestIsMax
<1>4. CASE ~ (p.op = "drop" /\ p.on = s)
  <2>1. \A i : i \in E <=> i \in D
      BY <1>1, <1>4
  <2>2. E = D
      BY <2>1
  <2> QED
      BY <1>2, <1>4, <2>2
<1> QED
    BY <1>3, <1>4

LEMMA SurvivingGrows ==
    ASSUME NEW a \in Seq(Patch), NEW p \in Patch, NEW s
    PROVE  Surviving(Append(a, p), s) =
             IF p.on # s THEN Surviving(a, s)
             ELSE IF p.op = "drop" THEN {} ELSE Surviving(a, s) \cup {Len(a) + 1}
<1> DEFINE n == Len(a)
           c == Append(a, p)
<1>1. /\ DOMAIN a = 1 .. n /\ DOMAIN c = 1 .. (n + 1) /\ n \in Nat
      /\ \A i \in 1 .. n : c[i] = a[i]
      /\ c[n + 1] = p
    BY OneMore
<1>2. LastDrop(a, s) \in 0 .. n
    BY SequenceIsBatch, LastDropType
<1>3. LastDrop(c, s) = IF p.op = "drop" /\ p.on = s THEN n + 1 ELSE LastDrop(a, s)
    BY LastDropGrows
<1> HIDE DEF n, c
<1>4. \A i : i \in Surviving(c, s) <=>
        IF p.on # s THEN i \in Surviving(a, s)
        ELSE IF p.op = "drop" THEN FALSE ELSE i \in Surviving(a, s) \/ i = n + 1
    BY <1>1, <1>2, <1>3 DEF Surviving
<1> QED
    BY <1>4 DEF n, c

-----------------------------------------------------------------------------
(* What the additional patch does to the cells of the record. *)

\* The patches that survive are positions of the batch without the new patch.
LEMMA SameWrites ==
    ASSUME NEW a \in Seq(Patch), NEW p \in Patch, NEW s, p.on # s,
           NEW r
    PROVE  RecordAfter(Append(a, p), s, r) = RecordAfter(a, s, r)
<1> DEFINE n == Len(a)
           c == Append(a, p)
<1>1. /\ DOMAIN a = 1 .. n /\ n \in Nat
      /\ \A i \in 1 .. n : c[i] = a[i]
    BY OneMore
<1>2. Surviving(c, s) = Surviving(a, s) /\ Surviving(a, s) \subseteq 1 .. n
    BY <1>1, SurvivingGrows DEF Surviving
<1> HIDE DEF n, c
<1>3. \A f \in Scalar : ScalarAfter(c, s, f, r.scalar[f])
                          = ScalarAfter(a, s, f, r.scalar[f])
  <2> TAKE f \in Scalar
  <2>1. ScalarWrites(c, s, f) = ScalarWrites(a, s, f)
      BY <1>1, <1>2 DEF ScalarWrites
  <2>2. ScalarWrites(a, s, f) \subseteq 0 .. n
        /\ ScalarWrites(a, s, f) \subseteq 1 .. n
      BY <1>1, <1>2 DEF ScalarWrites
  <2>3. ScalarWrites(a, s, f) # {} => Max(ScalarWrites(a, s, f)) \in 1 .. n
      BY <1>1, <2>2, MaxIsLast
  <2> QED
      BY <1>1, <2>1, <2>3 DEF ScalarAfter
<1>4. \A f \in SetField, m \in Member :
        MemberAfter(c, s, f, m, m \in r.members[f])
          <=> MemberAfter(a, s, f, m, m \in r.members[f])
  <2> TAKE f \in SetField, m \in Member
  <2>1. MemberWrites(c, s, f, m) = MemberWrites(a, s, f, m)
      BY <1>1, <1>2 DEF MemberWrites, IsSetPatch
  <2>2. MemberWrites(a, s, f, m) \subseteq 0 .. n
        /\ MemberWrites(a, s, f, m) \subseteq 1 .. n
      BY <1>1, <1>2 DEF MemberWrites
  <2>3. MemberWrites(a, s, f, m) # {} => Max(MemberWrites(a, s, f, m)) \in 1 .. n
      BY <1>1, <2>2, MaxIsLast
  <2> QED
      BY <1>1, <2>1, <2>3 DEF MemberAfter
<1>5. (\E i \in Surviving(c, s) : c[i].op = "identify")
        <=> \E i \in Surviving(a, s) : a[i].op = "identify"
    BY <1>1, <1>2
<1> QED
    BY <1>3, <1>4, <1>5 DEF RecordAfter, c

\* The new patch has the last word on the cells it writes, and no other cell
\* notices it.
LEMMA LastWrite ==
    ASSUME NEW a \in Seq(Patch), NEW p \in Patch, p.op # "drop",
           NEW r \in Record, NEW fresh
    PROVE  RecordAfter(Append(a, p), p.on, r)
             = ApplyOne(p, RecordAfter(a, p.on, r), fresh)
<1> DEFINE n == Len(a)
           c == Append(a, p)
           s == p.on
           old == RecordAfter(a, s, r)
           new == RecordAfter(c, s, r)
<1>1. /\ DOMAIN a = 1 .. n /\ n \in Nat
      /\ \A i \in 1 .. n : c[i] = a[i]
      /\ c[n + 1] = p
    BY OneMore
<1>2. /\ Surviving(c, s) = Surviving(a, s) \cup {n + 1}
      /\ Surviving(a, s) \subseteq 1 .. n
    BY <1>1, SurvivingGrows DEF Surviving
<1>3. old \in Record /\ new \in Record
    BY OneMore, SequenceIsBatch, RecordAfterType
<1> HIDE DEF n, c, s
<1>4. ASSUME NEW f \in Scalar
      PROVE  ScalarAfter(c, s, f, r.scalar[f]) =
               IF p.op \in {"assign", "erase"} /\ p.prop = f
               THEN IF p.op = "assign" THEN p.value ELSE Missing
               ELSE ScalarAfter(a, s, f, r.scalar[f])
  <2> DEFINE W == ScalarWrites(a, s, f)
             X == ScalarWrites(c, s, f)
  <2>1. W \subseteq 0 .. n /\ W \subseteq 1 .. n
      BY <1>1, <1>2 DEF ScalarWrites
  <2>2. CASE p.op \in {"assign", "erase"} /\ p.prop = f
    <3>1. n + 1 \in X /\ X \subseteq Nat /\ \A y \in X : y <= n + 1
        BY <1>1, <1>2, <2>2 DEF ScalarWrites
    <3>2. Max(X) = n + 1
        BY <3>1, GreatestIsMax
    <3> QED
        BY <1>1, <2>2, <3>1, <3>2 DEF ScalarAfter
  <2>3. CASE ~ (p.op \in {"assign", "erase"} /\ p.prop = f)
    <3>1. X = W
        BY <1>1, <1>2, <2>3 DEF ScalarWrites
    <3>2. W # {} => Max(W) \in 1 .. n
        BY <1>1, <2>1, MaxIsLast
    <3> QED
        BY <1>1, <2>3, <3>1, <3>2 DEF ScalarAfter
  <2> QED
      BY <2>2, <2>3
<1>5. ASSUME NEW f \in SetField, NEW m \in Member
      PROVE  MemberAfter(c, s, f, m, m \in r.members[f]) <=>
               IF \/ p.op = "erase" /\ p.prop = f
                  \/ IsSetPatch(p) /\ p.prop = f /\ m \in p.value
               THEN p.op = "insert"
               ELSE MemberAfter(a, s, f, m, m \in r.members[f])
  <2> DEFINE W == MemberWrites(a, s, f, m)
             X == MemberWrites(c, s, f, m)
             hit == \/ p.op = "erase" /\ p.prop = f
                    \/ IsSetPatch(p) /\ p.prop = f /\ m \in p.value
  <2>1. W \subseteq 0 .. n /\ W \subseteq 1 .. n
      BY <1>1, <1>2 DEF MemberWrites
  <2>2. CASE hit
    <3>1. n + 1 \in X /\ X \subseteq Nat /\ \A y \in X : y <= n + 1
        BY <1>1, <1>2, <2>2 DEF MemberWrites
    <3>2. Max(X) = n + 1
        BY <3>1, GreatestIsMax
    <3> QED
        BY <1>1, <2>2, <3>1, <3>2 DEF MemberAfter
  <2>3. CASE ~ hit
    <3>1. X = W
        BY <1>1, <1>2, <2>3 DEF MemberWrites, IsSetPatch
    <3>2. W # {} => Max(W) \in 1 .. n
        BY <1>1, <2>1, MaxIsLast
    <3> QED
        BY <1>1, <2>3, <3>1, <3>2 DEF MemberAfter
  <2> QED
      BY <2>2, <2>3
<1>6. (\E i \in Surviving(c, s) : c[i].op = "identify")
        <=> p.op = "identify" \/ \E i \in Surviving(a, s) : a[i].op = "identify"
    BY <1>1, <1>2
<1>7. new.identity = IF p.op = "identify" THEN "full" ELSE old.identity
    BY <1>6 DEF RecordAfter
<1>8. \A f \in Scalar :
        new.scalar[f] = IF p.op \in {"assign", "erase"} /\ p.prop = f
                        THEN IF p.op = "assign" THEN p.value ELSE Missing
                        ELSE old.scalar[f]
    BY <1>4 DEF RecordAfter
<1>9. \A f \in SetField :
        new.members[f] =
          {m \in Member :
             IF \/ p.op = "erase" /\ p.prop = f
                \/ IsSetPatch(p) /\ p.prop = f /\ m \in p.value
             THEN p.op = "insert" ELSE m \in old.members[f]}
    BY <1>5 DEF RecordAfter
<1>10. old # Absent
    BY <1>3, AbsentIsNoRecord
<1>11. /\ old.scalar \in [Scalar -> Value \cup {Missing}]
       /\ new.scalar \in [Scalar -> Value \cup {Missing}]
       /\ old.members \in [SetField -> SUBSET Member]
       /\ new.members \in [SetField -> SUBSET Member]
    BY <1>3 DEF Record
<1>12. new = [identity |-> new.identity, scalar |-> new.scalar,
              members |-> new.members]
    BY <1>3 DEF Record
<1> HIDE DEF old, new
<1>13. new.scalar = ScalarsWith(p, old.scalar)
  <2>1. p.op = "assign" => p.prop \in Scalar
      BY PatchKinds
  <2> QED
      BY <1>8, <1>11, <2>1 DEF ScalarsWith
<1>14. new.members = MembersWith(p, old.members)
  <2> DEFINE After1(f) == IF p.prop # f THEN old.members[f]
                          ELSE IF p.op = "insert" THEN old.members[f] \cup p.value
                          ELSE IF p.op = "discard" THEN old.members[f] \ p.value
                          ELSE IF p.op = "erase" THEN {} ELSE old.members[f]
  <2>1. p.op \in {"insert", "discard"} => p.prop \in SetField
      BY PatchKinds
  <2>2. p.op \in {"insert", "discard"} => p.value \subseteq Member
      BY DEF Patch, RootPatch, AssignPatch, ErasePatch, HoldPatch, MemberPatch
  <2>3. ASSUME NEW f \in SetField
        PROVE  new.members[f] = After1(f)
    <3>1. old.members[f] \subseteq Member
        BY <1>11
    <3>2. new.members[f] =
            {m \in Member :
               IF \/ p.op = "erase" /\ p.prop = f
                  \/ IsSetPatch(p) /\ p.prop = f /\ m \in p.value
               THEN p.op = "insert" ELSE m \in old.members[f]}
        BY <1>9
    <3>3. CASE p.prop # f
        BY <3>1, <3>2, <3>3
    <3>4. CASE p.prop = f /\ p.op = "insert"
        BY <2>2, <3>1, <3>2, <3>4 DEF IsSetPatch
    <3>5. CASE p.prop = f /\ p.op = "discard"
        BY <2>2, <3>1, <3>2, <3>5 DEF IsSetPatch
    <3>6. CASE p.prop = f /\ p.op = "erase"
        BY <3>2, <3>6 DEF IsSetPatch
    <3>7. CASE p.prop = f /\ p.op \notin {"insert", "discard", "erase"}
        BY <3>1, <3>2, <3>7 DEF IsSetPatch
    <3> QED
        BY <3>3, <3>4, <3>5, <3>6, <3>7
  <2>4. \A f \in SetField : MembersWith(p, old.members)[f] = After1(f)
      BY <1>11, <2>1 DEF MembersWith
  <2>5. MembersWith(p, old.members) = [f \in SetField |-> After1(f)]
    <3>1. DOMAIN MembersWith(p, old.members) = SetField
          /\ MembersWith(p, old.members)
               = [f \in SetField |-> MembersWith(p, old.members)[f]]
        BY <1>11 DEF MembersWith
    <3> HIDE DEF After1
    <3> QED
        BY <2>4, <3>1
  <2>6. new.members = [f \in SetField |-> After1(f)]
    <3> HIDE DEF After1
    <3> QED
        BY <1>11, <2>3
  <2> QED
      BY <2>5, <2>6
<1> QED
    BY <1>7, <1>10, <1>12, <1>13, <1>14 DEF ApplyOne, old, new, c, s

-----------------------------------------------------------------------------
(* The loop and the batch. *)

\* One round of the loop, whatever the batch so far has made of the subject.
LEMMA AfterOneMore ==
    ASSUME NEW a \in Seq(Patch), NEW p \in Patch, NEW s,
           NEW r \in Record \cup {Absent}, NEW fresh \in Record
    PROVE  After(Append(a, p), s, r, fresh) =
             IF p.on = s THEN ApplyOne(p, After(a, s, r, fresh), fresh)
             ELSE After(a, s, r, fresh)
<1> DEFINE c == Append(a, p)
           start == IF r = Absent \/ LastDrop(a, s) > 0 THEN fresh ELSE r
<1>1. Len(a) \in Nat /\ IsBatch(a, Len(a))
    BY SequenceIsBatch
<1>2. start \in Record /\ RecordAfter(a, s, start) \in Record
    BY <1>1, RecordAfterType
<1>3. CASE p.on # s
  <2>1. Surviving(c, s) = Surviving(a, s) /\ LastDrop(c, s) = LastDrop(a, s)
      BY <1>3, SurvivingGrows, LastDropGrows
  <2>2. RecordAfter(c, s, start) = RecordAfter(a, s, start)
      BY <1>3, SameWrites
  <2> QED
      BY <1>3, <2>1, <2>2 DEF After
<1>4. CASE p.on = s /\ p.op = "drop"
  <2>1. Surviving(c, s) = {} /\ LastDrop(c, s) # 0
      BY <1>1, <1>4, SurvivingGrows, LastDropGrows
  <2> QED
      BY <1>4, <2>1 DEF After, ApplyOne
<1>5. CASE p.on = s /\ p.op # "drop"
  <2>1. Surviving(c, s) # {} /\ LastDrop(c, s) = LastDrop(a, s)
      BY <1>5, SurvivingGrows, LastDropGrows
  <2>2. After(c, s, r, fresh) = RecordAfter(c, s, start)
      BY <2>1 DEF After
  <2>3. RecordAfter(c, s, start) = ApplyOne(p, RecordAfter(a, s, start), fresh)
      BY <1>2, <1>5, LastWrite
  <2>4. CASE Surviving(a, s) # {}
      BY <1>5, <2>2, <2>3, <2>4 DEF After
  <2>5. CASE Surviving(a, s) = {}
    <3>1. RecordAfter(a, s, start) = start
      <4>1. \A f : ScalarWrites(a, s, f) = {}
                   /\ \A m : MemberWrites(a, s, f, m) = {}
          BY <2>5 DEF ScalarWrites, MemberWrites
      <4>2. /\ \A f : ScalarAfter(a, s, f, start.scalar[f]) = start.scalar[f]
            /\ \A f, m : MemberAfter(a, s, f, m, m \in start.members[f])
                          <=> m \in start.members[f]
          BY <4>1 DEF ScalarAfter, MemberAfter
      <4>3. /\ start.scalar \in [Scalar -> Value \cup {Missing}]
            /\ start.members \in [SetField -> SUBSET Member]
            /\ start = [identity |-> start.identity, scalar |-> start.scalar,
                       members |-> start.members]
          BY <1>2 DEF Record
      <4> HIDE DEF start
      <4>4. [f \in Scalar |-> ScalarAfter(a, s, f, start.scalar[f])]
              = start.scalar
          BY <4>2, <4>3
      <4>5. [f \in SetField |->
               {m \in Member : MemberAfter(a, s, f, m, m \in start.members[f])}]
              = start.members
        <5>1. \A f \in SetField : start.members[f] \subseteq Member
            BY <4>3
        <5>2. \A f \in SetField :
                {m \in Member : MemberAfter(a, s, f, m, m \in start.members[f])}
                  = start.members[f]
            BY <4>2, <5>1
        <5> QED
            BY <4>3, <5>2
      <4> QED
          BY <2>5, <4>3, <4>4, <4>5 DEF RecordAfter
    <3>2. ApplyOne(p, start, fresh) = ApplyOne(p, After(a, s, r, fresh), fresh)
      <4>1. start # Absent
          BY <1>2, AbsentIsNoRecord
      <4>2. CASE r = Absent \/ LastDrop(a, s) > 0
        <5>1. After(a, s, r, fresh) = Absent
            BY <1>1, <2>5, <4>2, LastDropType DEF After
        <5> QED
            BY <1>5, <4>1, <4>2, <5>1 DEF ApplyOne
      <4>3. CASE ~ (r = Absent \/ LastDrop(a, s) > 0)
        <5>1. LastDrop(a, s) = 0
            BY <1>1, <4>3, LastDropType
        <5> QED
            BY <2>5, <4>3, <5>1 DEF After
      <4> QED
          BY <4>2, <4>3
    <3> QED
        BY <1>5, <2>2, <2>3, <3>1, <3>2
  <2> QED
      BY <2>4, <2>5
<1> QED
    BY <1>3, <1>4, <1>5

LEMMA StepLoop ==
    /\ TypeOK /\ LoopComputesBatch /\ [Next]_vars
    => TypeOK' /\ LoopComputesBatch'
<1> SUFFICES ASSUME TypeOK, LoopComputesBatch, [Next]_vars
             PROVE  TypeOK' /\ LoopComputesBatch'
    OBVIOUS
<1>1. FreshRecord \in Record
    BY FreshIsRecord, FreshIsRecordOf DEF BrowserFresh, ServerFresh
<1>2. ASSUME NEW p \in Patch, Apply(p)
      PROVE  TypeOK' /\ LoopComputesBatch'
  <2>1. /\ applied \in Seq(Patch) /\ applied' = Append(applied, p)
        /\ applied' \in Seq(Patch) /\ base' = base
        /\ base \in [Subject -> Record \cup {Absent}]
        /\ store \in [Subject -> Record \cup {Absent}]
      BY <1>2, OneMore DEF TypeOK, Apply
  <2>2. ASSUME NEW s \in Subject
        PROVE  store'[s] = After(applied', s, base[s], FreshRecord)
    <3>1. store[s] = After(applied, s, base[s], FreshRecord)
        BY DEF LoopComputesBatch, ApplyPatches
    <3>2. store'[s] = IF p.on = s THEN ApplyOne(p, store[s], FreshRecord)
                      ELSE store[s]
        BY <1>2, <2>1 DEF Apply
    <3>3. base[s] \in Record \cup {Absent}
        BY <2>1
    <3> QED
        BY <1>1, <2>1, <3>1, <3>2, <3>3, AfterOneMore
  <2>3. store' = [s \in Subject |-> store'[s]]
      BY <1>2, <2>1 DEF Apply
  <2>4. store' = ApplyPatches(applied', base, FreshRecord)
      BY <2>2, <2>3 DEF ApplyPatches
  <2>5. store' \in [Subject -> Record \cup {Absent}]
      BY <1>1, <2>1, <2>4, SequenceIsBatch, ApplyPatchesType
  <2> QED
      BY <2>1, <2>4, <2>5 DEF TypeOK, LoopComputesBatch
<1>3. CASE UNCHANGED vars
    BY <1>3 DEF vars, TypeOK, LoopComputesBatch
<1> QED
    BY <1>2, <1>3 DEF Next

LEMMA InitLoop == Init => TypeOK /\ LoopComputesBatch
<1> SUFFICES ASSUME Init
             PROVE  TypeOK /\ LoopComputesBatch
    OBVIOUS
<1>1. base \in [Subject -> Record \cup {Absent}] /\ store = base
      /\ applied = <<>>
    BY BasesAreStores DEF Init
<1>2. \A s : LastDrop(<<>>, s) = 0
  <2> TAKE s
  <2>1. {i \in DOMAIN <<>> : <<>>[i].op = "drop" /\ <<>>[i].on = s} = {}
      OBVIOUS
  <2>2. LastDrop(<<>>, s) = Max({0})
      BY <2>1 DEF LastDrop
  <2>3. {0} \subseteq Nat /\ 0 \in {0} /\ \A y \in {0} : y <= 0
      OBVIOUS
  <2> QED
      BY <2>2, <2>3, GreatestIsMax
<1>3. \A s : Surviving(<<>>, s) = {}
    BY DEF Surviving
<1>4. ApplyPatches(<<>>, base, FreshRecord) = base
    BY <1>1, <1>2, <1>3 DEF ApplyPatches, After
<1> QED
    BY <1>1, <1>4, EmptySeq DEF TypeOK, LoopComputesBatch

\* The loop of applyPatchesToStore, patch after patch on a store it changes in
\* place, leaves what ApplyPatches says of the batch: per cell the last patch
\* after the last drop decides.
THEOREM LoopIsBatch == Spec => [](TypeOK /\ LoopComputesBatch)
    BY InitLoop, StepLoop, PTL DEF Spec

\* Running the loop over a batch a second time leaves the store as it is,
\* however long the batch and whatever the store: what makes it safe for the
\* materializer to be given an entry again.
THEOREM RedeliveryIsHarmless == Spec => []RedeliveryHarmless
<1>1. TypeOK /\ LoopComputesBatch => RedeliveryHarmless
  <2> SUFFICES ASSUME TypeOK, LoopComputesBatch
               PROVE  RedeliveryHarmless
      OBVIOUS
  <2>1. FreshRecord \in Record
      BY FreshIsRecord, FreshIsRecordOf DEF BrowserFresh, ServerFresh
  <2>2. Len(applied) \in Nat /\ IsBatch(applied, Len(applied))
      BY SequenceIsBatch DEF TypeOK
  <2> QED
      BY <2>1, <2>2, BatchIdempotent
         DEF TypeOK, LoopComputesBatch, RedeliveryHarmless
<1> QED
    BY <1>1, LoopIsBatch, PTL
=============================================================================
