-------------------------- MODULE LocalEngine_proofs --------------------------
(***************************************************************************)
(* Proofs about the browser's record store, for every set of tabs, records *)
(* and edits.  What the tabs show in the end, once they have read their     *)
(* messages, they agree on; what is saved, known and listed follows that;  *)
(* so a reload gives what the tabs show.                                   *)
(***************************************************************************)
EXTENDS LocalEngine, PatchAlgebra_proofs, FiniteSetTheorems, SequenceTheorems

-----------------------------------------------------------------------------
(* Sets as sequences, and sequences of sequences as one. *)

LEMMA SetToSeqType ==
    ASSUME NEW S, IsFiniteSet(S)
    PROVE  SetToSeq(S) \in Seq(S) /\ Range(SetToSeq(S)) = S
<1> DEFINE I == 1 .. Cardinality(S)
           Lists(f) == f \in [I -> S] /\ IsInjective(f)
<1>1. Cardinality(S) \in Nat /\ ExistsBijection(I, S)
    BY FS_CardinalityType
<1>2. PICK g : g \in Bijection(I, S)
    BY <1>1 DEF ExistsBijection
<1>3. g \in [I -> S] /\ IsInjective(g)
    BY <1>2 DEF Bijection, Injection, IsInjective, Surjection
<1>4. PICK f : f = SetToSeq(S)
    OBVIOUS
<1>5. f = CHOOSE h \in [I -> S] : IsInjective(h)
    BY <1>4 DEF SetToSeq
<1>6. f \in [I -> S] /\ IsInjective(f)
    BY <1>3, <1>5
<1>7. f \in Injection(I, S)
    BY <1>6 DEF Injection, IsInjective
<1>8. Cardinality(I) = Cardinality(S) /\ IsFiniteSet(I)
    BY <1>1, FS_Interval
<1>9. f \in Surjection(I, S)
    BY <1>7, <1>8, FS_Injection
<1>10. \A x \in S : \E i \in I : f[i] = x
    BY <1>9 DEF Surjection
<1>11. f \in Seq(S) /\ DOMAIN f = I
    BY <1>1, <1>6
<1>12. Range(f) = S
    BY <1>6, <1>10, <1>11 DEF Range
<1> QED
    BY <1>4, <1>11, <1>12

LEMMA SeqsJoin ==
    ASSUME NEW S, NEW p \in Seq(S), NEW q \in Seq(S)
    PROVE  p \o q \in Seq(S) /\ Range(p \o q) = Range(p) \cup Range(q)
<1>1. /\ p \o q \in Seq(S) /\ Len(p) \in Nat /\ Len(q) \in Nat
      /\ DOMAIN p = 1 .. Len(p) /\ DOMAIN q = 1 .. Len(q)
      /\ DOMAIN (p \o q) = 1 .. Len(p) + Len(q)
    OBVIOUS
<1>2. /\ \A i \in 1 .. Len(p) : (p \o q)[i] = p[i]
      /\ \A i \in 1 .. Len(q) : (p \o q)[Len(p) + i] = q[i]
    OBVIOUS
<1>3. ASSUME NEW i \in 1 .. Len(p) + Len(q), ~ i <= Len(p)
      PROVE  i - Len(p) \in 1 .. Len(q) /\ (p \o q)[i] = q[i - Len(p)]
  <2>1. i - Len(p) \in 1 .. Len(q) /\ Len(p) + (i - Len(p)) = i
      BY <1>1, <1>3
  <2> QED
      BY <1>2, <2>1
<1>4. Range(p \o q) \subseteq Range(p) \cup Range(q)
  <2> SUFFICES ASSUME NEW i \in 1 .. Len(p) + Len(q)
               PROVE  (p \o q)[i] \in Range(p) \cup Range(q)
      BY <1>1 DEF Range
  <2>1. CASE i <= Len(p)
    <3>1. i \in 1 .. Len(p)
        BY <1>1, <2>1
    <3> QED
        BY <1>1, <1>2, <3>1 DEF Range
  <2>2. CASE ~ i <= Len(p)
      BY <1>1, <1>3, <2>2 DEF Range
  <2> QED
      BY <2>1, <2>2
<1>5. Range(p) \cup Range(q) \subseteq Range(p \o q)
  <2>1. ASSUME NEW i \in 1 .. Len(p)
        PROVE  p[i] \in Range(p \o q)
    <3>1. i \in DOMAIN (p \o q) /\ p[i] = (p \o q)[i]
        BY <1>1, <1>2
    <3> QED
        BY <3>1 DEF Range
  <2>2. ASSUME NEW i \in 1 .. Len(q)
        PROVE  q[i] \in Range(p \o q)
    <3>1. Len(p) + i \in DOMAIN (p \o q) /\ q[i] = (p \o q)[Len(p) + i]
        BY <1>1, <1>2
    <3> QED
        BY <3>1 DEF Range
  <2> QED
      BY <1>1, <2>1, <2>2 DEF Range
<1> QED
    BY <1>1, <1>4, <1>5

\* F joins the sequences q[1], q[2], ... up to each position to n.
JoinsTo(F, n, q) ==
    F = [i \in 1 .. n |-> IF i = 1 THEN q[i] ELSE F[i - 1] \o q[i]]

LEMMA JoinsExist ==
    ASSUME NEW q, NEW n \in Nat
    PROVE  \E F : JoinsTo(F, n, q)
<1> DEFINE T == {i \in Nat : ~ \E F : JoinsTo(F, i, q)}
<1> SUFFICES ASSUME T # {}
             PROVE  FALSE
    BY Zenon
<1>1. PICK t \in T : \A i \in T : t <= i
    BY LeastNat
<1>2. t # 0
  <2>1. JoinsTo([i \in 1 .. 0 |-> q], 0, q)
      BY DEF JoinsTo
  <2> QED
      BY <1>1, <2>1
<1>3. t - 1 \in Nat /\ t - 1 \notin T
    BY <1>1, <1>2
<1>4. PICK G : JoinsTo(G, t - 1, q)
    BY <1>3
<1> DEFINE H == [i \in 1 .. t |-> IF i = t THEN IF t = 1 THEN q[1] ELSE G[t - 1] \o q[t]
                                  ELSE G[i]]
<1>5. JoinsTo(H, t, q)
  <2>1. ASSUME NEW i \in 1 .. t
        PROVE  H[i] = IF i = 1 THEN q[i] ELSE H[i - 1] \o q[i]
    <3>1. CASE i = t
      <4>1. i # 1 => H[i - 1] = G[i - 1]
          BY <1>1, <2>1, <3>1
      <4> QED
          BY <3>1, <4>1
    <3>2. CASE i # t
      <4>1. i \in 1 .. t - 1
          BY <1>1, <3>2
      <4>2. G[i] = IF i = 1 THEN q[i] ELSE G[i - 1] \o q[i]
          BY <1>4, <4>1 DEF JoinsTo
      <4>3. H[i] = G[i] /\ (i # 1 => H[i - 1] = G[i - 1])
          BY <1>1, <3>2, <4>1
      <4> QED
          BY <4>2, <4>3
    <3> QED
        BY <3>1, <3>2
  <2>2. H = [i \in 1 .. t |-> H[i]]
      OBVIOUS
  <2> HIDE DEF H
  <2> QED
      BY <2>1, <2>2 DEF JoinsTo
<1> QED
    BY <1>1, <1>5

\* What FlattenSeq computes, from left to right.
LEMMA FlattenJoins ==
    ASSUME NEW S, NEW q \in Seq(Seq(S)), Len(q) # 0
    PROVE  \E F : /\ FlattenSeq(q) = F[Len(q)]
                  /\ \A i \in 1 .. Len(q) : F[i] = IF i = 1 THEN q[i] ELSE F[i - 1] \o q[i]
                  /\ \A i \in 1 .. Len(q) : F[i] \in Seq(S)
<1>1. Len(q) \in Nat /\ \A i \in 1 .. Len(q) : q[i] \in Seq(S)
    OBVIOUS
<1>2. \E F : JoinsTo(F, Len(q), q)
    BY <1>1, JoinsExist
<1>3. PICK F : F = CHOOSE f : JoinsTo(f, Len(q), q)
    OBVIOUS
<1>4. FlattenSeq(q) = F[Len(q)]
  <2>1. q # <<>>
      OBVIOUS
  <2> QED
      BY <1>3, <2>1, Zenon DEF FlattenSeq, JoinsTo
<1>5. JoinsTo(F, Len(q), q)
    BY <1>2, <1>3, Zenon
<1>6. \A i \in 1 .. Len(q) : F[i] = IF i = 1 THEN q[i] ELSE F[i - 1] \o q[i]
  <2>1. F = [i \in 1 .. Len(q) |-> IF i = 1 THEN q[i] ELSE F[i - 1] \o q[i]]
      BY <1>5 DEF JoinsTo
  <2> QED
      BY <2>1
<1> DEFINE T == {i \in Nat : i \in 1 .. Len(q) /\ F[i] \notin Seq(S)}
<1>7. T = {}
  <2> SUFFICES ASSUME T # {}
               PROVE  FALSE
      OBVIOUS
  <2>1. PICK t \in T : \A i \in T : t <= i
      BY LeastNat
  <2>2. F[t] = IF t = 1 THEN q[t] ELSE F[t - 1] \o q[t]
      BY <1>6, <2>1
  <2>3. CASE t = 1
      BY <1>1, <2>1, <2>2, <2>3
  <2>4. CASE t # 1
    <3>1. t - 1 \in Nat /\ t - 1 \in 1 .. Len(q) /\ t - 1 \notin T
        BY <1>1, <2>1, <2>4
    <3>2. F[t - 1] \in Seq(S) /\ q[t] \in Seq(S)
        BY <1>1, <2>1, <3>1
    <3>3. F[t] \in Seq(S)
        BY <2>2, <2>4, <3>2
    <3> QED
        BY <2>1, <3>3
  <2> QED
      BY <2>3, <2>4
<1>8. ASSUME NEW i \in 1 .. Len(q)
      PROVE  F[i] \in Seq(S)
  <2>1. i \in Nat /\ i \notin T
      BY <1>1, <1>7
  <2> QED
      BY <2>1
<1> HIDE DEF T
<1> QED
    BY <1>4, <1>6, <1>8, Zenon

LEMMA FlattenSeqType ==
    ASSUME NEW S, NEW q \in Seq(Seq(S))
    PROVE  FlattenSeq(q) \in Seq(S)
<1>1. CASE Len(q) = 0
  <2>1. q = <<>>
      BY <1>1
  <2> QED
      BY <1>1, <2>1 DEF FlattenSeq
<1>2. CASE Len(q) # 0
  <2>1. Len(q) \in 1 .. Len(q)
      BY <1>2
  <2>2. PICK F : /\ FlattenSeq(q) = F[Len(q)]
                 /\ \A i \in 1 .. Len(q) : F[i] = IF i = 1 THEN q[i] ELSE F[i - 1] \o q[i]
                 /\ \A i \in 1 .. Len(q) : F[i] \in Seq(S)
      BY <1>2, FlattenJoins, Zenon
  <2> QED
      BY <2>1, <2>2
<1> QED
    BY <1>1, <1>2

\* Each x in the sequence q has a y after it.
FollowedBy(q, x, y) == \A i \in DOMAIN q : q[i] = x => \E j \in DOMAIN q : i < j /\ q[j] = y

LEMMA FollowedInBoth ==
    ASSUME NEW S, NEW p \in Seq(S), NEW q \in Seq(S), NEW x, NEW y,
           FollowedBy(p, x, y), FollowedBy(q, x, y)
    PROVE  FollowedBy(p \o q, x, y)
<1>1. PICK m \in Nat, n \in Nat : m = Len(p) /\ n = Len(q)
    OBVIOUS
<1>2. PICK r : r = p \o q
    OBVIOUS
<1>3. /\ DOMAIN p = 1 .. m /\ DOMAIN q = 1 .. n /\ DOMAIN r = 1 .. m + n
      /\ \A i \in 1 .. m : r[i] = p[i]
      /\ \A i \in 1 .. n : r[m + i] = q[i]
    BY <1>1, <1>2
<1>4. ASSUME NEW i \in 1 .. m + n, r[i] = x
      PROVE  \E j \in 1 .. m + n : i < j /\ r[j] = y
  <2>1. CASE i <= m
    <3>1. i \in 1 .. m /\ p[i] = x
        BY <1>3, <1>4, <2>1
    <3>2. PICK j \in 1 .. m : i < j /\ p[j] = y
        BY <1>3, <3>1 DEF FollowedBy
    <3> QED
        BY <1>3, <3>2
  <2>2. CASE ~ i <= m
    <3>1. i - m \in 1 .. n /\ m + (i - m) = i
        BY <2>2
    <3>2. q[i - m] = x
        BY <1>3, <1>4, <3>1
    <3>3. PICK j \in 1 .. n : i - m < j /\ q[j] = y
        BY <1>3, <3>1, <3>2 DEF FollowedBy
    <3>4. m + j \in 1 .. m + n /\ i < m + j
        BY <3>1, <3>3
    <3> QED
        BY <1>3, <3>3, <3>4
  <2> QED
      BY <2>1, <2>2
<1> QED
    BY <1>2, <1>3, <1>4 DEF FollowedBy

\* Joining loses nothing, and no order.
LEMMA FlattenSeqKeeps ==
    ASSUME NEW S, NEW q \in Seq(Seq(S))
    PROVE  /\ \A x : x \in Range(FlattenSeq(q)) <=> \E i \in DOMAIN q : x \in Range(q[i])
           /\ \A x, y : (\A i \in DOMAIN q : FollowedBy(q[i], x, y))
                             => FollowedBy(FlattenSeq(q), x, y)
<1>1. PICK n \in Nat : n = Len(q) /\ DOMAIN q = 1 .. n
    OBVIOUS
<1>2. CASE n = 0
  <2>1. q = <<>> /\ DOMAIN q = {}
      BY <1>1, <1>2
  <2>2. FlattenSeq(q) = <<>> /\ DOMAIN <<>> = {}
      BY <2>1 DEF FlattenSeq
  <2> QED
      BY <2>1, <2>2 DEF Range, FollowedBy
<1>3. CASE n # 0
  <2>1. PICK F : /\ FlattenSeq(q) = F[Len(q)]
                 /\ \A i \in 1 .. Len(q) : F[i] = IF i = 1 THEN q[i] ELSE F[i - 1] \o q[i]
                 /\ \A i \in 1 .. Len(q) : F[i] \in Seq(S)
    <3>1. Len(q) # 0
        BY <1>1, <1>3
    <3> QED
        BY <3>1, FlattenJoins, Zenon
  <2>2. /\ FlattenSeq(q) = F[n]
        /\ \A i \in 1 .. n : F[i] \in Seq(S) /\ q[i] \in Seq(S)
        /\ F[1] = q[1]
      BY <1>1, <1>3, <2>1
  <2>6. \A i \in 1 .. n : i # 1 => F[i] = F[i - 1] \o q[i]
      BY <1>1, <2>1
  <2>3. ASSUME NEW x
        PROVE  \A i \in 1 .. n : x \in Range(F[i]) <=> \E j \in 1 .. i : x \in Range(q[j])
    <3> DEFINE P(i) == x \in Range(F[i]) <=> \E j \in 1 .. i : x \in Range(q[j])
               T == {i \in Nat : i \in 1 .. n /\ ~P(i)}
    <3> SUFFICES ASSUME T # {}
                 PROVE  FALSE
      <4> HIDE DEF P
      <4>1. T = {} => \A i \in 1 .. n : P(i)
          OBVIOUS
      <4> QED
          BY <4>1 DEF P
    <3>1. PICK t \in T : \A i \in T : t <= i
        BY LeastNat
    <3>2. CASE t = 1
      <4>1. F[t] = q[t]
          BY <2>2, <3>2
      <4> QED
          BY <3>1, <3>2, <4>1
    <3>3. CASE t # 1
      <4>1. t - 1 \in 1 .. n /\ t - 1 \notin T /\ t - 1 \in Nat
          BY <3>1, <3>3
      <4>2. F[t] = F[t - 1] \o q[t] /\ F[t - 1] \in Seq(S) /\ q[t] \in Seq(S)
          BY <2>2, <2>6, <3>1, <3>3, <4>1
      <4>3. Range(F[t]) = Range(F[t - 1]) \cup Range(q[t])
          BY <4>2, SeqsJoin
      <4>4. x \in Range(F[t - 1]) <=> \E j \in 1 .. t - 1 : x \in Range(q[j])
          BY <4>1
      <4>5. 1 .. t = (1 .. t - 1) \cup {t}
          BY <4>1
      <4>6. x \in Range(F[t]) <=> \E j \in 1 .. t : x \in Range(q[j])
          BY <4>3, <4>4, <4>5
      <4> QED
          BY <3>1, <4>6
    <3> QED
        BY <3>2, <3>3
  <2>4. ASSUME NEW x, NEW y, \A i \in 1 .. n : FollowedBy(q[i], x, y)
        PROVE  FollowedBy(F[n], x, y)
    <3> DEFINE T == {i \in Nat : i \in 1 .. n /\ ~FollowedBy(F[i], x, y)}
    <3> SUFFICES ASSUME T # {}
                 PROVE  FALSE
        BY <1>3
    <3>1. PICK t \in T : \A i \in T : t <= i
        BY LeastNat
    <3>2. CASE t = 1
      <4>1. F[t] = q[t]
          BY <2>2, <3>2
      <4> QED
          BY <2>4, <3>1, <4>1
    <3>3. CASE t # 1
      <4>1. t - 1 \in 1 .. n /\ t - 1 \notin T /\ t - 1 \in Nat
          BY <3>1, <3>3
      <4>2. F[t] = F[t - 1] \o q[t] /\ F[t - 1] \in Seq(S) /\ q[t] \in Seq(S)
          BY <2>2, <2>6, <3>1, <3>3, <4>1
      <4>3. FollowedBy(F[t - 1], x, y) /\ FollowedBy(q[t], x, y)
          BY <2>4, <3>1, <4>1
      <4> QED
          BY <3>1, <4>2, <4>3, FollowedInBoth
    <3> QED
        BY <3>2, <3>3
  <2>5. n \in 1 .. n
      BY <1>3
  <2> QED
      BY <1>1, <2>2, <2>3, <2>4, <2>5
<1> QED
    BY <1>2, <1>3

-----------------------------------------------------------------------------
(* Batches, and the records they are made from and make. *)

\* A batch as it is sent: patches at some of the first positions.
Batch == UNION {[D -> Patch] : D \in UNION {SUBSET (1 .. n) : n \in Nat}}

LEMMA BatchIsBatch ==
    ASSUME NEW b \in Batch
    PROVE  \E n \in Nat : IsBatch(b, n)
<1>1. PICK D \in UNION {SUBSET (1 .. n) : n \in Nat} : b \in [D -> Patch]
    BY DEF Batch
<1>2. PICK n \in Nat : D \subseteq 1 .. n
    BY <1>1
<1> QED
    BY <1>1, <1>2 DEF IsBatch

LEMMA SeqIsBatch ==
    ASSUME NEW b \in Seq(Patch)
    PROVE  b \in Batch
<1>1. Len(b) \in Nat /\ b \in [1 .. Len(b) -> Patch]
    OBVIOUS
<1>2. 1 .. Len(b) \in UNION {SUBSET (1 .. n) : n \in Nat}
    BY <1>1
<1> QED
    BY <1>1, <1>2 DEF Batch

LEMMA RestrictedIsBatch ==
    ASSUME NEW b \in Seq(Patch), NEW D, D \subseteq DOMAIN b
    PROVE  /\ Restrict(b, D) \in Batch
           /\ DOMAIN Restrict(b, D) = D
           /\ \A i \in D : Restrict(b, D)[i] = b[i]
<1>1. Len(b) \in Nat /\ DOMAIN b = 1 .. Len(b) /\ \A i \in D : b[i] \in Patch
    OBVIOUS
<1>2. Restrict(b, D) \in [D -> Patch]
    BY <1>1 DEF Restrict
<1>3. D \in UNION {SUBSET (1 .. n) : n \in Nat}
    BY <1>1
<1> QED
    BY <1>2, <1>3 DEF Batch, Restrict

\* What is left of a batch, without what would create records that are there.
LEMMA WithoutDuplicatesIsBatch ==
    ASSUME NEW b \in Seq(Patch) \cup Batch, NEW st
    PROVE  /\ WithoutDuplicates(b, st) \in Batch
           /\ DOMAIN WithoutDuplicates(b, st) \subseteq DOMAIN b
           /\ \A i \in DOMAIN b : \/ st[b[i].on] # Absent /\ Creates(b, b[i].on)
                                  \/ /\ i \in DOMAIN WithoutDuplicates(b, st)
                                     /\ WithoutDuplicates(b, st)[i] = b[i]
           /\ \A i \in DOMAIN WithoutDuplicates(b, st) : WithoutDuplicates(b, st)[i] = b[i]
           /\ Touched(WithoutDuplicates(b, st)) \subseteq Touched(b)
<1> DEFINE D == {i \in DOMAIN b : ~(st[b[i].on] # Absent /\ Creates(b, b[i].on))}
<1>1. b \in Batch
    BY SeqIsBatch
<1>2. WithoutDuplicates(b, st) = [i \in D |-> b[i]]
    BY DEF WithoutDuplicates, Restrict
<1>3. PICK E \in UNION {SUBSET (1 .. n) : n \in Nat} : b \in [E -> Patch]
    BY <1>1 DEF Batch
<1>4. D \in UNION {SUBSET (1 .. n) : n \in Nat} /\ D \subseteq E
    BY <1>3
<1>5. [i \in D |-> b[i]] \in [D -> Patch]
    BY <1>3, <1>4
<1>6. [i \in D |-> b[i]] \in Batch
    BY <1>4, <1>5 DEF Batch
<1> QED
    BY <1>2, <1>3, <1>6 DEF Touched

\* A batch is about records there may be.
LEMMA TouchedAreSubjects ==
    ASSUME NEW b \in Batch
    PROVE  Touched(b) \subseteq Subject /\ IsFiniteSet(Touched(b))
<1>1. \A i \in DOMAIN b : b[i] \in Patch
    BY BatchIsBatch DEF IsBatch
<1>2. Touched(b) \subseteq Subject
    BY <1>1, PatchKinds DEF Touched
<1> QED
    BY <1>2, NamesAreFinite, FS_Subset

\* Records stay in order, whatever is done to them.
LEMMA FullRecordsStay ==
    ASSUME NEW b \in Batch, NEW s, NEW r \in FullRecord \cup {Absent}
    PROVE  After(b, s, r, BrowserFresh) \in FullRecord \cup {Absent}
<1>1. PICK n \in Nat : IsBatch(b, n)
    BY BatchIsBatch
<1>2. BrowserFresh \in Record /\ BrowserFresh.identity = "full"
    BY FreshIsRecordOf DEF BrowserFresh, Fresh
<1>3. r \in Record \cup {Absent}
    BY DEF FullRecord
<1>4. After(b, s, r, BrowserFresh) \in Record \cup {Absent}
    BY <1>1, <1>2, <1>3, AfterType
<1>5. \A base : base.identity = "full" => RecordAfter(b, s, base).identity = "full"
    BY DEF RecordAfter
<1> QED
    BY <1>2, <1>4, <1>5 DEF After, FullRecord

LEMMA StoreStays ==
    ASSUME NEW b \in Batch, NEW st \in Store
    PROVE  ApplyPatches(b, st, BrowserFresh) \in Store
<1>1. \A s \in Subject : After(b, s, st[s], BrowserFresh) \in FullRecord \cup {Absent}
    BY FullRecordsStay DEF Store
<1> QED
    BY <1>1 DEF ApplyPatches, Store

LEMMA WholeRange ==
    ASSUME NEW s \in Subject, NEW r \in FullRecord
    PROVE  /\ Whole(s, r) \in Seq(Patch)
           /\ Range(Whole(s, r)) =
                {Create(s), Identify(s)}
                \cup {Assign(s, f, r.scalar[f]) : f \in {g \in Scalar : r.scalar[g] # Missing}}
                \cup {Insert(s, f, r.members[f]) : f \in {g \in SetField : r.members[g] # {}}}
<1> DEFINE F == {g \in Scalar : r.scalar[g] # Missing}
           G == {g \in SetField : r.members[g] # {}}
           P == {Assign(s, f, r.scalar[f]) : f \in F}
           Q == {Insert(s, f, r.members[f]) : f \in G}
           start == <<Create(s), Identify(s)>>
<1>1. IsFiniteSet(F) /\ IsFiniteSet(G)
    BY NamesAreFinite, FS_Subset
<1>2. IsFiniteSet(P) /\ IsFiniteSet(Q)
  <2>1. [f \in F |-> Assign(s, f, r.scalar[f])] \in Surjection(F, P)
      BY DEF Surjection
  <2>2. [f \in G |-> Insert(s, f, r.members[f])] \in Surjection(G, Q)
      BY DEF Surjection
  <2> QED
      BY <1>1, <2>1, <2>2, FS_Surjection
<1>3. P \subseteq Patch /\ Q \subseteq Patch
  <2>1. \A f \in F : r.scalar[f] \in Value
      BY DEF FullRecord, Record
  <2>2. \A f \in G : r.members[f] \in SUBSET Member
      BY DEF FullRecord, Record
  <2> QED
      BY <2>1, <2>2 DEF Patch, AssignPatch, MemberPatch, Assign, Insert
<1>4. start \in Seq(Patch) /\ Range(start) = {Create(s), Identify(s)}
  <2>1. Create(s) \in Patch /\ Identify(s) \in Patch
      BY DEF Patch, RootPatch, Create, Identify
  <2>2. DOMAIN start = 1 .. 2 /\ start[1] = Create(s) /\ start[2] = Identify(s)
      OBVIOUS
  <2>3. 1 .. 2 = {1, 2}
      OBVIOUS
  <2> QED
      BY <2>1, <2>2, <2>3 DEF Range
<1>5. ScalarPatches(s, r) = SetToSeq(P) /\ MembersPatches(s, r) = SetToSeq(Q)
    BY DEF ScalarPatches, MembersPatches
<1> HIDE DEF P, Q, start
<1>6. /\ SetToSeq(P) \in Seq(P) /\ Range(SetToSeq(P)) = P
      /\ SetToSeq(Q) \in Seq(Q) /\ Range(SetToSeq(Q)) = Q
    BY <1>2, SetToSeqType
<1>7. SetToSeq(P) \in Seq(Patch) /\ SetToSeq(Q) \in Seq(Patch)
    BY <1>3, <1>6
<1>8. PICK p, q, x : p = SetToSeq(P) /\ q = SetToSeq(Q) /\ x = start \o p
    OBVIOUS
<1>9. Whole(s, r) = x \o q
    BY <1>5, <1>8 DEF Whole, start
<1>10. x \in Seq(Patch) /\ Range(x) = Range(start) \cup Range(p)
    BY <1>4, <1>7, <1>8, SeqsJoin
<1>11. x \o q \in Seq(Patch) /\ Range(x \o q) = Range(x) \cup Range(q)
  <2>1. x \in Seq(Patch) /\ q \in Seq(Patch)
      BY <1>7, <1>8, <1>10
  <2> QED
      BY <2>1, SeqsJoin
<1>12. Range(Whole(s, r)) = {Create(s), Identify(s)} \cup P \cup Q
    BY <1>4, <1>6, <1>8, <1>9, <1>10, <1>11
<1>13. Whole(s, r) \in Seq(Patch)
    BY <1>9, <1>11
<1> QED
    BY <1>12, <1>13, Zenon DEF P, Q

\* What survives is the record and nothing else.
LEMMA SurvivorsMakeRecord ==
    ASSUME NEW s \in Subject, NEW r \in FullRecord, NEW n \in Nat, NEW b, IsBatch(b, n), NEW q,
           \A i \in Surviving(b, s) : b[i] \in Range(Whole(s, r)),
           \A p \in Range(Whole(s, r)) : \E i \in Surviving(b, s) : b[i] = p,
           q = Absent \/ LastDrop(b, s) > 0
    PROVE  After(b, s, q, BrowserFresh) = r
<1>1. Range(Whole(s, r)) = {Create(s), Identify(s)}
            \cup {Assign(s, f, r.scalar[f]) : f \in {g \in Scalar : r.scalar[g] # Missing}}
            \cup {Insert(s, f, r.members[f]) : f \in {g \in SetField : r.members[g] # {}}}
    BY WholeRange
<1>2. /\ \E i \in Surviving(b, s) : b[i] = Identify(s)
      /\ \A f \in Scalar : r.scalar[f] # Missing =>
            \E i \in Surviving(b, s) : b[i] = Assign(s, f, r.scalar[f])
      /\ \A f \in SetField : r.members[f] # {} =>
            \E i \in Surviving(b, s) : b[i] = Insert(s, f, r.members[f])
    BY <1>1
<1>3. Surviving(b, s) \subseteq 1 .. n
    BY DEF IsBatch, Surviving
<1>5. ASSUME NEW i \in Surviving(b, s)
      PROVE  /\ b[i].op \in {"assign", "erase"} =>
                  /\ b[i].op = "assign" /\ b[i].value = r.scalar[b[i].prop]
                  /\ r.scalar[b[i].prop] # Missing
             /\ b[i].op \in {"insert", "discard", "erase"} =>
                  b[i].op = "insert" /\ b[i].value = r.members[b[i].prop]
  <2>1. CASE b[i] \in {Create(s), Identify(s)}
      BY <2>1 DEF Create, Identify
  <2>2. ASSUME NEW f \in Scalar, r.scalar[f] # Missing, b[i] = Assign(s, f, r.scalar[f])
        PROVE  <1>5!2
      BY <2>2 DEF Assign
  <2>3. ASSUME NEW f \in SetField, b[i] = Insert(s, f, r.members[f])
        PROVE  <1>5!2
      BY <2>3 DEF Insert
  <2>4. b[i] \in Range(Whole(s, r))
      OBVIOUS
  <2> QED
      BY <1>1, <2>1, <2>2, <2>3, <2>4
<1>9. Absent # r /\ r \in Record /\ r.identity = "full"
    BY AbsentIsNoRecord DEF FullRecord
<1>12. ASSUME NEW f \in Scalar
       PROVE  ScalarAfter(b, s, f, BrowserFresh.scalar[f]) = r.scalar[f]
  <2> DEFINE W == ScalarWrites(b, s, f)
  <2>1. W \subseteq 1 .. n /\ \A i \in W : /\ i \in Surviving(b, s) /\ b[i].prop = f
                                            /\ b[i].op \in {"assign", "erase"}
      BY <1>3 DEF ScalarWrites
  <2>2. \A i \in W : b[i].op = "assign" /\ b[i].value = r.scalar[f] /\ r.scalar[f] # Missing
      BY <1>5, <2>1
  <2>3. CASE r.scalar[f] = Missing
    <3>1. W = {}
        BY <2>2, <2>3
    <3> QED
        BY <2>3, <3>1 DEF ScalarAfter, BrowserFresh, Fresh
  <2>4. CASE r.scalar[f] # Missing
    <3>1. PICK i \in Surviving(b, s) : b[i] = Assign(s, f, r.scalar[f])
        BY <1>2, <2>4
    <3>2. i \in W
        BY <3>1 DEF ScalarWrites, Assign
    <3>3. W # {} /\ W \subseteq 0 .. n
        BY <2>1, <3>2
    <3> HIDE DEF W
    <3>4. Max(W) \in W
        BY <3>3, MaxIsLast
    <3> QED
        BY <2>2, <3>3, <3>4 DEF ScalarAfter, W
  <2> QED
      BY <2>3, <2>4
<1>13. ASSUME NEW f \in SetField, NEW m \in Member
       PROVE  MemberAfter(b, s, f, m, m \in BrowserFresh.members[f]) <=> m \in r.members[f]
  <2> DEFINE W == MemberWrites(b, s, f, m)
  <2>1. W \subseteq 1 .. n /\ \A i \in W : i \in Surviving(b, s) /\ b[i].prop = f
                                            /\ (b[i].op = "erase" \/ m \in b[i].value)
                                            /\ b[i].op \in {"insert", "discard", "erase"}
      BY <1>3 DEF MemberWrites, IsSetPatch
  <2>2. \A i \in W : b[i].op = "insert" /\ m \in r.members[f]
      BY <1>5, <2>1
  <2>3. CASE m \notin r.members[f]
    <3>1. W = {}
        BY <2>2, <2>3
    <3> QED
        BY <2>3, <3>1 DEF MemberAfter, BrowserFresh, Fresh
  <2>4. CASE m \in r.members[f]
    <3>1. PICK i \in Surviving(b, s) : b[i] = Insert(s, f, r.members[f])
        BY <1>2, <2>4
    <3>2. i \in W
        BY <2>4, <3>1 DEF MemberWrites, Insert, IsSetPatch
    <3>3. W # {} /\ W \subseteq 0 .. n
        BY <2>1, <3>2
    <3> HIDE DEF W
    <3>4. Max(W) \in W
        BY <3>3, MaxIsLast
    <3> QED
        BY <2>2, <2>4, <3>3, <3>4 DEF MemberAfter, W
  <2> QED
      BY <2>3, <2>4
<1>14. /\ r = [identity |-> r.identity, scalar |-> r.scalar, members |-> r.members]
       /\ r.scalar = [f \in Scalar |-> r.scalar[f]]
       /\ r.members = [f \in SetField |-> r.members[f]]
       /\ \A f \in SetField : r.members[f] \subseteq Member
    BY <1>9 DEF Record
<1>15. [f \in Scalar |-> ScalarAfter(b, s, f, BrowserFresh.scalar[f])] = r.scalar
    BY <1>12, <1>14
<1>16. [f \in SetField |-> {m \in Member :
            MemberAfter(b, s, f, m, m \in BrowserFresh.members[f])}] = r.members
  <2>1. \A f \in SetField : {m \in Member :
            MemberAfter(b, s, f, m, m \in BrowserFresh.members[f])} = r.members[f]
      BY <1>13, <1>14
  <2> QED
      BY <1>14, <2>1
<1>17. \E i \in Surviving(b, s) : b[i].op = "identify"
    BY <1>2 DEF Identify
<1>18. RecordAfter(b, s, BrowserFresh) = r
    BY <1>9, <1>14, <1>15, <1>16, <1>17 DEF RecordAfter
<1> QED
    BY <1>2, <1>18 DEF After

\* A record that is not here is made whole by the batch for it.
LEMMA WholeMakesRecord ==
    ASSUME NEW s \in Subject, NEW r \in FullRecord
    PROVE  After(Whole(s, r), s, Absent, BrowserFresh) = r
<1>1. PICK b : b = Whole(s, r)
    OBVIOUS
<1>2. /\ b \in Seq(Patch)
      /\ Range(b) = {Create(s), Identify(s)}
            \cup {Assign(s, f, r.scalar[f]) : f \in {g \in Scalar : r.scalar[g] # Missing}}
            \cup {Insert(s, f, r.members[f]) : f \in {g \in SetField : r.members[g] # {}}}
    BY <1>1, WholeRange
<1>3. PICK n \in Nat : IsBatch(b, n)
    BY <1>2, SeqIsBatch, BatchIsBatch
<1>4. /\ \A i \in DOMAIN b : b[i] \in Range(b)
      /\ \A p \in Range(b) : \E i \in DOMAIN b : b[i] = p
    BY DEF Range
<1>5. \A p \in Range(b) : p.on = s /\ p.op # "drop"
    BY <1>2 DEF Create, Identify, Assign, Insert
<1>6. LastDrop(b, s) = 0
    BY <1>3, <1>4, <1>5, LastDropType
<1>7. Surviving(b, s) = DOMAIN b
  <2>1. DOMAIN b \subseteq 1 .. n
      BY <1>3 DEF IsBatch
  <2>2. \A i \in DOMAIN b : b[i].on = s /\ i > 0
      BY <1>4, <1>5, <2>1
  <2> QED
      BY <1>6, <2>1, <2>2 DEF Surviving
<1> QED
    BY <1>1, <1>3, <1>4, <1>7, SurvivorsMakeRecord

\* Nothing is left out of a batch for a record that it does not create again.
LEMMA DuplicatesAside ==
    ASSUME NEW b \in Seq(Patch) \cup Batch, NEW st, NEW s, NEW r,
           ~(st[s] # Absent /\ Creates(b, s))
    PROVE  LET d == WithoutDuplicates(b, st)
           IN  /\ After(d, s, r, BrowserFresh) = After(b, s, r, BrowserFresh)
               /\ s \in Touched(d) <=> s \in Touched(b)
<1>1. PICK d : d = WithoutDuplicates(b, st)
    OBVIOUS
<1>2. /\ DOMAIN d \subseteq DOMAIN b /\ d \in Batch
      /\ \A i \in DOMAIN d : d[i] = b[i]
      /\ \A i \in DOMAIN b : b[i].on = s => i \in DOMAIN d
    BY <1>1, WithoutDuplicatesIsBatch
<1>3. LastDrop(d, s) = LastDrop(b, s)
  <2>1. {i \in DOMAIN d : d[i].op = "drop" /\ d[i].on = s}
            = {i \in DOMAIN b : b[i].op = "drop" /\ b[i].on = s}
      BY <1>2
  <2> QED
      BY <2>1 DEF LastDrop
<1>4. Surviving(d, s) = Surviving(b, s) /\ \A i \in Surviving(b, s) : d[i] = b[i]
    BY <1>2, <1>3 DEF Surviving
<1>5. PICK n \in Nat : IsBatch(d, n)
    BY <1>2, BatchIsBatch
<1>6. Surviving(b, s) \subseteq 0 .. n
    BY <1>4, <1>5 DEF Surviving, IsBatch
<1>7. ASSUME NEW f, NEW old
      PROVE  ScalarAfter(d, s, f, old) = ScalarAfter(b, s, f, old)
  <2>1. PICK W : W = ScalarWrites(b, s, f)
      OBVIOUS
  <2>2. ScalarWrites(d, s, f) = W /\ W \subseteq Surviving(b, s)
      BY <1>4, <2>1 DEF ScalarWrites
  <2>3. W # {} => Max(W) \in W
      BY <1>6, <2>2, MaxIsLast
  <2>4. W # {} => d[Max(W)] = b[Max(W)]
      BY <1>4, <2>2, <2>3
  <2> QED
      BY <2>1, <2>2, <2>4 DEF ScalarAfter
<1>8. ASSUME NEW f, NEW m, NEW old
      PROVE  MemberAfter(d, s, f, m, old) = MemberAfter(b, s, f, m, old)
  <2>1. PICK W : W = MemberWrites(b, s, f, m)
      OBVIOUS
  <2>2. MemberWrites(d, s, f, m) = W /\ W \subseteq Surviving(b, s)
      BY <1>4, <2>1 DEF MemberWrites
  <2>3. W # {} => Max(W) \in W
      BY <1>6, <2>2, MaxIsLast
  <2>4. W # {} => d[Max(W)] = b[Max(W)]
      BY <1>4, <2>2, <2>3
  <2> QED
      BY <2>1, <2>2, <2>4 DEF MemberAfter
<1>9. \A base : RecordAfter(d, s, base) = RecordAfter(b, s, base)
  <2>1. (\E i \in Surviving(d, s) : d[i].op = "identify")
            <=> (\E i \in Surviving(b, s) : b[i].op = "identify")
      BY <1>4
  <2> QED
      BY <1>7, <1>8, <2>1 DEF RecordAfter
<1>10. s \in Touched(d) <=> s \in Touched(b)
    BY <1>2 DEF Touched
<1> QED
    BY <1>1, <1>3, <1>4, <1>9, <1>10 DEF After

LEMMA NothingIsRecovered ==
    ASSUME NEW b, NEW st
    PROVE  Recovered(b, st, Nothing) = ApplyPatches(b, st, BrowserFresh)
<1>1. Missed(b, st, Nothing) \cap Subject = {}
    BY DEF Missed, Nothing
<1> QED
    BY <1>1 DEF Recovered, ApplyPatches

\* A batch that neither makes nor deletes the record it is about leaves a record,
\* and names the places it changes.
LEMMA UnrootedLeavesRecord ==
    ASSUME NEW b \in Batch, NEW s \in Touched(b), ~Rooted(b, s)
    PROVE  /\ \A r \in FullRecord \cup {Absent} :
                 After(b, s, r, BrowserFresh) # Absent
           /\ \A c \in Cell : Bears(b, s, c) /\ c.kind # "here" =>
                 \E p \in Range(b) : Place(p) = <<s, c.prop>>
<1>1. PICK n \in Nat : IsBatch(b, n)
    BY BatchIsBatch
<1>2. \A i \in DOMAIN b : b[i] \in Range(b)
    BY DEF Range
<1>3. LastDrop(b, s) = 0
    BY <1>1, <1>2, LastDropType DEF Rooted, OnRoot
<1>4. Surviving(b, s) # {}
    BY <1>1, <1>3 DEF Surviving, Touched, IsBatch
<1>5. BrowserFresh \in Record
    BY FreshIsRecordOf DEF BrowserFresh
<1>6. ASSUME NEW r \in FullRecord \cup {Absent}
      PROVE  After(b, s, r, BrowserFresh) # Absent
  <2>1. r \in Record \cup {Absent}
      BY DEF FullRecord
  <2> QED
      BY <1>1, <1>4, <1>5, <2>1, TouchedDecides
<1>7. ASSUME NEW c \in Cell, Bears(b, s, c), c.kind # "here"
      PROVE  \E p \in Range(b) : Place(p) = <<s, c.prop>>
  <2>1. PICK i \in DOMAIN b : b[i].on = s /\ b[i].prop = c.prop
                              /\ b[i].op \in {"assign", "erase", "insert", "discard"}
    <3>1. Surviving(b, s) \subseteq {i \in DOMAIN b : b[i].on = s}
        BY DEF Surviving
    <3>2. CASE ScalarWrites(b, s, c.prop) # {}
        BY <3>1, <3>2 DEF ScalarWrites
    <3>3. CASE MemberWrites(b, s, c.prop, c.member) # {}
        BY <3>1, <3>3 DEF MemberWrites, IsSetPatch
    <3> QED
        BY <1>3, <1>7, <3>2, <3>3 DEF Bears
  <2>2. b[i] \in Patch
      BY <1>1 DEF IsBatch
  <2>3. "prop" \in DOMAIN b[i]
      BY <2>1, <2>2 DEF Patch, RootPatch, AssignPatch, ErasePatch, HoldPatch, MemberPatch
  <2> QED
      BY <1>2, <2>1, <2>3 DEF Place
<1> QED
    BY <1>6, <1>7

LEMMA CreatesIsRooted ==
    ASSUME NEW b, NEW s, Creates(b, s)
    PROVE  Rooted(b, s) /\ s \in Touched(b)
<1>1. Create(s).on = s /\ Create(s).op = "create" /\ Create(s) \in Range(b)
    BY DEF Creates, Create
<1>2. PICK i \in DOMAIN b : b[i] = Create(s)
    BY <1>1 DEF Range
<1> QED
    BY <1>1, <1>2 DEF Rooted, OnRoot, Touched

LEMMA BearsTouched ==
    ASSUME NEW b \in Batch, NEW s, NEW c, Bears(b, s, c)
    PROVE  s \in Touched(b)
<1>1. PICK n \in Nat : IsBatch(b, n)
    BY BatchIsBatch
<1>2. LastDrop(b, s) # 0 => s \in Touched(b)
    BY <1>1, LastDropType DEF Touched
<1>3. Surviving(b, s) # {} => s \in Touched(b)
    BY DEF Surviving, Touched
<1> QED
    BY <1>2, <1>3 DEF Bears, ScalarWrites, MemberWrites

-----------------------------------------------------------------------------
(* Cells of records, and what the messages a tab has not read make of them. *)

PlaceOf(s, c) == <<s, IF c.kind = "here" THEN NoTarget ELSE c.prop>>
Undisputed(s, c) == PlaceOf(s, c) \notin contested

\* What the batch b shows in a cell it decides, whatever it is applied to.
Gives(b, s, c) == Look(After(b, s, Absent, BrowserFresh), c)

\* The message m decides the cell c of s, and what it shows there.
Decides(m, s, c) == m.whole \/ Bears(m.patches, s, c)
Shows(m, s, c) == IF m.whole THEN Look(m.snapshots[s], c) ELSE Gives(m.patches, s, c)

\* What the cell shows that showed v before the first n messages of q were read.
Reading(q, v, s, c, n) ==
    LET J == {j \in 1 .. n : Decides(q[j], s, c)}
    IN  IF J = {} THEN v ELSE Shows(q[Max(J)], s, c)

\* What the tab t shows in the end.
InTheEnd(t, s, c) == Reading(inbox[t], Look(store[t][s], c), s, c, Len(inbox[t]))

LEMMA HereIsCell == Here \in Cell /\ Here.kind = "here" /\ \A s : PlaceOf(s, Here) = <<s, NoTarget>>
    BY DEF Here, Cell, PlaceOf

\* Stores whose cells look the same at a place are the same there.
LEMMA CellsMakePlaces ==
    ASSUME NEW st1 \in Store, NEW st2 \in Store, NEW x \in Places,
           Look(st1[x[1]], Here) = Look(st2[x[1]], Here),
           \A c \in Cell : PlaceOf(x[1], c) = x => Look(st1[x[1]], c) = Look(st2[x[1]], c)
    PROVE  At(st1, x) = At(st2, x)
<1>1. PICK s \in Subject, f \in Field \cup {NoTarget} : x = <<s, f>>
    BY DEF Places
<1>2. PICK r, q : r = st1[s] /\ q = st2[s]
    OBVIOUS
<1>3. r \in Record \cup {Absent} /\ q \in Record \cup {Absent}
    BY <1>2 DEF Store, FullRecord
<1>4. r = Absent <=> q = Absent
    BY <1>1, <1>2 DEF Look, Here
<1>5. CASE r = Absent \/ f = NoTarget
    BY <1>1, <1>2, <1>4, <1>5 DEF At
<1>6. CASE r # Absent /\ f \in Scalar
  <2>1. PICK c : c = [kind |-> "scalar", prop |-> f]
      OBVIOUS
  <2>2. c \in Cell /\ PlaceOf(s, c) = x
      BY <1>1, <1>6, <2>1 DEF Cell, PlaceOf
  <2>3. Look(r, c) = Look(q, c)
      BY <1>1, <1>2, <2>2
  <2>4. r.scalar[f] = q.scalar[f]
      BY <1>4, <1>6, <2>1, <2>3 DEF Look
  <2>5. f # NoTarget
      BY <1>6, NoTargetIsNoField DEF Field
  <2> QED
      BY <1>1, <1>2, <1>4, <1>6, <2>4, <2>5 DEF At
<1>7. CASE r # Absent /\ f \in SetField
  <2>1. ASSUME NEW m \in Member
        PROVE  m \in r.members[f] <=> m \in q.members[f]
    <3>1. PICK c : c = [kind |-> "member", prop |-> f, member |-> m]
        OBVIOUS
    <3>2. c \in Cell /\ PlaceOf(s, c) = x
        BY <1>1, <1>7, <3>1 DEF Cell, PlaceOf
    <3>3. Look(r, c) = Look(q, c)
        BY <1>1, <1>2, <3>2
    <3>4. c.kind = "member" /\ c.prop = f /\ c.member = m
        BY <3>1
    <3> QED
        BY <1>4, <1>7, <3>3, <3>4 DEF Look
  <2>2. r.members[f] \subseteq Member /\ q.members[f] \subseteq Member
      BY <1>3, <1>4, <1>7 DEF Record
  <2>3. r.members[f] = q.members[f]
      BY <2>1, <2>2
  <2>4. f # NoTarget /\ f \notin Scalar
      BY <1>7, NoTargetIsNoField, PropertyKindsDisjoint DEF Field
  <2> QED
      BY <1>1, <1>2, <1>4, <1>7, <2>3, <2>4 DEF At
<1> QED
    BY <1>1, <1>5, <1>6, <1>7 DEF Field

\* One message more.
LEMMA ReadingStep ==
    ASSUME NEW q, NEW v, NEW s, NEW c, NEW n \in Nat
    PROVE  /\ Reading(q, v, s, c, 0) = v
           /\ Decides(q[n + 1], s, c) => Reading(q, v, s, c, n + 1) = Shows(q[n + 1], s, c)
           /\ ~Decides(q[n + 1], s, c) => Reading(q, v, s, c, n + 1) = Reading(q, v, s, c, n)
<1> DEFINE J(k) == {j \in 1 .. k : Decides(q[j], s, c)}
<1>1. J(0) = {}
    OBVIOUS
<1>2. CASE Decides(q[n + 1], s, c)
  <2>1. n + 1 \in J(n + 1) /\ J(n + 1) \subseteq Nat /\ \A y \in J(n + 1) : y <= n + 1
      BY <1>2
  <2>2. Max(J(n + 1)) = n + 1
      BY <2>1, GreatestIsMax
  <2> QED
      BY <1>1, <1>2, <2>1, <2>2 DEF Reading
<1>3. CASE ~Decides(q[n + 1], s, c)
  <2>1. J(n + 1) = J(n)
      BY <1>3
  <2> QED
      BY <1>1, <1>3, <2>1 DEF Reading
<1> QED
    BY <1>2, <1>3

\* Messages that decide nothing.
LEMMA ReadingQuiet ==
    ASSUME NEW q, NEW v, NEW s, NEW c, NEW n \in Nat, \A j \in 1 .. n : ~Decides(q[j], s, c)
    PROVE  Reading(q, v, s, c, n) = v
    BY DEF Reading

\* Among messages of which some decide it, it does not matter what was there.
LEMMA ReadingDecided ==
    ASSUME NEW q, NEW s, NEW c, NEW n \in Nat, NEW k \in 1 .. n, Decides(q[k], s, c)
    PROVE  \E j \in 1 .. n : /\ Decides(q[j], s, c)
                             /\ \A v : Reading(q, v, s, c, n) = Shows(q[j], s, c)
<1> DEFINE J == {j \in 1 .. n : Decides(q[j], s, c)}
<1>1. J \subseteq 0 .. n /\ J # {}
    OBVIOUS
<1>2. Max(J) \in J
    BY <1>1, MaxIsLast
<1> QED
    BY <1>1, <1>2 DEF Reading

\* Only the messages that are read matter.
LEMMA ReadingPrefix ==
    ASSUME NEW p, NEW q, NEW v, NEW s, NEW c, NEW n \in Nat, \A j \in 1 .. n : p[j] = q[j]
    PROVE  Reading(p, v, s, c, n) = Reading(q, v, s, c, n)
<1> DEFINE J == {j \in 1 .. n : Decides(q[j], s, c)}
<1>1. J = {j \in 1 .. n : Decides(p[j], s, c)} /\ J \subseteq 0 .. n
    OBVIOUS
<1>2. J # {} => Max(J) \in J
    BY <1>1, MaxIsLast
<1> QED
    BY <1>1, <1>2 DEF Reading

\* The first message can be read at once.
LEMMA ReadingTail ==
    ASSUME NEW S, NEW q \in Seq(S), NEW v, NEW w, NEW s, NEW c, NEW n \in 1 .. Len(q),
           w = IF Decides(q[1], s, c) THEN Shows(q[1], s, c) ELSE v
    PROVE  Reading(Tail(q), w, s, c, n - 1) = Reading(q, v, s, c, n)
<1> DEFINE J == {j \in 1 .. n : Decides(q[j], s, c)}
           K == {j \in 1 .. n - 1 : Decides(Tail(q)[j], s, c)}
<1>1. \A j \in 1 .. n - 1 : Tail(q)[j] = q[j + 1]
    OBVIOUS
<1>2. n \in Nat /\ n - 1 \in Nat /\ J \subseteq 0 .. n /\ K \subseteq 0 .. n - 1
    OBVIOUS
<1>3. \A j \in Nat : j \in K <=> j + 1 \in J /\ j # 0
  <2> SUFFICES ASSUME NEW j \in Nat
               PROVE  j \in K <=> j + 1 \in J /\ j # 0
      OBVIOUS
  <2>1. j \in 1 .. n - 1 <=> j + 1 \in 1 .. n /\ j # 0
      BY <1>2
  <2> QED
      BY <1>1, <2>1
<1>4. CASE K = {}
  <2>1. \A j \in J : j = 1
    <3> SUFFICES ASSUME NEW j \in J, j # 1 PROVE FALSE
        OBVIOUS
    <3>1. j - 1 \in Nat /\ (j - 1) + 1 = j /\ j - 1 # 0
        OBVIOUS
    <3> QED
        BY <1>3, <1>4, <3>1
  <2>2. CASE Decides(q[1], s, c)
    <3>1. 1 \in J /\ J \subseteq Nat /\ \A y \in J : y <= 1
        BY <1>2, <2>1, <2>2
    <3>2. Max(J) = 1
        BY <3>1, GreatestIsMax
    <3> QED
        BY <1>4, <2>2, <3>1, <3>2 DEF Reading
  <2>3. CASE ~Decides(q[1], s, c)
    <3>1. J = {}
        BY <2>1, <2>3
    <3> QED
        BY <1>4, <2>3, <3>1 DEF Reading
  <2> QED
      BY <2>2, <2>3
<1>5. CASE K # {}
  <2>1. Max(K) \in K /\ \A y \in K : y <= Max(K)
      BY <1>2, <1>5, MaxIsLast
  <2>2. PICK k : k = Max(K)
      OBVIOUS
  <2>3. k \in K /\ k \in Nat /\ k # 0 /\ k \in 1 .. n - 1 /\ \A y \in K : y <= k
    <3>1. k \in K /\ \A y \in K : y <= k
      <4> HIDE DEF K
      <4> QED
          BY <2>1, <2>2
    <3> QED
        BY <3>1
  <2>4. k + 1 \in J
      BY <1>3, <2>3
  <2>5. ASSUME NEW y \in J
        PROVE  y <= k + 1
    <3>1. CASE y = 1
        BY <2>3, <3>1
    <3>2. CASE y # 1
      <4>1. y - 1 \in Nat /\ (y - 1) + 1 = y /\ y - 1 # 0
          BY <3>2
      <4>2. y - 1 \in K
          BY <1>3, <4>1
      <4> QED
          BY <2>3, <4>1, <4>2
    <3> QED
        BY <3>1, <3>2
  <2>6. Max(J) = k + 1
    <3>1. J \subseteq Nat
        BY <1>2
    <3> QED
        BY <2>4, <2>5, <3>1, GreatestIsMax
  <2>7. Tail(q)[k] = q[k + 1]
      BY <1>1, <2>3
  <2> QED
      BY <1>5, <2>2, <2>4, <2>6, <2>7 DEF Reading
<1> QED
    BY <1>4, <1>5

-----------------------------------------------------------------------------
(* What undoes a batch is a batch. *)

LEMMA FieldInverseType ==
    ASSUME NEW s \in Subject, NEW f \in Field, NEW r \in FullRecord
    PROVE  FieldInverse(s, f, r) \in Seq(Patch)
<1>1. <<Erase(s, f)>> \in Seq(Patch)
    BY DEF Patch, ErasePatch, Erase
<1>2. CASE f \in Scalar
  <2>1. r.scalar[f] # Missing => <<Assign(s, f, r.scalar[f])>> \in Seq(Patch)
    <3>1. r.scalar[f] # Missing => r.scalar[f] \in Value
        BY <1>2 DEF FullRecord, Record
    <3> QED
        BY <1>2, <3>1 DEF Patch, AssignPatch, Assign
  <2>2. PICK q : q = IF r.scalar[f] = Missing THEN <<>> ELSE <<Assign(s, f, r.scalar[f])>>
      OBVIOUS
  <2>3. q \in Seq(Patch)
      BY <2>1, <2>2
  <2>4. FieldInverse(s, f, r) = <<Erase(s, f)>> \o q
      BY <1>2, <2>2 DEF FieldInverse
  <2> QED
      BY <1>1, <2>3, <2>4, SeqsJoin
<1>3. CASE f \notin Scalar
  <2>1. <<Insert(s, f, r.members[f])>> \in Seq(Patch)
    <3>1. f \in SetField /\ r.members[f] \in SUBSET Member
        BY <1>3 DEF FullRecord, Record, Field
    <3> QED
        BY <3>1 DEF Patch, MemberPatch, Insert
  <2>2. PICK q : q = IF r.members[f] = {} THEN <<>> ELSE <<Insert(s, f, r.members[f])>>
      OBVIOUS
  <2>3. q \in Seq(Patch)
      BY <2>1, <2>2
  <2>4. FieldInverse(s, f, r) = <<Erase(s, f)>> \o q
      BY <1>3, <2>2 DEF FieldInverse
  <2> QED
      BY <1>1, <2>3, <2>4, SeqsJoin
<1> QED
    BY <1>2, <1>3

LEMMA RecordInverseType ==
    ASSUME NEW b, NEW s \in Subject, NEW r \in FullRecord \cup {Absent}
    PROVE  RecordInverse(b, s, r) \in Seq(Patch)
<1>1. <<Drop(s)>> \in Seq(Patch)
    BY DEF Patch, RootPatch, Drop
<1>2. CASE r = Absent
    BY <1>1, <1>2 DEF RecordInverse
<1>3. CASE r # Absent /\ Rooted(b, s)
  <2>1. PICK w : w = Whole(s, r)
      OBVIOUS
  <2>2. w \in Seq(Patch)
      BY <1>3, <2>1, WholeRange
  <2>3. RecordInverse(b, s, r) = <<Drop(s)>> \o w
      BY <1>3, <2>1 DEF RecordInverse
  <2> QED
      BY <1>1, <2>2, <2>3, SeqsJoin
<1>4. CASE r # Absent /\ ~Rooted(b, s)
  <2> DEFINE F == {f \in Field : \E p \in Range(b) : Place(p) = <<s, f>>}
             OfField(f) == FieldInverse(s, f, r)
  <2>1. IsFiniteSet(F)
    <3>1. IsFiniteSet(Field)
        BY NamesAreFinite, FS_Union DEF Field
    <3> QED
        BY <3>1, FS_Subset
  <2>2. PICK q : q = SetToSeq(F)
      OBVIOUS
  <2>3. q \in Seq(F)
      BY <2>1, <2>2, SetToSeqType
  <2>4. PICK p : p = [i \in DOMAIN q |-> OfField(q[i])]
      OBVIOUS
  <2>5. RecordInverse(b, s, r) = FlattenSeq(p)
      BY <1>4, <2>2, <2>4 DEF RecordInverse, Joined
  <2>6. p \in Seq(Seq(Patch))
    <3>1. \A f \in F : OfField(f) \in Seq(Patch)
        BY <1>4, FieldInverseType
    <3> HIDE DEF OfField, F
    <3>2. \A i \in DOMAIN q : OfField(q[i]) \in Seq(Patch)
        BY <2>3, <3>1
    <3>3. DOMAIN q = 1 .. Len(q) /\ Len(q) \in Nat
        BY <2>3
    <3>4. p \in [1 .. Len(q) -> Seq(Patch)]
        BY <2>4, <3>2, <3>3
    <3> QED
        BY <3>3, <3>4
  <2> QED
      BY <2>5, <2>6, FlattenSeqType
<1> QED
    BY <1>2, <1>3, <1>4

LEMMA InverseType ==
    ASSUME NEW b \in Batch, NEW st \in Store
    PROVE  InverseOf(b, st) \in Seq(Patch)
<1> DEFINE OfRecord(s) == RecordInverse(b, s, st[s])
<1>1. IsFiniteSet(Touched(b)) /\ Touched(b) \subseteq Subject
    BY TouchedAreSubjects
<1>2. PICK q : q = SetToSeq(Touched(b))
    OBVIOUS
<1>3. q \in Seq(Touched(b))
    BY <1>1, <1>2, SetToSeqType
<1>4. PICK p : p = [i \in DOMAIN q |-> OfRecord(q[i])]
    OBVIOUS
<1>5. InverseOf(b, st) = FlattenSeq(p)
    BY <1>2, <1>4 DEF InverseOf, Joined
<1>6. p \in Seq(Seq(Patch))
  <2>1. \A s \in Touched(b) : OfRecord(s) \in Seq(Patch)
    <3>1. \A s \in Touched(b) : s \in Subject /\ st[s] \in FullRecord \cup {Absent}
        BY <1>1 DEF Store
    <3> QED
        BY <3>1, RecordInverseType
  <2> HIDE DEF OfRecord
  <2>2. \A i \in DOMAIN q : OfRecord(q[i]) \in Seq(Patch)
      BY <1>3, <2>1
  <2>3. DOMAIN q = 1 .. Len(q) /\ Len(q) \in Nat
      BY <1>3
  <2>4. p \in [1 .. Len(q) -> Seq(Patch)]
      BY <1>4, <2>2, <2>3
  <2> QED
      BY <2>3, <2>4
<1> QED
    BY <1>5, <1>6, FlattenSeqType

LEMMA SingleFieldType ==
    ASSUME NEW b
    PROVE  SingleField(b) \in Target
<1> DEFINE places == {Place(b[i]) : i \in DOMAIN b}
<1>1. CASE Cardinality(places) = 1 /\ places \subseteq Subject \X Scalar
  <2>1. places # {}
      BY <1>1, FS_EmptySet
  <2>2. (CHOOSE c \in places : TRUE) \in places
      BY <2>1
  <2>3. SingleField(b) = CHOOSE c \in places : TRUE
      BY <1>1 DEF SingleField
  <2> QED
      BY <1>1, <2>2, <2>3 DEF Target
<1>2. CASE ~(Cardinality(places) = 1 /\ places \subseteq Subject \X Scalar)
    BY <1>2 DEF SingleField, Target
<1> QED
    BY <1>1, <1>2

-----------------------------------------------------------------------------
(* Types. *)

\* A message of the channel; snapshots go with the batch that made them.
Post == {m \in [patches : Batch, whole : BOOLEAN, snapshots : Store] :
            m.whole \/ \A s \in Subject : m.snapshots[s] # Absent => s \in Touched(m.patches)}
Past == [store : Store, foreign : SUBSET Places]
PostsOK == inbox \in [Tab -> Seq(Post)]
Typed == TypeOK /\ PostsOK

\* The steps that change records by a batch and tell the other tabs of it.
Broadcast(t, b) ==
    /\ Free(t) /\ b \in Batch
    /\ store' = [store EXCEPT ![t] = ApplyPatches(b, @, BrowserFresh)]
    /\ dirty' = [dirty EXCEPT ![t] = @ \cup Touched(b)]
    /\ Posted(t, Message(b, store'[t]))
    /\ Racing(SnapshotUnread(t)) /\ Contesting(t, b)
    /\ UNCHANGED <<disk, state, saves>>

LEMMA RemoteBroadcasts ==
    ASSUME Typed, NEW t \in Tab, NEW edit \in EditOf[t], Remote(t, edit)
    PROVE  \E b : Broadcast(t, b)
<1>1. PICK b : b = WithoutDuplicates(edit, store[t])
    OBVIOUS
<1>2. b \in Batch
    BY <1>1, EditsArePatches, WithoutDuplicatesIsBatch
<1>3. store' = [store EXCEPT ![t] = ApplyPatches(b, @, BrowserFresh)]
    BY <1>1, NothingIsRecovered DEF Remote, External
<1> QED
    BY <1>1, <1>2, <1>3 DEF Remote, External, Broadcast, Operation

LEMMA EditBroadcasts ==
    ASSUME Typed, NEW t \in Tab, NEW edit \in EditOf[t], NEW soon, Edit(t, edit, soon)
    PROVE  \E b : Broadcast(t, b) /\ Pushed(t, InverseOf(b, store[t]), b, soon)
<1>1. PICK b : b = WithoutDuplicates(edit, store[t])
    OBVIOUS
<1>2. b \in Batch
    BY <1>1, EditsArePatches, WithoutDuplicatesIsBatch
<1> QED
    BY <1>1, <1>2 DEF Edit, Applied, Broadcast, Operation

LEMMA UndoBroadcasts ==
    ASSUME Typed, NEW t \in Tab, Undo(t)
    PROVE  \E b : Broadcast(t, b)
<1>1. Last(undo[t]) \in Seq(Patch)
    BY DEF Undo, Last, Typed, TypeOK
<1>2. Last(undo[t]) \in Batch
    BY <1>1, SeqIsBatch
<1> QED
    BY <1>2 DEF Undo, Applied, Broadcast, Operation

\* A snapshot in place of the records of the tab t.
Adopting(t) == \E st \in Store : Adopt(t, st)
Replacing(t) == Free(t) /\ \E st \in Store : Replace(t, st)

LEMMA StoresAreStores ==
    ASSUME Typed
    PROVE  /\ Loaded \in Store /\ Nothing \in Store
           /\ Incoming \subseteq Store
           /\ \A st : Present(st) \subseteq Subject
           /\ \A st1, st2 : Differ(st1, st2) \subseteq Places
<1>1. Loaded \in Store
    BY DEF Loaded, Typed, TypeOK, Store
<1>2. Nothing \in Store
    BY DEF Nothing, Store
<1> QED
    BY <1>1, <1>2, StoredIsStore DEF Present, Differ

\* What a step of the system can be.
LEMMA Steps ==
    ASSUME Typed, [Next]_vars
    PROVE  \/ \E t \in Tab : \/ \E b : Broadcast(t, b)
                             \/ Receive(t) \/ Adopting(t) \/ Replacing(t)
                             \/ Persist(t) \/ WriteRecord(t) \/ WriteList(t) \/ SaveFails(t)
                             \/ OpenTab(t) \/ Close(t) \/ Kill(t)
           \/ UNCHANGED vars
<1> SUFFICES ASSUME NEW t \in Tab, Change(t)
             PROVE  \/ \E b : Broadcast(t, b)
                    \/ Receive(t) \/ Adopting(t) \/ Replacing(t)
    BY DEF Next, Save, Page
<1>1. Nothing \in Store /\ Incoming \subseteq Store
    BY StoresAreStores
<1>2. ASSUME NEW st \in Incoming, Adopt(t, st)
      PROVE  Adopting(t)
    BY <1>1, <1>2 DEF Adopting
<1>3. Import(t) \/ Evict(t) => Replacing(t)
    BY <1>1 DEF Import, Evict, Replacing, Operation
<1> QED
    BY <1>2, <1>3, RemoteBroadcasts, EditBroadcasts, UndoBroadcasts DEF Change

LEMMA BroadcastType ==
    ASSUME Typed, NEW t \in Tab, NEW b, Broadcast(t, b)
    PROVE  /\ store' \in [Tab -> Store] /\ dirty' \in [Tab -> SUBSET Subject]
           /\ inbox' \in [Tab -> Seq(Post)]
           /\ raced' \in BOOLEAN /\ contested' \subseteq Places
<1>1. b \in Batch /\ Touched(b) \subseteq Subject
    BY TouchedAreSubjects DEF Broadcast
<1>2. store[t] \in Store /\ store \in [Tab -> Store]
    BY DEF Typed, TypeOK
<1>3. ApplyPatches(b, store[t], BrowserFresh) \in Store
    BY <1>1, <1>2, StoreStays
<1>4. store' \in [Tab -> Store] /\ store'[t] \in Store
    BY <1>2, <1>3 DEF Broadcast
<1>5. dirty' \in [Tab -> SUBSET Subject]
    BY <1>1 DEF Broadcast, Typed, TypeOK
<1>6. PICK m : m = Message(b, store'[t])
    OBVIOUS
<1>7. m \in Post
  <2>1. /\ m.patches = b /\ m.whole = FALSE
        /\ m = [patches |-> b, whole |-> FALSE, snapshots |-> m.snapshots]
        /\ m.snapshots = [s \in Subject |-> IF s \in Touched(b) THEN store'[t][s] ELSE Absent]
      BY <1>6 DEF Message
  <2>2. m.snapshots \in Store
      BY <1>4, <2>1 DEF Store
  <2>3. m \in [patches : Batch, whole : BOOLEAN, snapshots : Store]
      BY <1>1, <2>1, <2>2
  <2>4. \A s \in Subject : m.snapshots[s] # Absent => s \in Touched(m.patches)
      BY <2>1
  <2> QED
      BY <2>3, <2>4 DEF Post
<1>8. inbox' = [u \in Tab |-> IF u \in Open \ {t} THEN Append(inbox[u], m) ELSE inbox[u]]
    BY <1>6 DEF Broadcast, Posted
<1>9. \A u \in Tab : inbox[u] \in Seq(Post) /\ Append(inbox[u], m) \in Seq(Post)
    BY <1>7 DEF Typed, PostsOK
<1>10. inbox' \in [Tab -> Seq(Post)]
    BY <1>8, <1>9
<1>11. raced' \in BOOLEAN
    BY DEF Broadcast, Racing, Typed, TypeOK
<1>12. contested' \subseteq Places
  <2>1. contested \subseteq Places /\ \A c : Met(b, c) \subseteq Places
      BY DEF Met, Typed, TypeOK
  <2>2. UNION {Met(b, p.patches) : p \in Range(inbox[t])} \subseteq Places
    <3> SUFFICES ASSUME NEW p \in Range(inbox[t])
                 PROVE  Met(b, p.patches) \subseteq Places
        OBVIOUS
    <3> QED
        BY <2>1
  <2>3. PICK U, V : /\ U = UNION {Met(b, p.patches) : p \in Range(inbox[t])}
                    /\ V = {x \in Places : store[t][x[1]] # Absent /\ Creates(b, x[1])}
      OBVIOUS
  <2>4. contested' = contested \cup U \cup V
      BY <2>3, Zenon DEF Broadcast, Contesting
  <2>5. U \subseteq Places /\ V \subseteq Places
      BY <2>2, <2>3
  <2> QED
      BY <2>1, <2>4, <2>5
<1> QED
    BY <1>4, <1>5, <1>10, <1>11, <1>12

LEMMA ForeignType ==
    ASSUME Typed, NEW t \in Tab, Foreign(t)
    PROVE  /\ before' \in [Tab -> Seq(Past)]
           /\ \A u \in Tab : Len(before'[u]) = Len(before[u])
<1> DEFINE Marked(x) == [x EXCEPT !.foreign = @ \cup Differ(store[t], store'[t])]
<1>1. before \in [Tab -> Seq(Past)] /\ before[t] \in Seq(Past)
    BY DEF Typed, TypeOK, Past
<1>2. Differ(store[t], store'[t]) \subseteq Places
    BY DEF Differ
<1>3. \A x \in Past : Marked(x) \in Past
    BY <1>2 DEF Past
<1>4. PICK q : q = [i \in DOMAIN before[t] |-> Marked(before[t][i])]
    OBVIOUS
<1>5. before' = [before EXCEPT ![t] = q]
    BY <1>1, <1>4, Zenon DEF Foreign
<1>6. q \in Seq(Past) /\ Len(q) = Len(before[t])
  <2> HIDE DEF Marked
  <2>1. DOMAIN before[t] = 1 .. Len(before[t]) /\ Len(before[t]) \in Nat
      BY <1>1
  <2>2. \A i \in DOMAIN before[t] : Marked(before[t][i]) \in Past
      BY <1>1, <1>3
  <2>3. q \in [1 .. Len(before[t]) -> Past]
      BY <1>4, <2>1, <2>2
  <2> QED
      BY <2>1, <2>3
<1> QED
    BY <1>1, <1>5, <1>6

LEMMA FrontType ==
    ASSUME NEW S, NEW q \in Seq(S), Len(q) # 0
    PROVE  Front(q) \in Seq(S) /\ Len(Front(q)) = Len(q) - 1
<1>1. Len(q) - 1 \in Nat /\ \A i \in 1 .. Len(q) - 1 : q[i] \in S
    OBVIOUS
<1>2. Front(q) = [i \in 1 .. Len(q) - 1 |-> q[i]]
    BY <1>1 DEF Front
<1>3. Front(q) \in [1 .. Len(q) - 1 -> S]
    BY <1>1, <1>2
<1> QED
    BY <1>1, <1>3

LEMMA KeptType ==
    ASSUME NEW S, NEW q \in Seq(S), NEW x \in S
    PROVE  /\ Append(q, x) \in Seq(S) /\ Len(Append(q, x)) = Len(q) + 1
           /\ Tail(Append(q, x)) \in Seq(S) /\ Len(Tail(Append(q, x))) = Len(q)
<1>1. PICK p : p = Append(q, x)
    OBVIOUS
<1>2. p \in Seq(S) /\ Len(p) = Len(q) + 1 /\ Len(q) \in Nat
    BY <1>1
<1>3. Tail(p) \in Seq(S) /\ Len(Tail(p)) = Len(q)
    BY <1>2
<1> QED
    BY <1>1, <1>2, <1>3

LEMMA PushedType ==
    ASSUME Typed, NEW t \in Tab, NEW b \in Batch, NEW soon,
           Pushed(t, InverseOf(b, store[t]), b, soon)
    PROVE  /\ undo' \in [Tab -> Seq(Seq(Patch))] /\ run' \in [Tab -> Target]
           /\ before' \in [Tab -> Seq(Past)]
           /\ \A u \in Tab : Len(undo'[u]) <= UndoLimit /\ Len(before'[u]) = Len(undo'[u])
<1>1. /\ undo \in [Tab -> Seq(Seq(Patch))] /\ before \in [Tab -> Seq(Past)]
      /\ store[t] \in Store
      /\ \A u \in Tab : Len(undo[u]) <= UndoLimit /\ Len(before[u]) = Len(undo[u])
    BY DEF Typed, TypeOK, Past
<1>2. PICK e, x : e = InverseOf(b, store[t]) /\ x = [store |-> store[t], foreign |-> {}]
    OBVIOUS
<1>3. e \in Seq(Patch) /\ x \in Past
    BY <1>1, <1>2, InverseType DEF Past
<1>4. run' \in [Tab -> Target]
    BY SingleFieldType DEF Pushed, Typed, TypeOK
<1>5. CASE UNCHANGED <<undo, before>>
    BY <1>1, <1>4, <1>5
<1>6. CASE /\ Len(Append(undo[t], e)) > UndoLimit
           /\ undo' = [undo EXCEPT ![t] = Tail(Append(@, e))]
           /\ before' = [before EXCEPT ![t] = Tail(Append(@, x))]
  <2>1. PICK p, q : p = Tail(Append(undo[t], e)) /\ q = Tail(Append(before[t], x))
      OBVIOUS
  <2>2. p \in Seq(Seq(Patch)) /\ Len(p) = Len(undo[t])
      BY <1>1, <1>3, <2>1, KeptType
  <2>3. q \in Seq(Past) /\ Len(q) = Len(before[t])
      BY <1>1, <1>3, <2>1, KeptType
  <2> QED
      BY <1>1, <1>4, <1>6, <2>1, <2>2, <2>3
<1>7. CASE /\ ~(Len(Append(undo[t], e)) > UndoLimit)
           /\ undo' = [undo EXCEPT ![t] = Append(@, e)]
           /\ before' = [before EXCEPT ![t] = Append(@, x)]
  <2>1. PICK p, q : p = Append(undo[t], e) /\ q = Append(before[t], x)
      OBVIOUS
  <2>2. p \in Seq(Seq(Patch)) /\ Len(p) = Len(undo[t]) + 1 /\ Len(p) <= UndoLimit
      BY <1>1, <1>3, <1>7, <2>1, EngineBounds
  <2>3. q \in Seq(Past) /\ Len(q) = Len(before[t]) + 1
      BY <1>1, <1>3, <2>1
  <2> QED
      BY <1>1, <1>4, <1>7, <2>1, <2>2, <2>3
<1>8. Len(Append(undo[t], e)) = Len(undo[t]) + 1 /\ Len(Append(before[t], x)) = Len(before[t]) + 1
    BY <1>1, <1>3
<1> QED
    BY <1>1, <1>2, <1>5, <1>6, <1>7, <1>8 DEF Pushed

\* Both halves of Typed, variable by variable.
Sorts ==
    /\ disk \in [records : Store, list : SUBSET Subject]
    /\ state \in [Tab -> {"closed", "open", "leaving"}]
    /\ store \in [Tab -> Store]
    /\ dirty \in [Tab -> SUBSET Subject] /\ known \in [Tab -> SUBSET Subject]
    /\ saving \in [Tab -> [on : BOOLEAN, writes : SUBSET Subject,
                          list : SUBSET Subject, relist : BOOLEAN]]
    /\ paused \in [Tab -> BOOLEAN]
    /\ inbox \in [Tab -> Seq(Post)]
    /\ undo \in [Tab -> Seq(Seq(Patch))] /\ run \in [Tab -> Target]
    /\ before \in [Tab -> Seq(Past)]
    /\ \A t \in Tab : Len(undo[t]) <= UndoLimit /\ Len(before[t]) = Len(undo[t])
    /\ raced \in BOOLEAN /\ contested \subseteq Places
    /\ ops \in 0 .. MaxOps /\ faults \in 0 .. MaxFaults

LEMMA TypedParts ==
    Typed <=>
       /\ disk \in [records : Store, list : SUBSET Subject]
       /\ state \in [Tab -> {"closed", "open", "leaving"}]
       /\ store \in [Tab -> Store]
       /\ dirty \in [Tab -> SUBSET Subject] /\ known \in [Tab -> SUBSET Subject]
       /\ saving \in [Tab -> [on : BOOLEAN, writes : SUBSET Subject,
                             list : SUBSET Subject, relist : BOOLEAN]]
       /\ paused \in [Tab -> BOOLEAN]
       /\ inbox \in [Tab -> Seq(Post)]
       /\ undo \in [Tab -> Seq(Seq(Patch))] /\ run \in [Tab -> Target]
       /\ before \in [Tab -> Seq(Past)]
       /\ \A t \in Tab : Len(undo[t]) <= UndoLimit /\ Len(before[t]) = Len(undo[t])
       /\ raced \in BOOLEAN /\ contested \subseteq Places
       /\ ops \in 0 .. MaxOps /\ faults \in 0 .. MaxFaults
<1>1. inbox \in [Tab -> Seq(Post)] =>
        \A t \in Tab : \A i \in DOMAIN inbox[t] : inbox[t][i].snapshots \in Store
  <2> SUFFICES ASSUME inbox \in [Tab -> Seq(Post)], NEW t \in Tab, NEW i \in DOMAIN inbox[t]
               PROVE  inbox[t][i].snapshots \in Store
      OBVIOUS
  <2>1. inbox[t][i] \in Post
      OBVIOUS
  <2> QED
      BY <2>1 DEF Post
<1> QED
    BY <1>1 DEF Typed, TypeOK, PostsOK, Past

LEMMA SortsAreTyped == Sorts' => Typed'
<1>1. Sorts <=> Typed
    BY TypedParts, Zenon DEF Sorts
<1> QED
    BY <1>1, PTL

LEMMA TypedInit == Init => Typed
<1> SUFFICES ASSUME Init PROVE Typed
    OBVIOUS
<1>1. Nothing \in Store /\ Present(Stored) \subseteq Subject
    BY DEF Nothing, Store, Present
<1>2. NotSaving \in [on : BOOLEAN, writes : SUBSET Subject, list : SUBSET Subject, relist : BOOLEAN]
    BY DEF NotSaving
<1>3. /\ inbox \in [Tab -> Seq(Post)] /\ undo \in [Tab -> Seq(Seq(Patch))]
      /\ before \in [Tab -> Seq(Past)]
    BY DEF Init
<1>4. \A t \in Tab : Len(undo[t]) <= UndoLimit /\ Len(before[t]) = Len(undo[t])
    BY EngineBounds DEF Init
<1>5. /\ disk \in [records : Store, list : SUBSET Subject]
      /\ state \in [Tab -> {"closed", "open", "leaving"}] /\ store \in [Tab -> Store]
      /\ dirty \in [Tab -> SUBSET Subject] /\ known \in [Tab -> SUBSET Subject]
      /\ paused \in [Tab -> BOOLEAN] /\ raced \in BOOLEAN /\ contested \subseteq Places
    BY <1>1, StoredIsStore DEF Init
<1>6. run \in [Tab -> Target] /\ ops \in 0 .. MaxOps /\ faults \in 0 .. MaxFaults
    BY EngineBounds DEF Init, Target
<1>7. saving \in [Tab -> [on : BOOLEAN, writes : SUBSET Subject,
                          list : SUBSET Subject, relist : BOOLEAN]]
    BY <1>2 DEF Init
<1> QED
    BY <1>3, <1>4, <1>5, <1>6, <1>7, TypedParts, Zenon

LEMMA OperationType ==
    ASSUME Typed, NEW t, Operation(t)
    PROVE  ops' \in 0 .. MaxOps
    BY EngineBounds DEF Operation, Typed, TypeOK

\* What is read is gone.
LEMMA ReceiveReads ==
    ASSUME Typed, NEW t \in Tab, Receive(t)
    PROVE  /\ inbox[t] \in Seq(Post) /\ Len(inbox[t]) \in Nat \ {0}
           /\ Head(inbox[t]) = inbox[t][1] /\ inbox[t][1] \in Post
           /\ inbox' = [inbox EXCEPT ![t] = Tail(@)]
           /\ Tail(inbox[t]) \in Seq(Post) /\ Len(Tail(inbox[t])) = Len(inbox[t]) - 1
           /\ \A i \in 1 .. Len(inbox[t]) - 1 : Tail(inbox[t])[i] = inbox[t][i + 1]
<1>1. inbox[t] \in Seq(Post) /\ inbox[t] # <<>>
    BY DEF Typed, PostsOK, Receive
<1> QED
    BY <1>1 DEF Receive

LEMMA RecoveredType ==
    ASSUME NEW b \in Batch, NEW st \in Store, NEW sn \in Store
    PROVE  Recovered(b, st, sn) \in Store
<1> SUFFICES ASSUME NEW s \in Subject
             PROVE  Recovered(b, st, sn)[s] \in FullRecord \cup {Absent}
    BY DEF Recovered, Store
<1>1. st[s] \in FullRecord \cup {Absent} /\ sn[s] \in FullRecord \cup {Absent}
    BY DEF Store
<1>2. After(b, s, st[s], BrowserFresh) \in FullRecord \cup {Absent}
    BY <1>1, FullRecordsStay
<1>3. s \in Missed(b, st, sn) =>
        /\ sn[s] \in FullRecord /\ st[s] = Absent
        /\ After(Whole(s, sn[s]), s, st[s], BrowserFresh) = sn[s]
    BY <1>1, WholeMakesRecord DEF Missed
<1> QED
    BY <1>1, <1>2, <1>3 DEF Recovered

LEMMA ReceiveType ==
    ASSUME Typed, NEW t \in Tab, Receive(t)
    PROVE  store' \in [Tab -> Store] /\ dirty' \in [Tab -> SUBSET Subject]
<1>1. PICK m : m = Head(inbox[t])
    OBVIOUS
<1>2. m \in Post /\ m.snapshots \in Store /\ m.patches \in Batch /\ m.whole \in BOOLEAN
    BY <1>1, ReceiveReads DEF Post
<1>3. store \in [Tab -> Store] /\ store[t] \in Store /\ dirty \in [Tab -> SUBSET Subject]
    BY DEF Typed, TypeOK
<1>4. CASE m.whole
  <2>1. Replaced(t, m.snapshots)
      BY <1>1, <1>4 DEF Receive
  <2> QED
      BY <1>2, <1>3, <2>1 DEF Replaced, Present
<1>5. CASE ~m.whole
  <2>1. PICK b : b = WithoutDuplicates(m.patches, store[t])
      OBVIOUS
  <2>2. b \in Batch /\ Touched(b) \subseteq Subject
      BY <1>2, <2>1, WithoutDuplicatesIsBatch, TouchedAreSubjects
  <2>3. Recovered(b, store[t], m.snapshots) \in Store
      BY <1>2, <1>3, <2>2, RecoveredType
  <2>4. External(t, m.patches, m.snapshots)
      BY <1>1, <1>5 DEF Receive
  <2> QED
      BY <1>3, <2>1, <2>2, <2>3, <2>4 DEF External
<1> QED
    BY <1>4, <1>5

\* A tab that tells the others of its records.
LEMMA AdoptType ==
    ASSUME Typed, NEW t \in Tab, NEW st \in Store, Adopt(t, st)
    PROVE  /\ store' \in [Tab -> Store] /\ dirty' \in [Tab -> SUBSET Subject]
           /\ inbox' \in [Tab -> Seq(Post)]
<1>1. PICK m : m = [patches |-> <<>>, whole |-> TRUE, snapshots |-> st]
    OBVIOUS
<1>2. m \in Post
  <2>1. <<>> \in Batch
    <3>1. <<>> \in Seq(Patch)
        OBVIOUS
    <3> QED
        BY <3>1, SeqIsBatch
  <2>2. m \in [patches : Batch, whole : BOOLEAN, snapshots : Store] /\ m.whole = TRUE
      BY <1>1, <2>1
  <2> QED
      BY <2>2 DEF Post
<1>3. inbox' = [u \in Tab |-> IF u \in Open \ {t} THEN Append(inbox[u], m) ELSE inbox[u]]
    BY <1>1 DEF Adopt, Posted
<1>4. \A u \in Tab : inbox[u] \in Seq(Post) /\ Append(inbox[u], m) \in Seq(Post)
    BY <1>2 DEF Typed, PostsOK
<1>5. inbox' \in [Tab -> Seq(Post)]
    BY <1>3, <1>4
<1>6. store' \in [Tab -> Store] /\ dirty' \in [Tab -> SUBSET Subject]
    BY DEF Adopt, Replaced, Present, Typed, TypeOK
<1> QED
    BY <1>5, <1>6

SavingType == [on : BOOLEAN, writes : SUBSET Subject, list : SUBSET Subject, relist : BOOLEAN]

LEMMA BeginType ==
    ASSUME Typed, NEW t \in Tab, NEW d \in SUBSET Subject, NEW st, Begin(t, d, st)
    PROVE  saving' \in [Tab -> SavingType]
<1>1. PICK w, l, e : w = Writes(t, d, st) /\ l = NextList(t, d, st) /\ e = (l # known[t])
    OBVIOUS
<1>2. w \in SUBSET Subject /\ l \in SUBSET Subject /\ e \in BOOLEAN
    BY <1>1 DEF Writes, NextList, Typed, TypeOK
<1>3. [on |-> TRUE, writes |-> w, list |-> l, relist |-> e] \in SavingType
    BY <1>2 DEF SavingType
<1>4. saving' = [saving EXCEPT ![t] = [on |-> TRUE, writes |-> w, list |-> l, relist |-> e]]
    BY <1>1 DEF Begin
<1> QED
    BY <1>3, <1>4 DEF SavingType, Typed, TypeOK

\* The tab t and what it holds are gone.
LEMMA GoneType ==
    ASSUME Typed, NEW t \in Tab, Gone(t), raced' \in BOOLEAN,
           ops' \in 0 .. MaxOps, faults' \in 0 .. MaxFaults
    PROVE  Typed'
<1>1. Nothing \in Store
    BY StoresAreStores
<1>2. NotSaving \in SavingType
    BY DEF NotSaving, SavingType
<1>3. /\ disk' \in [records : Store, list : SUBSET Subject]
      /\ state' \in [Tab -> {"closed", "open", "leaving"}] /\ store' \in [Tab -> Store]
      /\ dirty' \in [Tab -> SUBSET Subject] /\ known' \in [Tab -> SUBSET Subject]
      /\ paused' \in [Tab -> BOOLEAN] /\ contested' \subseteq Places
    BY <1>1 DEF Gone, Typed, TypeOK
<1>4. /\ inbox' \in [Tab -> Seq(Post)] /\ undo' \in [Tab -> Seq(Seq(Patch))]
      /\ before' \in [Tab -> Seq(Past)] /\ run' \in [Tab -> Target]
  <2>1. \A S : <<>> \in Seq(S)
      OBVIOUS
  <2> QED
      BY <2>1, TypedParts DEF Gone, Target
<1>5. \A u \in Tab : Len(undo'[u]) <= UndoLimit /\ Len(before'[u]) = Len(undo'[u])
  <2>1. ASSUME NEW u \in Tab
        PROVE  \/ undo'[u] = <<>> /\ before'[u] = <<>>
               \/ undo'[u] = undo[u] /\ before'[u] = before[u]
      BY TypedParts DEF Gone
  <2>2. Len(<<>>) = 0
      OBVIOUS
  <2> QED
      BY <2>1, <2>2, TypedParts, EngineBounds
<1>6. saving' \in [Tab -> SavingType]
    BY <1>2, TypedParts DEF Gone, SavingType
<1>7. raced' \in BOOLEAN /\ ops' \in 0 .. MaxOps /\ faults' \in 0 .. MaxFaults
    OBVIOUS
<1> QED
    BY <1>3, <1>4, <1>5, <1>6, <1>7, SortsAreTyped DEF Sorts, SavingType

LEMMA TypedStep == Typed /\ [Next]_vars => Typed'
<1> SUFFICES ASSUME Typed, [Next]_vars PROVE Typed'
    OBVIOUS
<1> DEFINE
      Saved == /\ disk' \in [records : Store, list : SUBSET Subject]
               /\ state' \in [Tab -> {"closed", "open", "leaving"}]
               /\ known' \in [Tab -> SUBSET Subject] /\ saving' \in [Tab -> SavingType]
               /\ paused' \in [Tab -> BOOLEAN]
      Undoing == /\ undo' \in [Tab -> Seq(Seq(Patch))] /\ run' \in [Tab -> Target]
                 /\ before' \in [Tab -> Seq(Past)]
                 /\ \A u \in Tab : Len(undo'[u]) <= UndoLimit /\ Len(before'[u]) = Len(undo'[u])
      Held == /\ store' \in [Tab -> Store] /\ dirty' \in [Tab -> SUBSET Subject]
              /\ inbox' \in [Tab -> Seq(Post)]
              /\ raced' \in BOOLEAN /\ contested' \subseteq Places
      Counted == ops' \in 0 .. MaxOps /\ faults' \in 0 .. MaxFaults
<1>1. Saved /\ Undoing /\ Held /\ Counted => Typed'
    BY SortsAreTyped DEF Sorts, SavingType
<1>2. /\ UNCHANGED <<disk, state, saves>> => Saved
      /\ UNCHANGED undoing => Undoing
      /\ UNCHANGED <<memory, inbox, history>> => Held
      /\ UNCHANGED counters => Counted
  <2>1. UNCHANGED <<disk, state, saves>> => Saved
      BY TypedParts DEF saves, SavingType
  <2>2. UNCHANGED undoing => Undoing
      BY TypedParts DEF undoing
  <2>3. UNCHANGED <<memory, inbox, history>> => Held
      BY TypedParts DEF memory, history
  <2>4. UNCHANGED counters => Counted
      BY TypedParts DEF counters
  <2> QED
      BY <2>1, <2>2, <2>3, <2>4, Zenon
<1>3. \A race : Racing(race) /\ race \in BOOLEAN => raced' \in BOOLEAN
    BY TypedParts DEF Racing
<1> USE DEF SavingType
<1>4. ASSUME NEW t \in Tab, NEW b, Broadcast(t, b)
      PROVE  Saved /\ Held
  <2>1. UNCHANGED <<disk, state, saves>>
      BY <1>4 DEF Broadcast
  <2> QED
      BY <1>2, <1>4, <2>1, BroadcastType
<1> DEFINE Marks(t) == Foreign(t) /\ UNCHANGED <<undo, run>>
<1>5. ASSUME NEW t \in Tab, Marks(t)
      PROVE  Undoing
  <2>1. before' \in [Tab -> Seq(Past)] /\ \A u \in Tab : Len(before'[u]) = Len(before[u])
      BY <1>5, ForeignType
  <2> QED
      BY <1>5, <2>1, TypedParts
<1> HIDE DEF Saved, Undoing, Held, Counted
<1>6. ASSUME NEW t \in Tab, NEW edit \in EditOf[t], Remote(t, edit)
      PROVE  Typed'
  <2>1. Saved /\ Held
      BY <1>4, <1>6, RemoteBroadcasts
  <2>2. Undoing
      BY <1>5, <1>6 DEF Remote
  <2>3. Counted
      BY <1>6, OperationType, TypedParts DEF Remote, Counted
  <2> QED
      BY <1>1, <2>1, <2>2, <2>3
<1>7. ASSUME NEW t \in Tab, NEW edit \in EditOf[t], NEW soon, Edit(t, edit, soon)
      PROVE  Typed'
  <2>1. PICK b : Broadcast(t, b) /\ Pushed(t, InverseOf(b, store[t]), b, soon)
      BY <1>7, EditBroadcasts
  <2>2. Saved /\ Held
      BY <1>4, <2>1
  <2>3. Undoing
    <3>1. b \in Batch
        BY <2>1 DEF Broadcast
    <3> QED
        BY <2>1, <3>1, PushedType DEF Undoing
  <2>4. Counted
      BY <1>7, OperationType, TypedParts DEF Edit, Counted
  <2> QED
      BY <1>1, <2>2, <2>3, <2>4
<1>8. ASSUME NEW t \in Tab, Undo(t)
      PROVE  Typed'
  <2>1. Saved /\ Held
      BY <1>4, <1>8, UndoBroadcasts
  <2>2. Undoing
    <3>1. PICK p, q : p = undo[t] /\ q = before[t]
        OBVIOUS
    <3>2. p \in Seq(Seq(Patch)) /\ q \in Seq(Past) /\ Len(p) # 0 /\ Len(q) = Len(p)
          /\ Len(p) <= UndoLimit
        BY <1>8, <3>1, TypedParts DEF Undo
    <3>3. Front(p) \in Seq(Seq(Patch)) /\ Len(Front(p)) = Len(p) - 1
          /\ Front(q) \in Seq(Past) /\ Len(Front(q)) = Len(q) - 1
        BY <3>2, FrontType
    <3>4. /\ undo' = [undo EXCEPT ![t] = Front(p)] /\ before' = [before EXCEPT ![t] = Front(q)]
          /\ run' = [run EXCEPT ![t] = NoTarget]
        BY <1>8, <3>1 DEF Undo
    <3>5. Len(Front(p)) <= UndoLimit /\ Len(Front(q)) = Len(Front(p))
        BY <3>2, <3>3, EngineBounds
    <3>6. NoTarget \in Target
        BY DEF Target
    <3> QED
        BY <3>3, <3>4, <3>5, <3>6, TypedParts DEF Undoing
  <2>3. Counted
      BY <1>8, OperationType, TypedParts DEF Undo, Counted
  <2> QED
      BY <1>1, <2>1, <2>2, <2>3
<1>9. ASSUME NEW t \in Tab, Receive(t)
      PROVE  Typed'
  <2>1. Saved /\ Undoing /\ Counted
      BY <1>2, <1>5, <1>9 DEF Receive, counters
  <2>2. inbox' \in [Tab -> Seq(Post)]
      BY <1>9, ReceiveReads, TypedParts
  <2>3. Held
      BY <1>9, <2>2, ReceiveType, TypedParts DEF Held, Receive, history
  <2> QED
      BY <1>1, <2>1, <2>3
<1>10. ASSUME NEW t \in Tab, Adopting(t)
       PROVE  Typed'
  <2>1. PICK st \in Store : Adopt(t, st)
      BY <1>10 DEF Adopting
  <2>2. Saved /\ Undoing
      BY <1>2, <1>5, <2>1 DEF Adopt
  <2>3. raced' \in BOOLEAN
      BY <2>1, TypedParts DEF Adopt, Racing
  <2>4. Held
      BY <2>1, <2>3, AdoptType, TypedParts DEF Held, Adopt
  <2>5. Counted
      BY <2>1, OperationType, TypedParts DEF Adopt, Counted
  <2> QED
      BY <1>1, <2>2, <2>4, <2>5
<1>11. ASSUME NEW t \in Tab, NEW st \in Store, Replace(t, st), Operation(t)
       PROVE  Typed'
  <2>1. Undoing
      BY <1>5, <1>11 DEF Replace
  <2>2. store' \in [Tab -> Store] /\ dirty' \in [Tab -> SUBSET Subject]
      BY <1>11, TypedParts DEF Replace, Replaced, Present
  <2>3. raced' \in BOOLEAN
      BY <1>11, TypedParts DEF Replace, Racing
  <2>4. Held
      BY <1>11, <2>2, <2>3, TypedParts DEF Held, Replace
  <2>5. saving' \in [Tab -> SavingType]
    <3>1. CASE UNCHANGED saving
        BY <3>1, TypedParts
    <3>2. CASE Begin(t, dirty'[t], st)
      <4>1. dirty'[t] \in SUBSET Subject
          BY <2>2
      <4> QED
          BY <3>2, <4>1, BeginType
    <3> QED
        BY <1>11, <3>1, <3>2 DEF Replace
  <2>6. Saved
      BY <1>11, <2>5, TypedParts DEF Saved, Replace
  <2>7. Counted
      BY <1>11, OperationType, TypedParts DEF Replace, Counted
  <2> QED
      BY <1>1, <2>1, <2>4, <2>6, <2>7
<1>12. ASSUME NEW t \in Tab, Persist(t)
       PROVE  Typed'
  <2>1. Undoing /\ Held /\ Counted
      BY <1>2, <1>12 DEF Persist
  <2>2. saving' \in [Tab -> SavingType]
    <3>1. dirty[t] \in SUBSET Subject
        BY TypedParts
    <3> QED
        BY <1>12, <3>1, BeginType DEF Persist
  <2>3. Saved
      BY <1>12, <2>2, TypedParts DEF Saved, Persist
  <2> QED
      BY <1>1, <2>1, <2>3
<1>13. ASSUME NEW t \in Tab, WriteRecord(t)
       PROVE  Typed'
  <2>1. Undoing /\ Held /\ Counted
      BY <1>2, <1>13 DEF WriteRecord
  <2>2. PICK s \in saving[t].writes :
           /\ disk' = [disk EXCEPT !.records[s] = store[t][s]]
           /\ known' = [known EXCEPT ![t] = IF store[t][s] = Absent THEN @ \ {s} ELSE @ \cup {s}]
           /\ saving' = [saving EXCEPT ![t].writes = @ \ {s}]
      BY <1>13 DEF WriteRecord
  <2>3. s \in Subject /\ store[t][s] \in FullRecord \cup {Absent}
      BY TypedParts DEF Store
  <2>4. disk' \in [records : Store, list : SUBSET Subject]
      BY <2>2, <2>3, TypedParts DEF Store
  <2>5. known' \in [Tab -> SUBSET Subject]
      BY <2>2, <2>3, TypedParts
  <2>6. saving' \in [Tab -> SavingType]
    <3>1. PICK x : x = [saving[t] EXCEPT !.writes = @ \ {s}]
        OBVIOUS
    <3>2. saving' = [saving EXCEPT ![t] = x]
        BY <2>2, <3>1
    <3>3. saving \in [Tab -> SavingType] /\ saving[t] \in SavingType
        BY TypedParts
    <3>4. x \in SavingType
        BY <3>1, <3>3
    <3> QED
        BY <3>2, <3>3, <3>4
  <2>7. Saved
      BY <1>13, <2>4, <2>5, <2>6, TypedParts DEF Saved, WriteRecord
  <2> QED
      BY <1>1, <2>1, <2>7
<1>14. ASSUME NEW t \in Tab, WriteList(t)
       PROVE  Typed'
  <2>1. Undoing /\ Counted
      BY <1>2, <1>14 DEF WriteList
  <2>2. NotSaving \in SavingType
      BY DEF NotSaving
  <2>3. disk' \in [records : Store, list : SUBSET Subject]
      BY <1>14, TypedParts DEF WriteList
  <2>4. Saved
      BY <1>14, <2>2, <2>3, TypedParts DEF Saved, WriteList
  <2>5. Held
      BY <1>14, TypedParts DEF Held, WriteList, history
  <2> QED
      BY <1>1, <2>1, <2>4, <2>5
<1>15. ASSUME NEW t \in Tab, SaveFails(t)
       PROVE  Typed'
  <2>1. Undoing
      BY <1>2, <1>15 DEF SaveFails
  <2>2. NotSaving \in SavingType
      BY DEF NotSaving
  <2>3. Saved
      BY <1>15, <2>2, TypedParts DEF Saved, SaveFails
  <2>4. Held
      BY <1>15, TypedParts DEF Held, SaveFails, memory, Racing
  <2>5. Counted
      BY <1>15, TypedParts, EngineBounds DEF Counted, SaveFails
  <2> QED
      BY <1>1, <2>1, <2>3, <2>4, <2>5
<1>16. ASSUME NEW t \in Tab, OpenTab(t)
       PROVE  Typed'
  <2>1. Loaded \in Store /\ Present(Loaded) \subseteq Subject
      BY StoresAreStores
  <2>2. Undoing /\ Counted
      BY <1>2, <1>16 DEF OpenTab
  <2>3. Saved
      BY <1>16, <2>1, TypedParts DEF Saved, OpenTab
  <2>4. Held
      BY <1>16, <2>1, TypedParts DEF Held, OpenTab, Racing
  <2> QED
      BY <1>1, <2>2, <2>3, <2>4
<1>17. ASSUME NEW t \in Tab, Close(t)
       PROVE  Typed'
  <2>1. raced' \in BOOLEAN /\ ops' \in 0 .. MaxOps /\ faults' \in 0 .. MaxFaults
      BY <1>17, TypedParts DEF Close, Racing, counters
  <2> QED
      BY <1>17, <2>1, GoneType DEF Close
<1>18. ASSUME NEW t \in Tab, Kill(t)
       PROVE  Typed'
  <2>1. raced' \in BOOLEAN /\ ops' \in 0 .. MaxOps /\ faults' \in 0 .. MaxFaults
      BY <1>18, TypedParts, EngineBounds DEF Kill, Racing
  <2> QED
      BY <1>18, <2>1, GoneType DEF Kill
<1>19. CASE UNCHANGED vars
    BY <1>1, <1>2, <1>19 DEF vars
<1>20. ASSUME NEW t \in Tab, Change(t)
       PROVE  Typed'
  <2>1. Nothing \in Store /\ Incoming \subseteq Store
      BY StoresAreStores
  <2>2. \A st \in Incoming : Adopt(t, st) => Adopting(t)
      BY <2>1 DEF Adopting
  <2>3. Import(t) \/ Evict(t) => Typed'
      BY <1>11, <2>1 DEF Import, Evict
  <2> QED
      BY <1>6, <1>7, <1>8, <1>9, <1>10, <1>20, <2>2, <2>3 DEF Change
<1> QED
    BY <1>12, <1>13, <1>14, <1>15, <1>16, <1>17, <1>18, <1>19, <1>20 DEF Next, Save, Page

\* localNgEngine.ts:836-945 (the undo stack) and 1586-1653 (applyPatchesToStore): the
\* variables keep their types; an undo stack never has more than its limit of
\* entries, whatever is refused, undone or forgotten, and records stay in order.
THEOREM TypeCorrect == Spec => []TypeOK
<1>1. Init => Typed
    BY TypedInit
<1>2. Typed /\ [Next]_vars => Typed'
    BY TypedStep
<1>3. Typed => TypeOK
    BY DEF Typed
<1> QED
    BY <1>1, <1>2, <1>3, PTL DEF Spec

-----------------------------------------------------------------------------
(* What a tab knows of its own records: which are on disk, and, while it saves, *)
(* which it has yet to write and whether the list has to be written.            *)

KnownIsShown(t) == \A s \in Subject \ dirty[t] : s \in known[t] <=> store[t][s] # Absent

SaveInProgress(t) ==
    /\ saving[t].writes \subseteq dirty[t]
    /\ \A s \in Subject :
          /\ s \in saving[t].list <=> \/ s \notin dirty[t] /\ s \in known[t]
                                      \/ s \in dirty[t] /\ store[t][s] # Absent
          /\ s \in dirty[t] \ saving[t].writes => (s \in known[t] <=> store[t][s] # Absent)
          /\ s \in saving[t].writes /\ store[t][s] # Absent /\ s \notin known[t]
                => saving[t].relist

BookOf(t) ==
    /\ state[t] = "closed" =>
          /\ inbox[t] = <<>> /\ store[t] = Nothing /\ dirty[t] = {} /\ known[t] = {}
          /\ ~saving[t].on /\ ~paused[t]
    /\ paused[t] => ~saving[t].on
    /\ KnownIsShown(t)
    /\ saving[t].on => SaveInProgress(t)

Books == \A t \in Tab : BookOf(t)

LEMMA BooksInit == Init => Books
    BY DEF Init, Books, BookOf, KnownIsShown, Nothing, NotSaving

\* Steps of other tabs leave at most messages.
LEMMA BookStays ==
    ASSUME Typed, Typed', NEW u \in Tab, BookOf(u),
           state'[u] = state[u], store'[u] = store[u], dirty'[u] = dirty[u],
           known'[u] = known[u], saving'[u] = saving[u], paused'[u] = paused[u],
           state[u] = "closed" => inbox'[u] = inbox[u]
    PROVE  BookOf(u)'
<1>1. KnownIsShown(u)'
    BY DEF BookOf, KnownIsShown
<1>2. saving'[u].on => SaveInProgress(u)'
    BY DEF BookOf, SaveInProgress
<1> QED
    BY <1>1, <1>2 DEF BookOf

LEMMA SavingBegins ==
    ASSUME Typed, Typed', NEW t \in Tab, NEW st, Begin(t, dirty'[t], st),
           st = store'[t], known' = known, KnownIsShown(t)'
    PROVE  SaveInProgress(t)' /\ saving'[t].on
<1>1. /\ saving'[t].on
      /\ saving'[t].writes = {s \in dirty'[t] : st[s] # Absent \/ s \in known[t]}
      /\ saving'[t].list = (known[t] \ dirty'[t]) \cup {s \in dirty'[t] : st[s] # Absent}
      /\ saving'[t].relist = (saving'[t].list # known[t])
    BY TypedParts DEF Begin, Writes, NextList
<1>2. dirty'[t] \subseteq Subject /\ known[t] \subseteq Subject
  <2>1. dirty'[t] \subseteq Subject
      BY DEF Typed, TypeOK
  <2> QED
      BY <2>1 DEF Typed, TypeOK
<1> QED
    BY <1>1, <1>2 DEF SaveInProgress

\* Everything but memory stays.
LEMMA BookOfChange ==
    ASSUME Typed, Typed', NEW t \in Tab, BookOf(t), Free(t),
           state'[t] # "closed", known' = known, paused' = paused, saving' = saving,
           dirty[t] \subseteq dirty'[t],
           \A s \in Subject \ dirty'[t] : store'[t][s] = store[t][s]
    PROVE  BookOf(t)'
<1>1. KnownIsShown(t)'
    BY DEF BookOf, KnownIsShown
<1> QED
    BY <1>1 DEF BookOf, Free

\* What a tab receives changes records that it will save.
LEMMA ReceivedIsDirty ==
    ASSUME Typed, NEW t \in Tab, Receive(t), NEW s \in Subject, s \notin dirty'[t]
    PROVE  store'[t][s] = store[t][s]
<1>1. PICK m : m = Head(inbox[t])
    OBVIOUS
<1>2. m \in Post /\ m.snapshots \in Store /\ m.patches \in Batch
    BY <1>1, ReceiveReads DEF Post
<1>3. store \in [Tab -> Store] /\ dirty \in [Tab -> SUBSET Subject]
    BY TypedParts
<1>4. CASE m.whole
  <2>1. Replaced(t, m.snapshots)
      BY <1>1, <1>4 DEF Receive
  <2> QED
      BY <1>2, <1>3, <2>1 DEF Replaced, Present
<1>5. CASE ~m.whole
  <2>1. PICK b : b = WithoutDuplicates(m.patches, store[t])
      OBVIOUS
  <2>2. b \in Batch
      BY <1>2, <2>1, WithoutDuplicatesIsBatch
  <2>3. External(t, m.patches, m.snapshots)
      BY <1>1, <1>5 DEF Receive
  <2>4. s \notin Touched(b)
      BY <1>3, <2>1, <2>3 DEF External
  <2>5. PICK n \in Nat : IsBatch(b, n)
      BY <2>2, BatchIsBatch
  <2>6. After(b, s, store[t][s], BrowserFresh) = store[t][s]
      BY <2>4, <2>5, UntouchedStays
  <2>7. store'[t] = Recovered(b, store[t], m.snapshots)
      BY <1>3, <2>1, <2>3 DEF External
  <2> QED
      BY <2>4, <2>6, <2>7 DEF Recovered, Missed
<1> QED
    BY <1>4, <1>5

\* And what it broadcasts.
LEMMA BroadcastIsDirty ==
    ASSUME Typed, NEW t \in Tab, NEW b, Broadcast(t, b)
    PROVE  /\ store'[t] = ApplyPatches(b, store[t], BrowserFresh)
           /\ dirty'[t] = dirty[t] \cup Touched(b)
           /\ \A s \in Subject \ Touched(b) : store'[t][s] = store[t][s]
           /\ \A u \in Tab \ {t} : store'[u] = store[u] /\ dirty'[u] = dirty[u]
<1>1. PICK n \in Nat : IsBatch(b, n)
    BY BatchIsBatch DEF Broadcast
<1>2. store'[t] = ApplyPatches(b, store[t], BrowserFresh) /\ dirty'[t] = dirty[t] \cup Touched(b)
    BY TypedParts DEF Broadcast
<1>3. \A s \in Subject \ Touched(b) : store'[t][s] = store[t][s]
    BY <1>1, <1>2, UntouchedStays DEF ApplyPatches
<1> QED
    BY <1>2, <1>3, TypedParts DEF Broadcast

LEMMA BooksStep == Typed /\ Typed' /\ Books /\ [Next]_vars => Books'
<1> SUFFICES ASSUME Typed, Typed', Books, [Next]_vars, NEW u \in Tab
             PROVE  BookOf(u)'
    BY DEF Books
<1>1. BookOf(u)
    BY DEF Books
<1>2. ASSUME NEW t \in Tab, NEW b, Broadcast(t, b)
      PROVE  BookOf(u)'
  <2>1. CASE u = t
      BY <1>1, <1>2, <2>1, BookOfChange, BroadcastIsDirty DEF Broadcast, saves, Free
  <2>2. CASE u # t
    <3>1. state[u] = "closed" => inbox'[u] = inbox[u]
        BY <1>2 DEF Broadcast, Posted, Open
    <3> QED
        BY <1>1, <1>2, <2>2, <3>1, BookStays, BroadcastIsDirty DEF Broadcast, saves
  <2> QED
      BY <2>1, <2>2
<1>3. ASSUME NEW t \in Tab, Receive(t)
      PROVE  BookOf(u)'
  <2>1. dirty[t] \subseteq dirty'[t] /\ \A v \in Tab \ {t} : store'[v] = store[v] /\ dirty'[v] = dirty[v]
      BY <1>3, TypedParts DEF Receive, External, Replaced
  <2>2. CASE u = t
      BY <1>1, <1>3, <2>1, <2>2, BookOfChange, ReceivedIsDirty DEF Receive, saves, Free
  <2>3. CASE u # t
    <3>1. inbox'[u] = inbox[u]
        BY <1>3, <2>3, TypedParts DEF Receive
    <3> QED
        BY <1>1, <1>3, <2>1, <2>3, <3>1, BookStays DEF Receive, saves
  <2> QED
      BY <2>2, <2>3
<1>4. ASSUME NEW t \in Tab, NEW st \in Store, Replaced(t, st)
      PROVE  /\ dirty[t] \subseteq dirty'[t] /\ store'[t] = st
             /\ \A v \in Tab \ {t} : store'[v] = store[v] /\ dirty'[v] = dirty[v]
             /\ \A s \in Subject \ dirty'[t] : store'[t][s] = store[t][s]
    BY <1>4, TypedParts DEF Replaced, Present
<1>5. ASSUME NEW t \in Tab, Adopting(t)
      PROVE  BookOf(u)'
  <2>1. PICK st \in Store : Adopt(t, st)
      BY <1>5 DEF Adopting
  <2>2. Replaced(t, st) /\ UNCHANGED <<state, saves>> /\ Free(t)
      BY <2>1 DEF Adopt, Operation
  <2>3. CASE u = t
      BY <1>1, <1>4, <2>2, <2>3, BookOfChange DEF saves, Free
  <2>4. CASE u # t
    <3>1. state[u] = "closed" => inbox'[u] = inbox[u]
        BY <2>1 DEF Adopt, Posted, Open
    <3> QED
        BY <1>1, <1>4, <2>2, <2>4, <3>1, BookStays DEF saves
  <2> QED
      BY <2>3, <2>4
<1>6. ASSUME NEW t \in Tab, Replacing(t)
      PROVE  BookOf(u)'
  <2>1. PICK st \in Store : Replace(t, st) /\ Free(t)
      BY <1>6 DEF Replacing
  <2>2. /\ Replaced(t, st) /\ UNCHANGED <<known, paused, inbox>>
        /\ state' = [state EXCEPT ![t] = "leaving"]
        /\ IF paused[t] THEN UNCHANGED saving ELSE Begin(t, dirty'[t], st)
      BY <2>1 DEF Replace
  <2>3. CASE u = t /\ paused[t]
      BY <1>1, <1>4, <2>1, <2>2, <2>3, BookOfChange, TypedParts
  <2>4. CASE u = t /\ ~paused[t]
    <3>1. KnownIsShown(t)'
        BY <1>1, <1>4, <2>2, <2>4 DEF BookOf, KnownIsShown
    <3>2. Begin(t, dirty'[t], st) /\ st = store'[t] /\ known' = known
        BY <1>4, <2>2, <2>4
    <3>3. SaveInProgress(t)' /\ saving'[t].on
        BY <3>1, <3>2, SavingBegins
    <3>4. state'[t] # "closed" /\ ~paused'[t]
        BY <2>2, <2>4, TypedParts
    <3> QED
        BY <2>4, <3>1, <3>3, <3>4 DEF BookOf
  <2>5. CASE u # t
    <3>1. saving'[u] = saving[u] /\ state'[u] = state[u]
        BY <2>2, <2>5, TypedParts DEF Begin
    <3> QED
        BY <1>1, <1>4, <2>2, <2>5, <3>1, BookStays
  <2> QED
      BY <2>3, <2>4, <2>5
<1>7. ASSUME NEW t \in Tab, Persist(t)
      PROVE  BookOf(u)'
  <2>1. CASE u = t
    <3>1. KnownIsShown(t)'
        BY <1>1, <1>7, <2>1 DEF BookOf, KnownIsShown, Persist, memory
    <3>2. Begin(t, dirty'[t], store'[t]) /\ known' = known
        BY <1>7 DEF Persist, memory, Begin, Writes, NextList
    <3>3. SaveInProgress(t)' /\ saving'[t].on
        BY <3>1, <3>2, SavingBegins
    <3>4. state'[t] # "closed" /\ ~paused'[t]
        BY <1>7 DEF Persist, Free
    <3> QED
        BY <2>1, <3>1, <3>3, <3>4 DEF BookOf
  <2>2. CASE u # t
    <3>1. saving'[u] = saving[u]
        BY <1>7, <2>2, TypedParts DEF Persist, Begin
    <3> QED
        BY <1>1, <1>7, <3>1, BookStays DEF Persist, memory
  <2> QED
      BY <2>1, <2>2
<1>8. ASSUME NEW t \in Tab, WriteRecord(t)
      PROVE  BookOf(u)'
  <2>1. PICK s \in saving[t].writes :
           /\ known' = [known EXCEPT ![t] = IF store[t][s] = Absent THEN @ \ {s} ELSE @ \cup {s}]
           /\ saving' = [saving EXCEPT ![t].writes = @ \ {s}]
      BY <1>8 DEF WriteRecord
  <2>2. CASE u = t
    <3>1. SaveInProgress(t) /\ saving[t].on /\ ~paused[t] /\ state[t] # "closed"
        BY <1>1, <1>8, <2>2 DEF BookOf, WriteRecord
    <3>2. /\ saving'[t].on /\ saving'[t].writes = saving[t].writes \ {s}
          /\ saving'[t].list = saving[t].list /\ saving'[t].relist = saving[t].relist
          /\ known'[t] = IF store[t][s] = Absent THEN known[t] \ {s} ELSE known[t] \cup {s}
      <4>1. saving[t] \in SavingType /\ saving \in [Tab -> SavingType]
          BY TypedParts DEF SavingType
      <4>2. saving'[t] = [saving[t] EXCEPT !.writes = @ \ {s}]
          BY <2>1, <4>1
      <4>3. known'[t] = IF store[t][s] = Absent THEN known[t] \ {s} ELSE known[t] \cup {s}
          BY <2>1, TypedParts
      <4>4. saving[t].on
          BY <1>8 DEF WriteRecord
      <4> QED
          BY <4>1, <4>2, <4>3, <4>4 DEF SavingType
    <3>3. dirty' = dirty /\ store' = store /\ paused' = paused /\ state' = state
        BY <1>8 DEF WriteRecord, memory
    <3>4. s \in dirty[t] /\ KnownIsShown(t)
        BY <1>1, <2>1, <2>2, <3>1 DEF SaveInProgress, BookOf
    <3>5. KnownIsShown(t)'
        BY <3>2, <3>3, <3>4 DEF KnownIsShown
    <3>6. SaveInProgress(t)'
        BY <3>1, <3>2, <3>3, <3>4 DEF SaveInProgress
    <3> QED
        BY <2>2, <3>1, <3>3, <3>5, <3>6 DEF BookOf
  <2>3. CASE u # t
    <3>1. saving'[u] = saving[u] /\ known'[u] = known[u]
        BY <2>1, <2>3, TypedParts
    <3> QED
        BY <1>1, <1>8, <3>1, BookStays DEF WriteRecord, memory
  <2> QED
      BY <2>2, <2>3
<1>9. ASSUME NEW t \in Tab, WriteList(t)
      PROVE  BookOf(u)'
  <2>1. CASE u = t
    <3>1. SaveInProgress(t) /\ saving[t].writes = {} /\ state[t] # "closed" /\ KnownIsShown(t)
        BY <1>1, <1>9, <2>1 DEF BookOf, WriteList
    <3>2. /\ dirty'[t] = {} /\ ~saving'[t].on /\ store' = store /\ known' = known
          /\ state' = state
        BY <1>9, TypedParts DEF WriteList, NotSaving
    <3>3. KnownIsShown(t)'
        BY <3>1, <3>2 DEF KnownIsShown, SaveInProgress
    <3> QED
        BY <2>1, <3>1, <3>2, <3>3 DEF BookOf
  <2>2. CASE u # t
    <3>1. saving'[u] = saving[u] /\ dirty'[u] = dirty[u]
        BY <1>9, <2>2, TypedParts DEF WriteList
    <3> QED
        BY <1>1, <1>9, <3>1, BookStays DEF WriteList
  <2> QED
      BY <2>1, <2>2
<1>10. ASSUME NEW t \in Tab, SaveFails(t)
       PROVE  BookOf(u)'
  <2>1. CASE u = t
    <3>1. ~saving'[t].on /\ saving[t].on /\ UNCHANGED <<state, store, dirty, known>>
        BY <1>10, TypedParts DEF SaveFails, NotSaving, memory
    <3>2. KnownIsShown(t)' /\ state[t] # "closed"
        BY <1>1, <2>1, <3>1 DEF BookOf, KnownIsShown
    <3> QED
        BY <2>1, <3>1, <3>2 DEF BookOf
  <2>2. CASE u # t
    <3>1. saving'[u] = saving[u] /\ paused'[u] = paused[u]
        BY <1>10, <2>2, TypedParts DEF SaveFails
    <3> QED
        BY <1>1, <1>10, <3>1, BookStays DEF SaveFails, memory
  <2> QED
      BY <2>1, <2>2
<1>11. ASSUME NEW t \in Tab, OpenTab(t)
       PROVE  BookOf(u)'
  <2>1. CASE u = t
    <3>1. /\ store'[t] = Loaded /\ known'[t] = Present(Loaded) /\ state'[t] = "open"
          /\ UNCHANGED <<saving, paused, dirty>> /\ state[t] = "closed"
        BY <1>11, TypedParts DEF OpenTab
    <3>2. KnownIsShown(t)'
        BY <3>1 DEF KnownIsShown, Present
    <3> QED
        BY <1>1, <2>1, <3>1, <3>2 DEF BookOf
  <2>2. CASE u # t
    <3>1. store'[u] = store[u] /\ known'[u] = known[u] /\ state'[u] = state[u]
        BY <1>11, <2>2, TypedParts DEF OpenTab
    <3> QED
        BY <1>1, <1>11, <3>1, BookStays DEF OpenTab
  <2> QED
      BY <2>1, <2>2
<1>12. ASSUME NEW t \in Tab, Gone(t)
       PROVE  BookOf(u)'
  <2>1. CASE u = t
      BY <1>12, <2>1, TypedParts DEF Gone, BookOf, KnownIsShown, Nothing, NotSaving
  <2>2. CASE u # t
    <3>1. /\ state'[u] = state[u] /\ store'[u] = store[u] /\ dirty'[u] = dirty[u]
          /\ known'[u] = known[u] /\ saving'[u] = saving[u] /\ paused'[u] = paused[u]
          /\ inbox'[u] = inbox[u]
        BY <1>12, <2>2, TypedParts DEF Gone
    <3> QED
        BY <1>1, <3>1, BookStays
  <2> QED
      BY <2>1, <2>2
<1>13. CASE UNCHANGED vars
    BY <1>1, <1>13, BookStays DEF vars, memory, saves
<1> QED
    BY <1>2, <1>3, <1>5, <1>6, <1>7, <1>8, <1>9, <1>10, <1>11, <1>12, <1>13, Steps DEF Close, Kill

-----------------------------------------------------------------------------
(* What the tabs agree on. *)

\* A record whose being there is disputed is disputed in all its places.
ContestedWhole ==
    \A s \in Subject : <<s, NoTarget>> \in contested => \A f \in Field : <<s, f>> \in contested

AloneHasRead == \A t \in Tab : Open = {t} => inbox[t] = <<>>

\* When they have read their messages the open tabs show the same.
Agreed ==
    \A t \in Open, u \in Open, s \in Subject, c \in Cell :
        Undisputed(s, c) => InTheEnd(t, s, c) = InTheEnd(u, s, c)

\* When its turn comes, the i-th message of t finds no record that it creates, and
\* if it finds none where it brings one, then one that it has made of nothing.
SoundPost(t, i) ==
    LET m == inbox[t][i]
    IN  ~m.whole =>
          \A s \in Touched(m.patches) :
             Undisputed(s, Here) =>
                LET here == Reading(inbox[t], Look(store[t][s], Here), s, Here, i - 1)
                IN  /\ Creates(m.patches, s) => here = 0
                    /\ here = 0 /\ m.snapshots[s] # Absent =>
                         \A c \in Cell : Undisputed(s, c) =>
                            Look(m.snapshots[s], c) = Gives(m.patches, s, c)

Sound == \A t \in Open : \A i \in DOMAIN inbox[t] : SoundPost(t, i)

Channel == ~raced => AloneHasRead /\ Agreed /\ Sound

LEMMA DisputedCells ==
    ASSUME ContestedWhole, NEW s \in Subject, NEW c \in Cell, Undisputed(s, c)
    PROVE  Undisputed(s, Here)
<1>1. PlaceOf(s, c) = <<s, NoTarget>> \/ \E f \in Field : PlaceOf(s, c) = <<s, f>>
    BY DEF PlaceOf, Cell, Field
<1> QED
    BY <1>1, HereIsCell DEF ContestedWhole, Undisputed

LEMMA ContestedGrows ==
    ASSUME NEW t \in Tab, NEW b, Contesting(t, b)
    PROVE  /\ contested \subseteq contested'
           /\ \A m \in Range(inbox[t]) : Met(b, m.patches) \subseteq contested'
           /\ \A x \in Places : store[t][x[1]] # Absent /\ Creates(b, x[1]) => x \in contested'
           /\ \A x \in contested' \ contested :
                 \/ \E m \in Range(inbox[t]) : x \in Met(b, m.patches)
                 \/ x \in Places /\ store[t][x[1]] # Absent /\ Creates(b, x[1])
<1>1. PICK U, V : /\ U = UNION {Met(b, m.patches) : m \in Range(inbox[t])}
                  /\ V = {x \in Places : store[t][x[1]] # Absent /\ Creates(b, x[1])}
    OBVIOUS
<1>2. contested' = contested \cup U \cup V
    BY <1>1, Zenon DEF Contesting
<1>3. ASSUME NEW m \in Range(inbox[t])
      PROVE  Met(b, m.patches) \subseteq U
    BY <1>1
<1>4. \A x \in U : \E m \in Range(inbox[t]) : x \in Met(b, m.patches)
    BY <1>1
<1>5. \A x : x \in V <=> x \in Places /\ store[t][x[1]] # Absent /\ Creates(b, x[1])
    BY <1>1
<1> QED
    BY <1>2, <1>3, <1>4, <1>5

LEMMA ContestedWholeInit == Init => ContestedWhole
    BY DEF Init, ContestedWhole

LEMMA ContestedWholeStep == Typed /\ ContestedWhole /\ [Next]_vars => ContestedWhole'
<1> SUFFICES ASSUME Typed, ContestedWhole, [Next]_vars PROVE ContestedWhole'
    OBVIOUS
<1>1. ASSUME NEW t \in Tab, NEW b, Broadcast(t, b)
      PROVE  ContestedWhole'
  <2> SUFFICES ASSUME NEW s \in Subject, NEW f \in Field, <<s, NoTarget>> \in contested'
               PROVE  <<s, f>> \in contested'
      BY DEF ContestedWhole
  <2>1. Contesting(t, b)
      BY <1>1 DEF Broadcast
  <2>2. <<s, f>> \in Places /\ NoTarget \notin Field
      BY NoTargetIsNoField DEF Places
  <2>3. CASE <<s, NoTarget>> \in contested
      BY <2>1, <2>3, ContestedGrows DEF ContestedWhole
  <2>4. ASSUME NEW m \in Range(inbox[t]), <<s, NoTarget>> \in Met(b, m.patches)
        PROVE  <<s, f>> \in contested'
    <3>1. <<s, f>> \in Met(b, m.patches)
        BY <2>2, <2>4 DEF Met
    <3> QED
        BY <2>1, <3>1, ContestedGrows
  <2>5. CASE store[t][s] # Absent /\ Creates(b, s)
      BY <2>1, <2>2, <2>5, ContestedGrows
  <2> QED
      BY <2>1, <2>3, <2>4, <2>5, ContestedGrows
<1>2. UNCHANGED contested => ContestedWhole'
    BY DEF ContestedWhole
<1>3. ASSUME NEW t \in Tab,
             \/ Receive(t) \/ Adopting(t) \/ Replacing(t)
             \/ Persist(t) \/ WriteRecord(t) \/ WriteList(t) \/ SaveFails(t)
             \/ OpenTab(t) \/ Close(t) \/ Kill(t)
      PROVE  UNCHANGED contested
    BY <1>3 DEF Receive, Adopting, Adopt, Replacing, Replace, Persist, WriteRecord, WriteList,
                SaveFails, OpenTab, Close, Kill, Gone, history
<1> QED
    BY <1>1, <1>2, <1>3, Steps DEF vars, history

\* Reading a message more, at the end.
LEMMA ReadingAppend ==
    ASSUME NEW q, NEW p, NEW m, NEW n \in Nat, NEW v, NEW s, NEW c,
           p[n + 1] = m, \A j \in 1 .. n : p[j] = q[j]
    PROVE  /\ Decides(m, s, c) => Reading(p, v, s, c, n + 1) = Shows(m, s, c)
           /\ ~Decides(m, s, c) => Reading(p, v, s, c, n + 1) = Reading(q, v, s, c, n)
<1>1. Reading(p, v, s, c, n) = Reading(q, v, s, c, n)
    BY ReadingPrefix
<1>2. /\ Decides(p[n + 1], s, c) => Reading(p, v, s, c, n + 1) = Shows(p[n + 1], s, c)
      /\ ~Decides(p[n + 1], s, c) => Reading(p, v, s, c, n + 1) = Reading(p, v, s, c, n)
    BY ReadingStep
<1> QED
    BY <1>1, <1>2

LEMMA OpenTabs == Open \subseteq Tab /\ \A t \in Tab : t \in Open <=> state[t] # "closed"
    BY DEF Open

\* What is posted comes last.
LEMMA PostedLast ==
    ASSUME Typed, NEW t \in Tab, NEW m, Posted(t, m), NEW u \in Open, u # t
    PROVE  \E n \in Nat : /\ n = Len(inbox[u]) /\ n + 1 = Len(inbox'[u])
                          /\ DOMAIN inbox[u] = 1 .. n /\ DOMAIN inbox'[u] = 1 .. n + 1
                          /\ inbox'[u][n + 1] = m
                          /\ \A j \in 1 .. n : inbox'[u][j] = inbox[u][j]
<1>1. u \in Tab /\ inbox[u] \in Seq(Post)
    BY OpenTabs, TypedParts
<1>2. PICK q, p : q = inbox[u] /\ p = Append(q, m)
    OBVIOUS
<1>3. inbox'[u] = p
    BY <1>1, <1>2 DEF Posted
<1>4. PICK n \in Nat : n = Len(q) /\ DOMAIN q = 1 .. n
    BY <1>1, <1>2
<1>5. /\ Len(p) = n + 1 /\ DOMAIN p = 1 .. n + 1 /\ p[n + 1] = m
      /\ \A j \in 1 .. n : p[j] = q[j]
    BY <1>1, <1>2, <1>4
<1> QED
    BY <1>2, <1>3, <1>4, <1>5

\* A change that meets one not read yet, where that is not in dispute.
LEMMA MetUnrooted ==
    ASSUME Typed, NEW t \in Tab, NEW b, Broadcast(t, b), ~raced',
           NEW i \in DOMAIN inbox[t], NEW s \in Subject, s \in Touched(b),
           <<s, NoTarget>> \notin contested',
           inbox[t][i].whole \/ s \in Touched(inbox[t][i].patches)
    PROVE  /\ ~inbox[t][i].whole /\ s \in Touched(inbox[t][i].patches)
           /\ inbox[t][i].patches \in Batch
           /\ ~Rooted(b, s) /\ ~Rooted(inbox[t][i].patches, s)
           /\ \A f \in Field : ~ /\ <<s, f>> \notin contested'
                                 /\ \E p \in Range(b) : Place(p) = <<s, f>>
                                 /\ \E p \in Range(inbox[t][i].patches) : Place(p) = <<s, f>>
<1>1. PICK m : m = inbox[t][i]
    OBVIOUS
<1>2. m \in Range(inbox[t]) /\ m \in Post
  <2>1. inbox[t] \in Seq(Post)
      BY TypedParts
  <2> QED
      BY <1>1, <2>1 DEF Range
<1>3. Contesting(t, b) /\ ~SnapshotUnread(t)
    BY DEF Broadcast, Racing
<1>4. ~m.whole /\ s \in Touched(m.patches) /\ m.patches \in Batch
    BY <1>1, <1>2, <1>3 DEF SnapshotUnread, Post
<1>5. Met(b, m.patches) \subseteq contested'
    BY <1>2, <1>3, ContestedGrows
<1>6. <<s, NoTarget>> \in Places /\ \A f \in Field : <<s, f>> \in Places
    BY DEF Places
<1>7. ~Rooted(b, s) /\ ~Rooted(m.patches, s)
    BY <1>4, <1>5, <1>6 DEF Met
<1>8. ASSUME NEW f \in Field, <<s, f>> \notin contested',
             \E p \in Range(b) : Place(p) = <<s, f>>,
             \E p \in Range(m.patches) : Place(p) = <<s, f>>
      PROVE  FALSE
    BY <1>4, <1>5, <1>6, <1>8 DEF Met
<1> QED
    BY <1>1, <1>4, <1>7, <1>8

\* After a batch of t every open tab shows in the end what the batch decides, and of
\* the rest what it would have shown.
LEMMA BroadcastEnds ==
    ASSUME Typed, Typed', ContestedWhole', NEW t \in Tab, NEW b, Broadcast(t, b), ~raced',
           NEW u \in Open, NEW s \in Subject, NEW c \in Cell, Undisputed(s, c)'
    PROVE  InTheEnd(u, s, c)' = IF Bears(b, s, c) THEN Gives(b, s, c) ELSE InTheEnd(u, s, c)
<1>1. b \in Batch /\ u \in Tab /\ inbox[u] \in Seq(Post) /\ inbox[t] \in Seq(Post)
    BY OpenTabs, TypedParts DEF Broadcast
<1>2. PICK m : m = Message(b, store'[t])
    OBVIOUS
<1>3. ~m.whole /\ m.patches = b
    BY <1>2 DEF Message
<1>4. inbox' = [v \in Tab |-> IF v \in Open \ {t} THEN Append(inbox[v], m) ELSE inbox[v]]
    BY <1>2 DEF Broadcast, Posted
<1>5. Decides(m, s, c) <=> Bears(b, s, c)
    BY <1>3 DEF Decides
<1>6. Shows(m, s, c) = Gives(b, s, c)
    BY <1>3 DEF Shows
<1>7. CASE u # t
  <2>1. store'[u] = store[u] /\ Posted(t, m)
      BY <1>1, <1>2, <1>7, BroadcastIsDirty DEF Broadcast
  <2>2. PICK n \in Nat : /\ n = Len(inbox[u]) /\ n + 1 = Len(inbox'[u])
                         /\ inbox'[u][n + 1] = m
                         /\ \A j \in 1 .. n : inbox'[u][j] = inbox[u][j]
      BY <1>7, <2>1, PostedLast
  <2>3. PICK q, p, v : q = inbox[u] /\ p = inbox'[u] /\ v = Look(store[u][s], c)
      OBVIOUS
  <2>4. p[n + 1] = m /\ \A j \in 1 .. n : p[j] = q[j]
      BY <2>2, <2>3
  <2>5. /\ Decides(m, s, c) => Reading(p, v, s, c, n + 1) = Shows(m, s, c)
        /\ ~Decides(m, s, c) => Reading(p, v, s, c, n + 1) = Reading(q, v, s, c, n)
      BY <2>4, ReadingAppend
  <2>6. /\ InTheEnd(u, s, c)' = Reading(p, v, s, c, n + 1)
        /\ InTheEnd(u, s, c) = Reading(q, v, s, c, n)
      BY <2>1, <2>2, <2>3 DEF InTheEnd
  <2> QED
      BY <1>5, <1>6, <2>5, <2>6
<1>8. CASE u = t
  <2>1. inbox'[t] = inbox[t] /\ store'[t][s] = After(b, s, store[t][s], BrowserFresh)
    <3>1. store'[t] = ApplyPatches(b, store[t], BrowserFresh)
        BY BroadcastIsDirty
    <3>2. ApplyPatches(b, store[t], BrowserFresh)[s] = After(b, s, store[t][s], BrowserFresh)
        BY DEF ApplyPatches
    <3>3. inbox'[t] = inbox[t]
        BY <1>4
    <3> QED
        BY <3>1, <3>2, <3>3
  <2>2. PICK n \in Nat : IsBatch(b, n)
      BY <1>1, BatchIsBatch
  <2>3. store[t][s] \in Record \cup {Absent}
      BY TypedParts DEF Store, FullRecord
  <2>4. PICK v, w : v = Look(store[t][s], c) /\ w = Look(store'[t][s], c)
      OBVIOUS
  <2>5. /\ ~Bears(b, s, c) => w = v
        /\ Bears(b, s, c) => w = Gives(b, s, c)
      BY <2>1, <2>2, <2>3, <2>4, AfterCell DEF Gives, BrowserFresh
  <2>6. /\ InTheEnd(t, s, c)' = Reading(inbox[t], w, s, c, Len(inbox[t]))
        /\ InTheEnd(t, s, c) = Reading(inbox[t], v, s, c, Len(inbox[t]))
      BY <2>1, <2>4 DEF InTheEnd
  <2>7. CASE ~Bears(b, s, c)
      BY <1>8, <2>5, <2>6, <2>7
  <2>8. CASE Bears(b, s, c) /\ \E i \in DOMAIN inbox[t] : Decides(inbox[t][i], s, c)
    <3>1. PICK n1 \in Nat : n1 = Len(inbox[t]) /\ DOMAIN inbox[t] = 1 .. n1
        BY <1>1
    <3>2. PICK k \in 1 .. n1 : Decides(inbox[t][k], s, c)
        BY <2>8, <3>1
    <3>3. PICK j \in 1 .. n1 : /\ Decides(inbox[t][j], s, c)
                               /\ \A x : Reading(inbox[t], x, s, c, n1) = Shows(inbox[t][j], s, c)
        BY <3>1, <3>2, ReadingDecided
    <3>4. s \in Touched(b) /\ inbox[t][j] \in Post
        BY <1>1, <2>8, <3>1, BearsTouched
    <3>5. inbox[t][j].whole \/ s \in Touched(inbox[t][j].patches)
        BY <3>3, <3>4, BearsTouched DEF Decides, Post
    <3>6. <<s, NoTarget>> \notin contested'
      <4>1. Undisputed(s, Here)'
        <5>1. PlaceOf(s, c) = <<s, NoTarget>> \/ \E f \in Field : PlaceOf(s, c) = <<s, f>>
            BY DEF PlaceOf, Cell, Field
        <5> QED
            BY <5>1, HereIsCell DEF ContestedWhole, Undisputed
      <4> QED
          BY <4>1, HereIsCell DEF Undisputed
    <3>7. PICK q : q = inbox[t][j].patches
        OBVIOUS
    <3>8. /\ ~inbox[t][j].whole /\ s \in Touched(q) /\ q \in Batch
          /\ ~Rooted(b, s) /\ ~Rooted(q, s)
          /\ \A f \in Field : ~ /\ <<s, f>> \notin contested'
                                /\ \E p \in Range(b) : Place(p) = <<s, f>>
                                /\ \E p \in Range(q) : Place(p) = <<s, f>>
        BY <3>1, <3>4, <3>5, <3>6, <3>7, MetUnrooted
    <3>9. Bears(q, s, c) /\ Shows(inbox[t][j], s, c) = Gives(q, s, c)
        BY <3>3, <3>7, <3>8 DEF Decides, Shows
    <3>10. CASE c.kind = "here"
      <4>1. /\ After(b, s, Absent, BrowserFresh) # Absent
            /\ After(q, s, Absent, BrowserFresh) # Absent
          BY <1>1, <3>4, <3>8, UnrootedLeavesRecord
      <4>2. Gives(b, s, c) = Gives(q, s, c)
          BY <3>10, <4>1 DEF Gives, Look
      <4> QED
          BY <1>8, <2>6, <2>8, <3>1, <3>3, <3>9, <4>2
    <3>11. CASE c.kind # "here"
      <4>1. c.prop \in Field /\ PlaceOf(s, c) = <<s, c.prop>>
          BY <3>11 DEF Cell, Field, PlaceOf
      <4>2. <<s, c.prop>> \notin contested'
          BY <4>1 DEF Undisputed
      <4>3. \E p \in Range(b) : Place(p) = <<s, c.prop>>
          BY <1>1, <2>8, <3>4, <3>8, <3>11, UnrootedLeavesRecord
      <4>4. \E p \in Range(q) : Place(p) = <<s, c.prop>>
          BY <3>8, <3>9, <3>11, UnrootedLeavesRecord
      <4> QED
          BY <3>8, <4>1, <4>2, <4>3, <4>4
    <3> QED
        BY <3>10, <3>11
  <2>9. CASE Bears(b, s, c) /\ ~ \E i \in DOMAIN inbox[t] : Decides(inbox[t][i], s, c)
    <3>1. PICK n1 \in Nat : n1 = Len(inbox[t]) /\ DOMAIN inbox[t] = 1 .. n1
        BY <1>1
    <3>2. \A j \in 1 .. n1 : ~Decides(inbox[t][j], s, c)
        BY <2>9, <3>1
    <3>3. Reading(inbox[t], w, s, c, n1) = w
        BY <3>2, ReadingQuiet
    <3> QED
        BY <1>8, <2>5, <2>6, <2>9, <3>1, <3>3
  <2> QED
      BY <2>7, <2>8, <2>9
<1> QED
    BY <1>7, <1>8

\* What a tab has yet to read of a record that it changes leaves the record there.
LEMMA MetReading ==
    ASSUME Typed, NEW t \in Tab, NEW b, Broadcast(t, b), ~raced',
           NEW s \in Subject, s \in Touched(b), <<s, NoTarget>> \notin contested',
           NEW n \in 0 .. Len(inbox[t])
    PROVE  \/ \A j \in 1 .. n : ~Decides(inbox[t][j], s, Here)
           \/ ~Rooted(b, s) /\ \A v : Reading(inbox[t], v, s, Here, n) = 1
<1> SUFFICES ASSUME NEW k \in 1 .. n, Decides(inbox[t][k], s, Here)
             PROVE  ~Rooted(b, s) /\ \A v : Reading(inbox[t], v, s, Here, n) = 1
    OBVIOUS
<1>1. inbox[t] \in Seq(Post) /\ Len(inbox[t]) \in Nat /\ DOMAIN inbox[t] = 1 .. Len(inbox[t])
    BY TypedParts
<1>2. n \in Nat /\ 1 .. n \subseteq DOMAIN inbox[t]
    BY <1>1
<1>3. PICK j \in 1 .. n : /\ Decides(inbox[t][j], s, Here)
                          /\ \A v : Reading(inbox[t], v, s, Here, n) = Shows(inbox[t][j], s, Here)
    BY <1>2, ReadingDecided
<1>4. PICK m : m = inbox[t][j]
    OBVIOUS
<1>5. m \in Post /\ j \in DOMAIN inbox[t]
    BY <1>1, <1>2, <1>4
<1>6. m.whole \/ s \in Touched(m.patches)
    BY <1>3, <1>4, <1>5, BearsTouched DEF Decides, Post
<1>7. ~m.whole /\ s \in Touched(m.patches) /\ m.patches \in Batch /\ ~Rooted(b, s) /\ ~Rooted(m.patches, s)
    BY <1>4, <1>5, <1>6, MetUnrooted
<1>8. After(m.patches, s, Absent, BrowserFresh) # Absent
    BY <1>7, UnrootedLeavesRecord
<1>9. Shows(m, s, Here) = 1
    BY <1>7, <1>8 DEF Shows, Gives, Look, Here
<1> QED
    BY <1>3, <1>4, <1>7, <1>9

\* The message of a batch finds what its maker found.
LEMMA MessageSound ==
    ASSUME Typed, NEW t \in Tab, NEW b, Broadcast(t, b), ~raced',
           NEW s \in Subject, s \in Touched(b), <<s, NoTarget>> \notin contested'
    PROVE  /\ Creates(b, s) => InTheEnd(t, s, Here) = 0
           /\ InTheEnd(t, s, Here) = 0 =>
                 \A c : Look(store'[t][s], c) = Gives(b, s, c)
<1>1. inbox[t] \in Seq(Post) /\ Len(inbox[t]) \in 0 .. Len(inbox[t]) /\ Len(inbox[t]) \in Nat
    BY TypedParts
<1>2. PICK n \in 0 .. Len(inbox[t]) : n = Len(inbox[t])
    BY <1>1
<1>3. PICK v : v = Look(store[t][s], Here)
    OBVIOUS
<1>4. InTheEnd(t, s, Here) = Reading(inbox[t], v, s, Here, n)
    BY <1>2, <1>3 DEF InTheEnd
<1>5. CASE \A j \in 1 .. n : ~Decides(inbox[t][j], s, Here)
  <2>1. InTheEnd(t, s, Here) = v
      BY <1>1, <1>2, <1>4, <1>5, ReadingQuiet
  <2>2. v = 0 <=> store[t][s] = Absent
      BY <1>3 DEF Look, Here
  <2>3. Creates(b, s) => store[t][s] = Absent
    <3>1. <<s, NoTarget>> \in Places /\ Contesting(t, b) /\ <<s, NoTarget>>[1] = s
        BY DEF Places, Broadcast
    <3> QED
        BY <3>1, ContestedGrows
  <2>4. store'[t][s] = After(b, s, store[t][s], BrowserFresh)
    <3>1. store'[t] = ApplyPatches(b, store[t], BrowserFresh)
        BY BroadcastIsDirty
    <3>2. ApplyPatches(b, store[t], BrowserFresh)[s] = After(b, s, store[t][s], BrowserFresh)
        BY DEF ApplyPatches
    <3> QED
        BY <3>1, <3>2
  <2> QED
      BY <2>1, <2>2, <2>3, <2>4 DEF Gives
<1>6. CASE ~Rooted(b, s) /\ \A x : Reading(inbox[t], x, s, Here, n) = 1
    BY <1>4, <1>6, CreatesIsRooted
<1> QED
    BY <1>5, <1>6, MetReading

\* What was sound stays sound where nothing changed that it is about.
LEMMA SoundStays ==
    ASSUME Typed, NEW u \in Tab, NEW i \in Nat \ {0}, SoundPost(u, i),
           contested \subseteq contested',
           \A j \in 1 .. i : inbox'[u][j] = inbox[u][j],
           \A s \in Touched(inbox[u][i].patches) : Undisputed(s, Here)' =>
               store'[u][s] = store[u][s]
    PROVE  SoundPost(u, i)'
<1>1. PICK m : m = inbox[u][i]
    OBVIOUS
<1>2. i \in 1 .. i /\ i - 1 \in Nat
    OBVIOUS
<1>3. inbox'[u][i] = m
    BY <1>1, <1>2
<1>4. \A s, c : Undisputed(s, c)' => Undisputed(s, c)
    BY DEF Undisputed
<1> SUFFICES ASSUME ~m.whole, NEW s \in Touched(m.patches), Undisputed(s, Here)'
             PROVE  LET here == Reading(inbox'[u], Look(store'[u][s], Here), s, Here, i - 1)
                    IN  /\ Creates(m.patches, s) => here = 0
                        /\ here = 0 /\ m.snapshots[s] # Absent =>
                             \A c \in Cell : Undisputed(s, c)' =>
                                Look(m.snapshots[s], c) = Gives(m.patches, s, c)
    BY <1>3 DEF SoundPost
<1>5. store'[u][s] = store[u][s]
    BY <1>1
<1>6. PICK q, p, v : q = inbox[u] /\ p = inbox'[u] /\ v = Look(store[u][s], Here)
    OBVIOUS
<1>7. \A j \in 1 .. i - 1 : p[j] = q[j]
    BY <1>2, <1>6
<1>8. Reading(p, v, s, Here, i - 1) = Reading(q, v, s, Here, i - 1)
    BY <1>2, <1>7, ReadingPrefix
<1>9. LET here == Reading(q, v, s, Here, i - 1)
      IN  /\ Creates(m.patches, s) => here = 0
          /\ here = 0 /\ m.snapshots[s] # Absent =>
               \A c \in Cell : Undisputed(s, c) =>
                  Look(m.snapshots[s], c) = Gives(m.patches, s, c)
    BY <1>1, <1>4, <1>6 DEF SoundPost
<1> QED
    BY <1>4, <1>5, <1>6, <1>8, <1>9

LEMMA BroadcastChannel ==
    ASSUME Typed, Typed', ContestedWhole', Channel, NEW t \in Tab, NEW b, Broadcast(t, b)
    PROVE  Channel'
<1> SUFFICES ASSUME ~raced' PROVE AloneHasRead' /\ Agreed' /\ Sound'
    BY DEF Channel
<1>1. AloneHasRead /\ Agreed /\ Sound
    BY DEF Broadcast, Racing, Channel
<1>2. Open' = Open /\ t \in Open /\ Open \subseteq Tab
    BY DEF Broadcast, Free, Open
<1>3. contested \subseteq contested' /\ \A s, c : Undisputed(s, c)' => Undisputed(s, c)
  <2>1. contested \subseteq contested'
      BY ContestedGrows DEF Broadcast
  <2> QED
      BY <2>1 DEF Undisputed
<1>4. PICK m : m = Message(b, store'[t])
    OBVIOUS
<1>5. Posted(t, m)
    BY <1>4 DEF Broadcast
<1>6. inbox'[t] = inbox[t]
    BY <1>5, TypedParts DEF Posted
<1>7. AloneHasRead'
  <2> SUFFICES ASSUME NEW u \in Tab, Open' = {u} PROVE inbox'[u] = <<>>
      BY DEF AloneHasRead
  <2>1. u = t /\ Open = {t}
      BY <1>2
  <2> QED
      BY <1>1, <1>6, <2>1 DEF AloneHasRead
<1>8. Agreed'
  <2> SUFFICES ASSUME NEW u \in Open, NEW v \in Open, NEW s \in Subject, NEW c \in Cell,
                      Undisputed(s, c)'
               PROVE  InTheEnd(u, s, c)' = InTheEnd(v, s, c)'
      BY <1>2 DEF Agreed
  <2>1. InTheEnd(u, s, c) = InTheEnd(v, s, c)
      BY <1>1, <1>3 DEF Agreed
  <2>2. InTheEnd(u, s, c)' = IF Bears(b, s, c) THEN Gives(b, s, c) ELSE InTheEnd(u, s, c)
      BY BroadcastEnds
  <2>3. InTheEnd(v, s, c)' = IF Bears(b, s, c) THEN Gives(b, s, c) ELSE InTheEnd(v, s, c)
      BY BroadcastEnds
  <2> QED
      BY <2>1, <2>2, <2>3
<1>9. ASSUME NEW i \in DOMAIN inbox[t]
      PROVE  SoundPost(t, i)'
  <2>1. PICK p : p = inbox[t][i]
      OBVIOUS
  <2>2. /\ i \in Nat \ {0} /\ i - 1 \in 0 .. Len(inbox[t]) /\ i - 1 \in Nat
        /\ inbox'[t][i] = p /\ p \in Post
      BY <1>6, <2>1, TypedParts
  <2>3. SoundPost(t, i)
      BY <1>1, <1>2 DEF Sound
  <2> SUFFICES ASSUME ~p.whole, NEW s \in Touched(p.patches), Undisputed(s, Here)'
               PROVE  LET here == Reading(inbox'[t], Look(store'[t][s], Here), s, Here, i - 1)
                      IN  /\ Creates(p.patches, s) => here = 0
                          /\ here = 0 /\ p.snapshots[s] # Absent =>
                               \A c \in Cell : Undisputed(s, c)' =>
                                  Look(p.snapshots[s], c) = Gives(p.patches, s, c)
      BY <2>2 DEF SoundPost
  <2>4. s \in Subject
      BY <2>2, TouchedAreSubjects DEF Post
  <2>5. CASE s \notin Touched(b)
    <3>1. store'[t][s] = store[t][s]
        BY <2>4, <2>5, BroadcastIsDirty
    <3> QED
        BY <1>3, <1>6, <2>1, <2>3, <3>1 DEF SoundPost
  <2>6. CASE s \in Touched(b)
    <3>1. <<s, NoTarget>> \notin contested'
        BY HereIsCell DEF Undisputed
    <3>2. ~Rooted(b, s) /\ ~Rooted(p.patches, s)
        BY <2>1, <2>4, <2>6, <3>1, MetUnrooted
    <3>3. store'[t][s] # Absent
      <4>1. store'[t] = ApplyPatches(b, store[t], BrowserFresh)
          BY BroadcastIsDirty
      <4>2. ApplyPatches(b, store[t], BrowserFresh)[s] = After(b, s, store[t][s], BrowserFresh)
          BY <2>4 DEF ApplyPatches
      <4>3. b \in Batch /\ store[t][s] \in FullRecord \cup {Absent}
          BY <2>4, TypedParts DEF Broadcast, Store
      <4>4. After(b, s, store[t][s], BrowserFresh) # Absent
          BY <2>6, <3>2, <4>3, UnrootedLeavesRecord
      <4> QED
          BY <4>1, <4>2, <4>4
    <3>4. PICK w : w = Look(store'[t][s], Here)
        OBVIOUS
    <3>5. w = 1
        BY <3>3, <3>4 DEF Look, Here
    <3>6. Reading(inbox[t], w, s, Here, i - 1) = 1
      <4>1. \/ \A j \in 1 .. i - 1 : ~Decides(inbox[t][j], s, Here)
            \/ \A x : Reading(inbox[t], x, s, Here, i - 1) = 1
          BY <2>2, <2>4, <2>6, <3>1, MetReading
      <4>2. CASE \A j \in 1 .. i - 1 : ~Decides(inbox[t][j], s, Here)
          BY <2>2, <3>5, <4>2, ReadingQuiet
      <4> QED
          BY <4>1, <4>2
    <3>7. ~Creates(p.patches, s)
        BY <3>2, CreatesIsRooted
    <3> QED
        BY <1>6, <3>4, <3>6, <3>7
  <2> QED
      BY <2>5, <2>6
<1>10. ASSUME NEW u \in Open, u # t, NEW i \in DOMAIN inbox'[u]
       PROVE  SoundPost(u, i)'
  <2>1. PICK n \in Nat : /\ n = Len(inbox[u]) /\ n + 1 = Len(inbox'[u])
                         /\ DOMAIN inbox[u] = 1 .. n /\ DOMAIN inbox'[u] = 1 .. n + 1
                         /\ inbox'[u][n + 1] = m
                         /\ \A j \in 1 .. n : inbox'[u][j] = inbox[u][j]
      BY <1>5, <1>10, PostedLast
  <2>2. u \in Tab /\ store'[u] = store[u]
      BY <1>2, <1>10, BroadcastIsDirty
  <2>3. CASE i \in 1 .. n
    <3>1. SoundPost(u, i)
        BY <1>1, <2>1, <2>3 DEF Sound
    <3>2. i \in Nat \ {0} /\ \A j \in 1 .. i : inbox'[u][j] = inbox[u][j]
        BY <2>1, <2>3
    <3> QED
        BY <1>3, <2>2, <3>1, <3>2, SoundStays
  <2>4. CASE i = n + 1
    <3>1. inbox'[u][i] = m /\ i - 1 = n /\ m.patches = b
        BY <1>4, <2>1, <2>4 DEF Message
    <3> SUFFICES ASSUME NEW s \in Touched(b), Undisputed(s, Here)'
                 PROVE  LET here == Reading(inbox'[u], Look(store'[u][s], Here), s, Here, n)
                        IN  /\ Creates(b, s) => here = 0
                            /\ here = 0 /\ m.snapshots[s] # Absent =>
                                 \A c \in Cell : Undisputed(s, c)' =>
                                    Look(m.snapshots[s], c) = Gives(b, s, c)
        BY <3>1 DEF SoundPost
    <3>2. s \in Subject
        BY TouchedAreSubjects DEF Broadcast
    <3>3. PICK q, p, v : q = inbox[u] /\ p = inbox'[u] /\ v = Look(store[u][s], Here)
        OBVIOUS
    <3>4. Reading(p, v, s, Here, n) = Reading(q, v, s, Here, n)
      <4>1. \A j \in 1 .. n : p[j] = q[j]
          BY <2>1, <3>3
      <4> QED
          BY <4>1, ReadingPrefix
    <3>5. Reading(q, v, s, Here, n) = InTheEnd(u, s, Here)
        BY <2>1, <3>3 DEF InTheEnd
    <3>6. InTheEnd(u, s, Here) = InTheEnd(t, s, Here)
        BY <1>1, <1>2, <1>3, <3>2, HereIsCell DEF Agreed
    <3>7. <<s, NoTarget>> \notin contested'
        BY HereIsCell DEF Undisputed
    <3>8. /\ Creates(b, s) => InTheEnd(t, s, Here) = 0
          /\ InTheEnd(t, s, Here) = 0 => \A c : Look(store'[t][s], c) = Gives(b, s, c)
        BY <3>2, <3>7, MessageSound
    <3>9. m.snapshots[s] = store'[t][s]
        BY <1>4, <3>2 DEF Message
    <3> QED
        BY <2>2, <3>3, <3>4, <3>5, <3>6, <3>8, <3>9
  <2> QED
      BY <2>1, <2>3, <2>4
<1>11. Sound'
    BY <1>2, <1>6, <1>9, <1>10 DEF Sound
<1> QED
    BY <1>7, <1>8, <1>11

\* What a tab makes of a message that it reads.
LEMMA ReceiveCell ==
    ASSUME Typed, ContestedWhole, Sound, NEW t \in Tab, Receive(t),
           NEW s \in Subject, NEW c \in Cell, Undisputed(s, c)
    PROVE  /\ Decides(inbox[t][1], s, c) =>
                 Look(store'[t][s], c) = Shows(inbox[t][1], s, c)
           /\ ~Decides(inbox[t][1], s, c) => Look(store'[t][s], c) = Look(store[t][s], c)
<1>1. PICK m : m = Head(inbox[t])
    OBVIOUS
<1>2. /\ m \in Post /\ m = inbox[t][1] /\ m.snapshots \in Store /\ m.patches \in Batch
      /\ 1 \in DOMAIN inbox[t]
  <2>1. m \in Post /\ m = inbox[t][1] /\ 1 \in DOMAIN inbox[t]
      BY <1>1, ReceiveReads
  <2> QED
      BY <2>1 DEF Post
<1>3. /\ store \in [Tab -> Store] /\ store[t] \in Store
      /\ store[t][s] \in FullRecord \cup {Absent} /\ store[t][s] \in Record \cup {Absent}
    BY TypedParts DEF Store, FullRecord
<1>4. CASE m.whole
  <2>1. Replaced(t, m.snapshots)
      BY <1>1, <1>4 DEF Receive
  <2>2. store'[t] = m.snapshots
      BY <1>3, <2>1 DEF Replaced
  <2> QED
      BY <1>2, <1>4, <2>2 DEF Decides, Shows
<1>5. CASE ~m.whole
  <2>1. PICK b, d : b = m.patches /\ d = WithoutDuplicates(m.patches, store[t])
      OBVIOUS
  <2>2. b \in Batch /\ d \in Batch /\ Touched(d) \subseteq Touched(b)
      BY <1>2, <2>1, WithoutDuplicatesIsBatch
  <2>3. External(t, m.patches, m.snapshots)
      BY <1>1, <1>5 DEF Receive
  <2>4. store'[t] = Recovered(d, store[t], m.snapshots)
      BY <1>3, <2>1, <2>3 DEF External
  <2>5. PICK n \in Nat : IsBatch(b, n)
      BY <2>2, BatchIsBatch
  <2>6. PICK k \in Nat : IsBatch(d, k)
      BY <2>2, BatchIsBatch
  <2>7. CASE s \notin Touched(b)
    <3>1. After(d, s, store[t][s], BrowserFresh) = store[t][s] /\ s \notin Touched(d)
        BY <2>2, <2>6, <2>7, UntouchedStays
    <3>2. store'[t][s] = store[t][s]
        BY <2>4, <3>1 DEF Recovered, Missed
    <3>3. ~Decides(m, s, c)
        BY <1>5, <2>1, <2>2, <2>7, BearsTouched DEF Decides
    <3> QED
        BY <1>2, <3>2, <3>3
  <2>8. CASE s \in Touched(b)
    <3>1. Undisputed(s, Here)
        BY DisputedCells
    <3>2. SoundPost(t, 1) /\ t \in Open
        BY <1>2 DEF Sound, Receive, Free, Open
    <3>3. PICK v : v = Look(store[t][s], Here)
        OBVIOUS
    <3>4. Reading(inbox[t], v, s, Here, 1 - 1) = v
        BY ReadingStep
    <3>5. /\ Creates(b, s) => v = 0
          /\ v = 0 /\ m.snapshots[s] # Absent => Look(m.snapshots[s], c) = Gives(b, s, c)
        BY <1>2, <1>5, <2>1, <2>8, <3>1, <3>2, <3>3, <3>4 DEF SoundPost
    <3>6. v = 0 <=> store[t][s] = Absent
        BY <3>3 DEF Look, Here
    <3>7. /\ After(d, s, store[t][s], BrowserFresh) = After(b, s, store[t][s], BrowserFresh)
          /\ s \in Touched(d)
        BY <2>1, <2>2, <2>8, <3>5, <3>6, DuplicatesAside
    <3>8. /\ ~Bears(b, s, c) =>
               /\ Look(After(b, s, store[t][s], BrowserFresh), c) = Look(store[t][s], c)
               /\ Gives(b, s, c) = Look(Absent, c)
          /\ Bears(b, s, c) =>
               Look(After(b, s, store[t][s], BrowserFresh), c) = Gives(b, s, c)
        BY <1>3, <2>5, AfterCell DEF Gives, BrowserFresh
    <3>9. CASE store[t][s] = Absent /\ m.snapshots[s] # Absent
      <4>1. m.snapshots[s] \in FullRecord
          BY <1>2, <3>9 DEF Store
      <4>2. store'[t][s] = After(Whole(s, m.snapshots[s]), s, Absent, BrowserFresh)
          BY <2>4, <3>7, <3>9 DEF Recovered, Missed
      <4>3. store'[t][s] = m.snapshots[s]
          BY <4>1, <4>2, WholeMakesRecord
      <4>4. Look(store'[t][s], c) = Gives(b, s, c)
          BY <3>5, <3>6, <3>9, <4>3
      <4> QED
          BY <1>2, <1>5, <2>1, <3>8, <3>9, <4>4 DEF Decides, Shows
    <3>10. CASE ~(store[t][s] = Absent /\ m.snapshots[s] # Absent)
      <4>1. store'[t][s] = After(b, s, store[t][s], BrowserFresh)
          BY <2>4, <3>7, <3>10 DEF Recovered, Missed
      <4> QED
          BY <1>2, <1>5, <2>1, <3>8, <4>1 DEF Decides, Shows
    <3> QED
        BY <3>9, <3>10
  <2> QED
      BY <2>7, <2>8
<1> QED
    BY <1>2, <1>4, <1>5 DEF Post

\* What it has read it need not read again.
LEMMA ReceiveRest ==
    ASSUME Typed, ContestedWhole, Sound, NEW t \in Tab, Receive(t),
           NEW s \in Subject, NEW c \in Cell, Undisputed(s, c),
           NEW n \in 1 .. Len(inbox[t])
    PROVE  Reading(inbox'[t], Look(store'[t][s], c), s, c, n - 1)
              = Reading(inbox[t], Look(store[t][s], c), s, c, n)
<1>1. PICK q, v, w : q = inbox[t] /\ v = Look(store[t][s], c) /\ w = Look(store'[t][s], c)
    OBVIOUS
<1>2. q \in Seq(Post) /\ n \in 1 .. Len(q) /\ inbox'[t] = Tail(q)
  <2>1. inbox' = [inbox EXCEPT ![t] = Tail(q)] /\ inbox[t] \in Seq(Post)
      BY <1>1, ReceiveReads
  <2> QED
      BY <1>1, <2>1, TypedParts
<1>3. w = IF Decides(q[1], s, c) THEN Shows(q[1], s, c) ELSE v
    BY <1>1, ReceiveCell
<1>4. Reading(Tail(q), w, s, c, n - 1) = Reading(q, v, s, c, n)
    BY <1>2, <1>3, ReadingTail
<1> QED
    BY <1>1, <1>2, <1>4

LEMMA ReceiveChannel ==
    ASSUME Typed, Typed', ContestedWhole, Channel, NEW t \in Tab, Receive(t)
    PROVE  Channel'
<1> SUFFICES ASSUME ~raced' PROVE AloneHasRead' /\ Agreed' /\ Sound'
    BY DEF Channel
<1>1. AloneHasRead /\ Agreed /\ Sound /\ contested' = contested
    BY DEF Receive, history, Channel
<1>2. Open' = Open /\ t \in Open /\ Open \subseteq Tab
    BY DEF Receive, Free, Open
<1>3. \A u \in Tab \ {t} : store'[u] = store[u] /\ inbox'[u] = inbox[u]
    BY TypedParts DEF Receive, External, Replaced
<1>4. \A s, c : Undisputed(s, c)' = Undisputed(s, c)
    BY <1>1 DEF Undisputed
<1>5. AloneHasRead'
    BY <1>1, <1>2 DEF AloneHasRead, Receive
<1>6. ASSUME NEW u \in Open, NEW s \in Subject, NEW c \in Cell, Undisputed(s, c)
      PROVE  InTheEnd(u, s, c)' = InTheEnd(u, s, c)
  <2>1. CASE u # t
      BY <1>2, <1>3, <2>1 DEF InTheEnd
  <2>2. CASE u = t
    <3>1. /\ inbox'[t] = Tail(inbox[t]) /\ Len(inbox'[t]) = Len(inbox[t]) - 1
          /\ Len(inbox[t]) \in 1 .. Len(inbox[t])
        BY ReceiveReads, TypedParts
    <3>2. PICK n \in 1 .. Len(inbox[t]) : n = Len(inbox[t])
        BY <3>1
    <3>3. Reading(inbox'[t], Look(store'[t][s], c), s, c, n - 1)
              = Reading(inbox[t], Look(store[t][s], c), s, c, n)
        BY <1>1, <1>6, ReceiveRest
    <3> QED
        BY <2>2, <3>1, <3>2, <3>3 DEF InTheEnd
  <2> QED
      BY <2>1, <2>2
<1>7. Agreed'
    BY <1>1, <1>2, <1>4, <1>6 DEF Agreed
<1>8. ASSUME NEW i \in DOMAIN inbox'[t]
      PROVE  SoundPost(t, i)'
  <2>1. PICK n \in Nat : n = Len(inbox[t]) /\ DOMAIN inbox[t] = 1 .. n
      BY TypedParts
  <2>2. /\ i \in 1 .. n - 1 /\ i \in 1 .. n /\ i + 1 \in DOMAIN inbox[t] /\ (i + 1) - 1 = i
        /\ inbox'[t][i] = inbox[t][i + 1]
    <3>1. /\ inbox'[t] = Tail(inbox[t]) /\ inbox[t] \in Seq(Post)
          /\ DOMAIN Tail(inbox[t]) = 1 .. Len(inbox[t]) - 1
          /\ \A j \in 1 .. Len(inbox[t]) - 1 : Tail(inbox[t])[j] = inbox[t][j + 1]
        BY ReceiveReads, TypedParts
    <3> QED
        BY <1>8, <2>1, <3>1
  <2>3. PICK m, k : m = inbox[t][i + 1] /\ k = i + 1
      OBVIOUS
  <2>4. SoundPost(t, k) /\ m = inbox[t][k] /\ k - 1 = i
      BY <1>1, <1>2, <2>2, <2>3 DEF Sound
  <2>5. m \in Post
      BY <2>2, <2>3, TypedParts
  <2> SUFFICES ASSUME ~m.whole, NEW s \in Touched(m.patches), Undisputed(s, Here)
               PROVE  LET here == Reading(inbox'[t], Look(store'[t][s], Here), s, Here, i - 1)
                      IN  /\ Creates(m.patches, s) => here = 0
                          /\ here = 0 /\ m.snapshots[s] # Absent =>
                               \A c \in Cell : Undisputed(s, c) =>
                                  Look(m.snapshots[s], c) = Gives(m.patches, s, c)
      BY <1>4, <2>2, <2>3 DEF SoundPost
  <2>6. s \in Subject
      BY <2>5, TouchedAreSubjects DEF Post
  <2>7. Reading(inbox'[t], Look(store'[t][s], Here), s, Here, i - 1)
            = Reading(inbox[t], Look(store[t][s], Here), s, Here, i)
      BY <1>1, <2>1, <2>2, <2>6, HereIsCell, ReceiveRest
  <2>8. LET here == Reading(inbox[t], Look(store[t][s], Here), s, Here, i)
        IN  /\ Creates(m.patches, s) => here = 0
            /\ here = 0 /\ m.snapshots[s] # Absent =>
                 \A c \in Cell : Undisputed(s, c) =>
                    Look(m.snapshots[s], c) = Gives(m.patches, s, c)
      BY <2>4 DEF SoundPost
  <2> QED
      BY <2>7, <2>8
<1>9. ASSUME NEW u \in Open, u # t, NEW i \in DOMAIN inbox[u]
      PROVE  SoundPost(u, i)'
  <2>1. SoundPost(u, i) /\ u \in Tab /\ inbox'[u] = inbox[u] /\ store'[u] = store[u]
      BY <1>1, <1>2, <1>3, <1>9 DEF Sound
  <2>2. i \in Nat \ {0}
      BY <2>1, TypedParts
  <2> QED
      BY <1>1, <2>1, <2>2, SoundStays
<1>10. Sound'
    BY <1>2, <1>3, <1>8, <1>9 DEF Sound
<1> QED
    BY <1>5, <1>7, <1>10

LEMMA AdoptChannel ==
    ASSUME Typed, Channel, NEW t \in Tab, Adopting(t)
    PROVE  Channel'
<1> SUFFICES ASSUME ~raced' PROVE AloneHasRead' /\ Agreed' /\ Sound'
    BY DEF Channel
<1>1. PICK st \in Store : Adopt(t, st)
    BY DEF Adopting
<1>2. PICK m : m = [patches |-> <<>>, whole |-> TRUE, snapshots |-> st]
    OBVIOUS
<1>3. Posted(t, m) /\ Replaced(t, st) /\ Free(t) /\ UNCHANGED <<state, contested>> /\ Settled
    BY <1>1, <1>2 DEF Adopt, Operation, Racing
<1>4. Open' = Open /\ t \in Open /\ Open \subseteq Tab
    BY <1>3 DEF Free, Open
<1>5. \A u \in Open : inbox[u] = <<>>
    BY <1>3 DEF Settled, AtRest
<1>6. inbox'[t] = <<>> /\ store'[t] = st
    BY <1>3, <1>4, <1>5, TypedParts DEF Posted, Replaced
<1>7. ASSUME NEW u \in Open, u # t
      PROVE  /\ Len(inbox'[u]) = 1 /\ DOMAIN inbox'[u] = 1 .. 1 /\ inbox'[u][1] = m
             /\ \A v, s, c : Reading(inbox'[u], v, s, c, 1) = Look(st[s], c)
  <2>1. PICK n \in Nat : /\ n = Len(inbox[u]) /\ n + 1 = Len(inbox'[u])
                         /\ DOMAIN inbox'[u] = 1 .. n + 1
                         /\ inbox'[u][n + 1] = m
      BY <1>3, <1>7, PostedLast
  <2>2. n = 0
      BY <1>5, <2>1
  <2>3. Len(inbox'[u]) = 1 /\ DOMAIN inbox'[u] = 1 .. 1 /\ inbox'[u][1] = m
      BY <2>1, <2>2
  <2> SUFFICES ASSUME NEW v, NEW s, NEW c
               PROVE  Reading(inbox'[u], v, s, c, 1) = Look(st[s], c)
      BY <2>3
  <2>4. PICK p : p = inbox'[u]
      OBVIOUS
  <2>5. p[0 + 1] = m /\ Decides(m, s, c) /\ Shows(m, s, c) = Look(st[s], c)
      BY <1>2, <2>3, <2>4 DEF Decides, Shows
  <2>6. Decides(p[0 + 1], s, c) => Reading(p, v, s, c, 0 + 1) = Shows(p[0 + 1], s, c)
      BY ReadingStep
  <2> QED
      BY <2>4, <2>5, <2>6
<1>8. ASSUME NEW u \in Open, NEW s \in Subject, NEW c \in Cell
      PROVE  InTheEnd(u, s, c)' = Look(st[s], c)
  <2>1. CASE u = t
    <3>1. PICK q, v : q = inbox'[t] /\ v = Look(st[s], c)
        OBVIOUS
    <3>2. Reading(q, v, s, c, 0) = v /\ Len(q) = 0
        BY <1>6, <3>1, ReadingStep
    <3> QED
        BY <1>6, <2>1, <3>1, <3>2 DEF InTheEnd
  <2>2. CASE u # t
    <3>1. PICK v : v = Look(store'[u][s], c)
        OBVIOUS
    <3>2. Reading(inbox'[u], v, s, c, 1) = Look(st[s], c) /\ Len(inbox'[u]) = 1
        BY <1>7, <2>2
    <3>3. InTheEnd(u, s, c)' = Reading(inbox'[u], v, s, c, Len(inbox'[u]))
        BY <3>1 DEF InTheEnd
    <3> QED
        BY <3>2, <3>3
  <2> QED
      BY <2>1, <2>2
<1>9. Agreed'
    BY <1>4, <1>8 DEF Agreed
<1>10. Sound'
  <2>1. DOMAIN inbox'[t] = {}
      BY <1>6
  <2>2. \A u \in Open \ {t} : \A i \in DOMAIN inbox'[u] : inbox'[u][i].whole
      BY <1>2, <1>7
  <2> QED
      BY <1>4, <2>1, <2>2 DEF Sound, SoundPost
<1>11. AloneHasRead'
    BY <1>4, <1>6 DEF AloneHasRead
<1> QED
    BY <1>9, <1>10, <1>11

\* With nothing to read there is nothing to be wrong.
LEMMA NothingToRead ==
    ASSUME \A u \in Open : inbox[u] = <<>>
    PROVE  Sound
<1>1. DOMAIN <<>> = {}
    OBVIOUS
<1> QED
    BY <1>1 DEF Sound

LEMMA GoneChannel ==
    ASSUME Typed, Channel, NEW t \in Tab, Gone(t), Racing(~Alone(t) /\ ~Settled)
    PROVE  Channel'
<1> SUFFICES ASSUME ~raced' PROVE AloneHasRead' /\ Agreed' /\ Sound'
    BY DEF Channel
<1>1. Agreed /\ (Alone(t) \/ Settled)
    BY DEF Racing, Channel
<1>2. Open' = Open \ {t} /\ Open \subseteq Tab
    BY TypedParts DEF Gone, Open
<1>3. \A u \in Open' : inbox'[u] = inbox[u] /\ store'[u] = store[u] /\ contested' = contested
    BY <1>2, TypedParts DEF Gone
<1>4. \A u \in Open' : inbox'[u] = <<>>
    BY <1>1, <1>2, <1>3 DEF Alone, Settled, AtRest
<1>5. AloneHasRead'
    BY <1>4 DEF AloneHasRead
<1>6. Agreed'
    BY <1>1, <1>2, <1>3 DEF Agreed, InTheEnd, Undisputed
<1>7. Sound'
  <2>1. DOMAIN <<>> = {}
      OBVIOUS
  <2> QED
      BY <1>4, <2>1 DEF Sound
<1> QED
    BY <1>5, <1>6, <1>7

LEMMA ReplaceChannel ==
    ASSUME Typed, Channel, NEW t \in Tab, Replacing(t)
    PROVE  Channel'
<1> SUFFICES ASSUME ~raced' PROVE AloneHasRead' /\ Agreed' /\ Sound'
    BY DEF Channel
<1>1. PICK st \in Store : Replace(t, st) /\ Free(t)
    BY DEF Replacing
<1>2. /\ Alone(t) /\ AloneHasRead /\ inbox' = inbox
      /\ state' = [state EXCEPT ![t] = "leaving"]
    BY <1>1 DEF Replace, Racing, Channel
<1>3. t \in Open /\ Open = {t} /\ Open' = {t}
    BY <1>1, <1>2, TypedParts DEF Free, Alone, Open
<1>4. inbox'[t] = <<>>
    BY <1>2, <1>3 DEF AloneHasRead
<1>5. Agreed'
    BY <1>3 DEF Agreed
<1>6. AloneHasRead'
    BY <1>3, <1>4 DEF AloneHasRead
<1>7. Sound'
  <2>1. DOMAIN <<>> = {}
      OBVIOUS
  <2> QED
      BY <1>3, <1>4, <2>1 DEF Sound
<1> QED
    BY <1>5, <1>6, <1>7

LEMMA ChannelStays ==
    ASSUME Channel, UNCHANGED <<state, store, inbox, contested>>, raced => raced'
    PROVE  Channel'
<1>1. Open' = Open
    BY DEF Open
<1>2. AloneHasRead => AloneHasRead'
    BY <1>1 DEF AloneHasRead
<1>3. Agreed => Agreed'
    BY <1>1 DEF Agreed, InTheEnd, Undisputed
<1>4. Sound => Sound'
    BY <1>1 DEF Sound, SoundPost, Undisputed
<1> QED
    BY <1>2, <1>3, <1>4 DEF Channel

-----------------------------------------------------------------------------
(* What localStorage holds of what the tabs show. *)

\* The tab t has yet to write the record of s, or to read of it.
Pending(t, s) ==
    /\ s \in dirty[t] /\ (saving[t].on => s \in saving[t].writes)
    /\ store[t][s] # Absent \/ s \in known[t]
Unread(t, s) == \E i \in DOMAIN inbox[t] : Decides(inbox[t][i], s, Here)
Quiet(s) == \A t \in Open : ~Unread(t, s) /\ ~Pending(t, s)

\* A record that nobody has to write, nor to read, is on disk where tabs show it.
QuietSaved(s) ==
    Undisputed(s, Here) /\ Quiet(s) =>
       \A t \in Open : store[t][s] # Absent =>
          \A c \in Cell : Undisputed(s, c) => Look(disk.records[s], c) = Look(store[t][s], c)
QuietIsSaved == \A s \in Subject : QuietSaved(s)

\* A record that the list brings back is known to a tab.
ListedIsKnown ==
    \A s \in Subject :
       Undisputed(s, Here) /\ Open # {} /\ s \in disk.list /\ disk.records[s] # Absent =>
          \E t \in Open : s \in known[t]

\* A record that every tab knows is listed, or a tab will list it, or cannot save.
Waiting(t, s) ==
    /\ s \in dirty[t]
    /\ paused[t] \/ (saving[t].on /\ saving[t].relist /\ s \in saving[t].list)
ShownIsListed ==
    \A s \in Subject :
       Undisputed(s, Here) /\ Open # {} =>
          s \in disk.list \/ \E t \in Open : s \notin known[t] \/ Waiting(t, s)

OnDisk == ~raced => QuietIsSaved /\ ListedIsKnown /\ ShownIsListed

\* What is not about a record is not about any of its cells.
LEMMA QuietReads ==
    ASSUME Typed, NEW t \in Tab, NEW s, NEW c, ~Unread(t, s)
    PROVE  InTheEnd(t, s, c) = Look(store[t][s], c)
<1>1. PICK n \in Nat : n = Len(inbox[t]) /\ DOMAIN inbox[t] = 1 .. n
    BY TypedParts
<1>2. ASSUME NEW j \in 1 .. n
      PROVE  ~Decides(inbox[t][j], s, c)
  <2>1. inbox[t][j] \in Post /\ j \in DOMAIN inbox[t]
      BY <1>1, TypedParts
  <2>2. PICK m : m = inbox[t][j]
      OBVIOUS
  <2>3. m \in Post /\ ~m.whole /\ s \notin Touched(m.patches)
      BY <2>1, <2>2, HereIsCell DEF Unread, Decides, Bears
  <2> QED
      BY <2>2, <2>3, BearsTouched DEF Decides, Post
<1>3. PICK q, v : q = inbox[t] /\ v = Look(store[t][s], c)
    OBVIOUS
<1>4. Reading(q, v, s, c, n) = v
    BY <1>2, <1>3, ReadingQuiet
<1> QED
    BY <1>1, <1>3, <1>4 DEF InTheEnd

\* Of a record that is not waiting to be saved, nor read, a reload gives what the
\* tabs show.
LEMMA CellSaved ==
    ASSUME Typed, Books, ContestedWhole, Agreed, QuietIsSaved, ListedIsKnown, ShownIsListed,
           NEW s \in Subject, NEW c \in Cell, Undisputed(s, c),
           \A u \in Open : ~Unread(u, s) /\ s \notin dirty[u], NEW t \in Open
    PROVE  Look(store[t][s], c) = Look(Loaded[s], c)
<1>1. Undisputed(s, Here) /\ Here \in Cell /\ Open \subseteq Tab
    BY DisputedCells, HereIsCell, OpenTabs
<1>2. Quiet(s)
    BY DEF Quiet, Pending
<1>3. \A u \in Open : Look(store[u][s], Here) = Look(store[t][s], Here)
    BY <1>1, QuietReads DEF Agreed
<1>4. \A u \in Open : store[u][s] = Absent <=> store[t][s] = Absent
    BY <1>3 DEF Look, Here
<1>5. \A u \in Open : s \in known[u] <=> store[t][s] # Absent
    BY <1>1, <1>4 DEF Books, BookOf, KnownIsShown
<1>6. CASE s \notin disk.list
  <2>1. store[t][s] = Absent
      BY <1>1, <1>5, <1>6 DEF ShownIsListed, Waiting
  <2> QED
      BY <1>6, <2>1 DEF Loaded
<1>7. CASE s \in disk.list /\ store[t][s] # Absent
    BY <1>1, <1>2, <1>7 DEF QuietIsSaved, QuietSaved, Loaded
<1>8. CASE s \in disk.list /\ store[t][s] = Absent
  <2>1. disk.records[s] = Absent
      BY <1>1, <1>5, <1>8 DEF ListedIsKnown
  <2> QED
      BY <1>8, <2>1 DEF Loaded
<1> QED
    BY <1>6, <1>7, <1>8

\* And so in every place.
LEMMA PlaceSaved ==
    ASSUME Typed, Books, ContestedWhole, Agreed, QuietIsSaved, ListedIsKnown, ShownIsListed,
           NEW t \in Open, NEW x \in Differ(store[t], Loaded), x \notin contested,
           \A u \in Open : ~Unread(u, x[1]) /\ x[1] \notin dirty[u]
    PROVE  FALSE
<1>1. PICK s \in Subject, f \in Field \cup {NoTarget} : x = <<s, f>>
    BY DEF Differ, Places
<1>2. x[1] = s /\ x \in Places
    BY <1>1 DEF Differ
<1>3. Undisputed(s, Here)
  <2>1. <<s, NoTarget>> \notin contested
      BY <1>1 DEF ContestedWhole
  <2> QED
      BY <2>1, HereIsCell DEF Undisputed
<1>4. ASSUME NEW c \in Cell, Undisputed(s, c)
      PROVE  Look(store[t][s], c) = Look(Loaded[s], c)
    BY <1>2, <1>4, CellSaved
<1>5. store[t] \in Store /\ Loaded \in Store
    BY OpenTabs, TypedParts, StoresAreStores
<1>6. Look(store[t][s], Here) = Look(Loaded[s], Here)
    BY <1>3, <1>4, HereIsCell
<1>7. \A c \in Cell : PlaceOf(s, c) = x => Look(store[t][s], c) = Look(Loaded[s], c)
    BY <1>4 DEF Undisputed
<1>8. At(store[t], x) = At(Loaded, x)
    BY <1>2, <1>5, <1>6, <1>7, CellsMakePlaces
<1> QED
    BY <1>8 DEF Differ

\* With nothing under way there is nothing to read and nothing to save.
LEMMA SettledQuiet ==
    ASSUME Settled
    PROVE  \A u \in Open : /\ inbox[u] = <<>> /\ dirty[u] = {}
                           /\ \A s : ~Unread(u, s) /\ ~Pending(u, s)
<1>1. DOMAIN <<>> = {}
    OBVIOUS
<1> QED
    BY <1>1 DEF Settled, AtRest, Unread, Pending

\* The tab that opens shows what is on disk, and so do the others.
LEMMA OpenChannel ==
    ASSUME Typed, Books, ContestedWhole, Channel, OnDisk, NEW t \in Tab, OpenTab(t)
    PROVE  Channel'
<1> SUFFICES ASSUME ~raced' PROVE AloneHasRead' /\ Agreed' /\ Sound'
    BY DEF Channel
<1>1. Agreed /\ Settled /\ QuietIsSaved /\ ListedIsKnown /\ ShownIsListed
    BY DEF OpenTab, Racing, Channel, OnDisk
<1>2. Open' = Open \cup {t} /\ Open \subseteq Tab /\ t \notin Open
    BY TypedParts DEF OpenTab, Open
<1>3. /\ store'[t] = Loaded /\ \A u \in Open : store'[u] = store[u]
      /\ inbox' = inbox /\ contested' = contested
    BY <1>2, TypedParts DEF OpenTab
<1>4. \A u \in Open \cup {t} : inbox[u] = <<>>
    BY <1>1, SettledQuiet DEF Books, BookOf, OpenTab
<1>5. AloneHasRead'
    BY <1>2, <1>3, <1>4 DEF AloneHasRead
<1>6. Sound'
  <2>1. DOMAIN <<>> = {}
      OBVIOUS
  <2> QED
      BY <1>2, <1>3, <1>4, <2>1 DEF Sound
<1>7. ASSUME NEW u \in Open \cup {t}, NEW s \in Subject, NEW c \in Cell, Undisputed(s, c)
      PROVE  InTheEnd(u, s, c)' = Look(Loaded[s], c)
  <2>1. Look(store'[u][s], c) = Look(Loaded[s], c)
    <3>1. CASE u = t
        BY <1>3, <3>1
    <3>2. CASE u \in Open
      <4>1. \A v \in Open : ~Unread(v, s) /\ s \notin dirty[v]
          BY <1>1, SettledQuiet
      <4>2. Look(store[u][s], c) = Look(Loaded[s], c)
          BY <1>1, <1>7, <3>2, <4>1, CellSaved
      <4> QED
          BY <1>3, <3>2, <4>2
    <3> QED
        BY <3>1, <3>2
  <2>2. PICK q, v : q = inbox'[u] /\ v = Look(store'[u][s], c)
      OBVIOUS
  <2>3. Reading(q, v, s, c, 0) = v /\ q = <<>>
      BY <1>3, <1>4, <2>2, ReadingStep
  <2>4. Len(q) = 0
      BY <2>3
  <2> QED
      BY <2>1, <2>2, <2>3, <2>4 DEF InTheEnd
<1>8. Agreed'
    BY <1>2, <1>3, <1>7 DEF Agreed, Undisputed
<1> QED
    BY <1>5, <1>6, <1>8

-----------------------------------------------------------------------------
(* The disk, step by step. *)

LEMMA ListedStays ==
    ASSUME ListedIsKnown, disk' = disk, Open' = Open, known' = known,
           contested \subseteq contested'
    PROVE  ListedIsKnown'
    BY DEF ListedIsKnown, Undisputed

LEMMA ShownStays ==
    ASSUME ShownIsListed, disk' = disk, Open' = Open, known' = known,
           \A t \in Open : /\ dirty[t] \subseteq dirty'[t]
                           /\ paused[t] => paused'[t]
                           /\ saving[t].on => paused'[t] \/ saving'[t] = saving[t],
           contested \subseteq contested'
    PROVE  ShownIsListed'
<1>1. \A t \in Open : \A s : Waiting(t, s) => Waiting(t, s)'
    BY DEF Waiting
<1> SUFFICES ASSUME NEW s \in Subject, Undisputed(s, Here)', Open' # {}
             PROVE  s \in disk'.list \/ \E t \in Open' : s \notin known'[t] \/ Waiting(t, s)'
    BY DEF ShownIsListed
<1>2. Undisputed(s, Here)
    BY DEF Undisputed
<1>3. s \in disk.list \/ \E t \in Open : s \notin known[t] \/ Waiting(t, s)
    BY <1>2 DEF ShownIsListed
<1> QED
    BY <1>1, <1>3

\* A record whose tabs have not changed it, nor begun to be quiet about it.
LEMMA QuietStays ==
    ASSUME NEW s, QuietSaved(s), Quiet(s)' => Quiet(s),
           disk'.records[s] = disk.records[s],
           \A t \in Open' : t \in Open /\ store'[t][s] = store[t][s],
           contested \subseteq contested'
    PROVE  QuietSaved(s)'
    BY DEF QuietSaved, Undisputed

\* A record that is not there any more.
LEMMA QuietAbsent ==
    ASSUME NEW s, Undisputed(s, Here)' /\ Quiet(s)' => \A t \in Open' : store'[t][s] = Absent
    PROVE  QuietSaved(s)'
    BY DEF QuietSaved

\* A tab at work whose record is neither unsaved nor unread shows none.
LEMMA WorkerQuiet ==
    ASSUME NEW t, NEW s, t \in Open', Quiet(s)', s \in dirty'[t],
           saving'[t].on => s \in saving'[t].writes
    PROVE  store'[t][s] = Absent
    BY DEF Quiet, Pending

\* When one open tab shows no such record, nor does any other that has read of it.
LEMMA AllAbsent ==
    ASSUME Typed, Agreed, NEW t \in Open, NEW s \in Subject,
           Undisputed(s, Here), Quiet(s), store[t][s] = Absent
    PROVE  \A u \in Open : store[u][s] = Absent
<1>1. \A u \in Open : Look(store[u][s], Here) = Look(store[t][s], Here)
    BY OpenTabs, HereIsCell, QuietReads DEF Agreed, Quiet
<1> QED
    BY <1>1 DEF Look, Here

LEMMA AllAbsentNext ==
    ASSUME NEW t, NEW s \in Subject
    PROVE  (Typed /\ Agreed /\ t \in Open
              /\ Undisputed(s, Here) /\ Quiet(s) /\ store[t][s] = Absent
            => \A u \in Open : store[u][s] = Absent)'
<1>1. Typed /\ Agreed /\ t \in Open
         /\ Undisputed(s, Here) /\ Quiet(s) /\ store[t][s] = Absent
      => \A u \in Open : store[u][s] = Absent
    BY AllAbsent
<1> QED
    BY <1>1, PTL

LEMMA OnDiskInit == Init => OnDisk
<1>1. Init => Open = {}
    BY DEF Init, Open
<1> QED
    BY <1>1 DEF OnDisk, QuietIsSaved, QuietSaved, ListedIsKnown, ShownIsListed

LEMMA BroadcastOnDisk ==
    ASSUME Typed, Typed', Channel, Channel', OnDisk, NEW t \in Tab, NEW b, Broadcast(t, b)
    PROVE  OnDisk'
<1> SUFFICES ASSUME ~raced' PROVE QuietIsSaved' /\ ListedIsKnown' /\ ShownIsListed'
    BY DEF OnDisk
<1>1. /\ QuietIsSaved /\ ListedIsKnown /\ ShownIsListed /\ Free(t)
      /\ disk' = disk /\ known' = known /\ saving' = saving /\ paused' = paused
    BY DEF Broadcast, Racing, OnDisk, saves
<1>2. Open' = Open /\ t \in Open /\ Open \subseteq Tab
    BY DEF Broadcast, Free, Open
<1>3. contested \subseteq contested'
    BY ContestedGrows DEF Broadcast
<1>4. /\ dirty'[t] = dirty[t] \cup Touched(b)
      /\ \A s \in Subject \ Touched(b) : store'[t][s] = store[t][s]
      /\ \A u \in Tab \ {t} : store'[u] = store[u] /\ dirty'[u] = dirty[u]
    BY BroadcastIsDirty
<1>5. ListedIsKnown'
    BY <1>1, <1>2, <1>3, ListedStays
<1>6. ShownIsListed'
  <2>1. \A u \in Open : dirty[u] \subseteq dirty'[u] /\ saving'[u] = saving[u]
      BY <1>1, <1>2, <1>4
  <2> QED
      BY <1>1, <1>2, <1>3, <2>1, ShownStays
<1>7. PICK m : m = Message(b, store'[t])
    OBVIOUS
<1>8. Posted(t, m) /\ ~m.whole /\ m.patches = b /\ inbox'[t] = inbox[t]
  <2>1. Posted(t, m)
      BY <1>7 DEF Broadcast
  <2> QED
      BY <1>7, <2>1, TypedParts DEF Posted, Message
<1>9. ASSUME NEW u \in Open, u # t, NEW s
      PROVE  Unread(u, s)' <=> Unread(u, s) \/ s \in Touched(b)
  <2>1. PICK n \in Nat : /\ DOMAIN inbox[u] = 1 .. n /\ DOMAIN inbox'[u] = 1 .. n + 1
                         /\ inbox'[u][n + 1] = m
                         /\ \A j \in 1 .. n : inbox'[u][j] = inbox[u][j]
      BY <1>8, <1>9, PostedLast
  <2>2. Decides(m, s, Here) <=> s \in Touched(b)
      BY <1>8, HereIsCell DEF Decides, Bears
  <2>3. \A j : j \in DOMAIN inbox'[u] <=> j \in DOMAIN inbox[u] \/ j = n + 1
      BY <2>1
  <2> QED
      BY <2>1, <2>2, <2>3 DEF Unread
<1>10. ASSUME NEW s \in Subject
       PROVE  QuietSaved(s)'
  <2>1. CASE s \in Touched(b)
    <3>1. ASSUME Quiet(s)'
          PROVE  \A u \in Open : store'[u][s] = Absent
      <4>1. store'[t][s] = Absent
          BY <1>1, <1>2, <1>4, <2>1, <3>1, WorkerQuiet DEF Free
      <4>2. \A u \in Open : u = t
          BY <1>2, <1>9, <2>1, <3>1 DEF Quiet
      <4> QED
          BY <4>1, <4>2
    <3> QED
        BY <1>2, <3>1, QuietAbsent
  <2>2. CASE s \notin Touched(b)
    <3>1. \A u \in Open : store'[u][s] = store[u][s] /\ (s \in dirty'[u] <=> s \in dirty[u])
        BY <1>2, <1>4, <2>2
    <3>2. \A u \in Open : Unread(u, s)' <=> Unread(u, s)
        BY <1>8, <1>9, <2>2 DEF Unread
    <3>3. \A u \in Open : Pending(u, s)' <=> Pending(u, s)
        BY <1>1, <3>1 DEF Pending
    <3>4. Quiet(s)' => Quiet(s)
        BY <1>2, <3>2, <3>3 DEF Quiet
    <3>5. QuietSaved(s)
        BY <1>1 DEF QuietIsSaved
    <3> QED
        BY <1>1, <1>2, <1>3, <3>1, <3>4, <3>5, QuietStays
  <2> QED
      BY <2>1, <2>2
<1> QED
    BY <1>5, <1>6, <1>10 DEF QuietIsSaved

\* A tab that reads of a record marks it.
LEMMA ReceiveMarks ==
    ASSUME Typed, ContestedWhole, Sound, NEW t \in Tab, Receive(t),
           NEW s \in Subject, Undisputed(s, Here)
    PROVE  /\ Decides(inbox[t][1], s, Here) => s \in dirty'[t] \/ store'[t][s] = Absent
           /\ ~Decides(inbox[t][1], s, Here) =>
                 store'[t][s] = store[t][s] /\ (s \in dirty'[t] <=> s \in dirty[t])
<1>1. PICK m : m = Head(inbox[t])
    OBVIOUS
<1>2. /\ m \in Post /\ m = inbox[t][1] /\ m.snapshots \in Store /\ m.patches \in Batch
      /\ 1 \in DOMAIN inbox[t]
  <2>1. m \in Post /\ m = inbox[t][1] /\ 1 \in DOMAIN inbox[t]
      BY <1>1, ReceiveReads
  <2> QED
      BY <2>1 DEF Post
<1>3. store \in [Tab -> Store] /\ store[t] \in Store /\ dirty \in [Tab -> SUBSET Subject]
    BY TypedParts
<1>4. CASE m.whole
  <2>1. Replaced(t, m.snapshots)
      BY <1>1, <1>4 DEF Receive
  <2> QED
      BY <1>2, <1>3, <1>4, <2>1 DEF Replaced, Present, Decides
<1>5. CASE ~m.whole
  <2>1. PICK b, d : b = m.patches /\ d = WithoutDuplicates(m.patches, store[t])
      OBVIOUS
  <2>2. b \in Batch /\ d \in Batch /\ Touched(d) \subseteq Touched(b)
      BY <1>2, <2>1, WithoutDuplicatesIsBatch
  <2>3. External(t, m.patches, m.snapshots)
      BY <1>1, <1>5 DEF Receive
  <2>4. /\ store'[t] = Recovered(d, store[t], m.snapshots)
        /\ dirty'[t] = dirty[t] \cup Touched(d)
      BY <1>3, <2>1, <2>3 DEF External
  <2>5. Decides(m, s, Here) <=> s \in Touched(b)
      BY <1>5, <2>1, HereIsCell DEF Decides, Bears
  <2>6. CASE s \notin Touched(b)
    <3>1. PICK n \in Nat : IsBatch(d, n)
        BY <2>2, BatchIsBatch
    <3>2. After(d, s, store[t][s], BrowserFresh) = store[t][s] /\ s \notin Touched(d)
        BY <2>2, <2>6, <3>1, UntouchedStays
    <3> QED
        BY <1>2, <2>4, <2>5, <2>6, <3>2 DEF Recovered, Missed
  <2>7. CASE s \in Touched(b)
    <3>1. SoundPost(t, 1) /\ t \in Open
        BY <1>2 DEF Sound, Receive, Free, Open
    <3>2. PICK v : v = Look(store[t][s], Here)
        OBVIOUS
    <3>3. Reading(inbox[t], v, s, Here, 1 - 1) = v
        BY ReadingStep
    <3>4. Creates(b, s) => v = 0
        BY <1>2, <1>5, <2>1, <2>7, <3>1, <3>2, <3>3 DEF SoundPost
    <3>5. v = 0 <=> store[t][s] = Absent
        BY <3>2 DEF Look, Here
    <3>6. s \in Touched(d)
        BY <2>1, <2>2, <2>7, <3>4, <3>5, DuplicatesAside
    <3> QED
        BY <1>2, <2>4, <2>5, <2>7, <3>6
  <2> QED
      BY <2>6, <2>7
<1> QED
    BY <1>2, <1>4, <1>5 DEF Post

LEMMA ReceiveOnDisk ==
    ASSUME Typed, Typed', ContestedWhole, Channel, Channel', OnDisk, NEW t \in Tab, Receive(t)
    PROVE  OnDisk'
<1> SUFFICES ASSUME ~raced' PROVE QuietIsSaved' /\ ListedIsKnown' /\ ShownIsListed'
    BY DEF OnDisk
<1>1. /\ QuietIsSaved /\ ListedIsKnown /\ ShownIsListed /\ Free(t) /\ Sound /\ Agreed'
      /\ disk' = disk /\ known' = known /\ saving' = saving /\ paused' = paused
      /\ contested' = contested
    BY DEF Receive, history, OnDisk, Channel, saves
<1>2. Open' = Open /\ t \in Open /\ Open \subseteq Tab
    BY DEF Receive, Free, Open
<1>3. \A u \in Tab \ {t} : store'[u] = store[u] /\ inbox'[u] = inbox[u] /\ dirty'[u] = dirty[u]
    BY TypedParts DEF Receive, External, Replaced
<1>4. dirty[t] \subseteq dirty'[t]
    BY TypedParts DEF Receive, External, Replaced
<1>5. ListedIsKnown'
    BY <1>1, <1>2, ListedStays
<1>6. ShownIsListed'
  <2>1. \A u \in Open : dirty[u] \subseteq dirty'[u] /\ saving'[u] = saving[u]
      BY <1>1, <1>2, <1>3, <1>4
  <2> QED
      BY <1>1, <1>2, <2>1, ShownStays
<1>7. ASSUME NEW s \in Subject
      PROVE  QuietSaved(s)'
  <2>1. CASE ~Undisputed(s, Here)
      BY <1>1, <2>1 DEF QuietSaved, Undisputed
  <2>2. CASE Undisputed(s, Here) /\ Decides(inbox[t][1], s, Here)
    <3>1. ASSUME Undisputed(s, Here)', Quiet(s)'
          PROVE  \A u \in Open' : store'[u][s] = Absent
      <4>1. s \in dirty'[t] \/ store'[t][s] = Absent
          BY <1>1, <2>2, ReceiveMarks
      <4>2. store'[t][s] = Absent /\ t \in Open'
          BY <1>1, <1>2, <3>1, <4>1, WorkerQuiet DEF Free
      <4> QED
          BY <1>1, <3>1, <4>2, AllAbsentNext
    <3> QED
        BY <3>1, QuietAbsent
  <2>3. CASE Undisputed(s, Here) /\ ~Decides(inbox[t][1], s, Here)
    <3>1. store'[t][s] = store[t][s] /\ (s \in dirty'[t] <=> s \in dirty[t])
        BY <1>1, <2>3, ReceiveMarks
    <3>2. \A u \in Open : store'[u][s] = store[u][s] /\ (s \in dirty'[u] <=> s \in dirty[u])
        BY <1>2, <1>3, <3>1
    <3>3. \A u \in Open : Unread(u, s) => Unread(u, s)'
      <4>1. ASSUME Unread(t, s)
            PROVE  Unread(t, s)'
        <5>1. PICK i \in DOMAIN inbox[t] : Decides(inbox[t][i], s, Here)
            BY <4>1 DEF Unread
        <5>2. /\ inbox'[t] = Tail(inbox[t]) /\ inbox[t] \in Seq(Post)
              /\ Len(inbox'[t]) = Len(inbox[t]) - 1
              /\ \A j \in 1 .. Len(inbox[t]) - 1 : inbox'[t][j] = inbox[t][j + 1]
              /\ inbox'[t] \in Seq(Post) /\ DOMAIN inbox'[t] = 1 .. Len(inbox[t]) - 1
          <6>1. /\ inbox' = [inbox EXCEPT ![t] = Tail(@)] /\ inbox[t] \in Seq(Post)
                /\ Tail(inbox[t]) \in Seq(Post) /\ Len(Tail(inbox[t])) = Len(inbox[t]) - 1
                /\ \A j \in 1 .. Len(inbox[t]) - 1 : Tail(inbox[t])[j] = inbox[t][j + 1]
              BY ReceiveReads
          <6>2. inbox'[t] = Tail(inbox[t])
              BY <6>1, TypedParts
          <6>3. PICK q, k : q = Tail(inbox[t]) /\ k = Len(inbox[t]) - 1
              OBVIOUS
          <6>4. q \in Seq(Post) /\ Len(q) = k
              BY <6>1, <6>3
          <6>5. DOMAIN q = 1 .. k
              BY <6>4
          <6> QED
              BY <6>1, <6>2, <6>3, <6>4, <6>5
        <5>3. i # 1 /\ i \in 1 .. Len(inbox[t]) /\ Len(inbox[t]) \in Nat
            BY <2>3, <5>1, <5>2
        <5>4. PICK j : j = i - 1
            OBVIOUS
        <5>5. j \in 1 .. Len(inbox[t]) - 1 /\ j + 1 = i
            BY <5>3, <5>4
        <5>6. inbox'[t][j] = inbox[t][i] /\ j \in DOMAIN inbox'[t]
            BY <5>2, <5>5
        <5> QED
            BY <5>1, <5>6 DEF Unread
      <4>2. \A u \in Open \ {t} : Unread(u, s)' <=> Unread(u, s)
          BY <1>2, <1>3 DEF Unread
      <4> QED
          BY <4>1, <4>2
    <3>4. \A u \in Open : Pending(u, s)' <=> Pending(u, s)
        BY <1>1, <3>2 DEF Pending
    <3>5. Quiet(s)' => Quiet(s)
        BY <1>2, <3>3, <3>4 DEF Quiet
    <3>6. QuietSaved(s)
        BY <1>1 DEF QuietIsSaved
    <3> QED
        BY <1>1, <1>2, <3>2, <3>5, <3>6, QuietStays
  <2> QED
      BY <2>1, <2>2, <2>3
<1> QED
    BY <1>5, <1>6, <1>7 DEF QuietIsSaved

LEMMA AdoptOnDisk ==
    ASSUME Typed, OnDisk, NEW t \in Tab, Adopting(t)
    PROVE  OnDisk'
<1> SUFFICES ASSUME ~raced' PROVE QuietIsSaved' /\ ListedIsKnown' /\ ShownIsListed'
    BY DEF OnDisk
<1>1. PICK st \in Store : Adopt(t, st)
    BY DEF Adopting
<1>2. PICK m : m = [patches |-> <<>>, whole |-> TRUE, snapshots |-> st]
    OBVIOUS
<1>3. /\ Posted(t, m) /\ Replaced(t, st) /\ Free(t) /\ UNCHANGED <<disk, state, contested>>
      /\ known' = known /\ saving' = saving /\ paused' = paused
      /\ ListedIsKnown /\ ShownIsListed
    BY <1>1, <1>2 DEF Adopt, Operation, Racing, OnDisk, saves
<1>4. Open' = Open /\ t \in Open /\ Open \subseteq Tab
    BY <1>3 DEF Free, Open
<1>5. /\ store'[t] = st /\ dirty'[t] = dirty[t] \cup Present(store[t]) \cup Present(st)
      /\ \A u \in Tab \ {t} : dirty'[u] = dirty[u]
    BY <1>3, TypedParts DEF Replaced
<1>6. ListedIsKnown'
    BY <1>3, <1>4, ListedStays
<1>7. ShownIsListed'
  <2>1. \A u \in Open : dirty[u] \subseteq dirty'[u] /\ saving'[u] = saving[u]
      BY <1>3, <1>4, <1>5
  <2> QED
      BY <1>3, <1>4, <2>1, ShownStays
<1>8. ASSUME NEW s \in Subject
      PROVE  QuietSaved(s)'
  <2>1. ASSUME Quiet(s)'
        PROVE  \A u \in Open' : store'[u][s] = Absent
    <3>1. ASSUME NEW u \in Open, u # t
          PROVE  FALSE
      <4>1. PICK n \in Nat : DOMAIN inbox'[u] = 1 .. n + 1 /\ inbox'[u][n + 1] = m
          BY <1>3, <3>1, PostedLast
      <4>2. n + 1 \in DOMAIN inbox'[u] /\ Decides(inbox'[u][n + 1], s, Here)
          BY <1>2, <4>1 DEF Decides
      <4> QED
          BY <1>4, <2>1, <3>1, <4>2 DEF Quiet, Unread
    <3>2. store'[t][s] = Absent \/ s \in dirty'[t]
        BY <1>5 DEF Present
    <3>3. store'[t][s] = Absent
        BY <1>3, <1>4, <2>1, <3>2, WorkerQuiet DEF Free
    <3> QED
        BY <1>4, <3>1, <3>3
  <2> QED
      BY <2>1, QuietAbsent
<1> QED
    BY <1>6, <1>7, <1>8 DEF QuietIsSaved

LEMMA ReplaceOnDisk ==
    ASSUME Typed, OnDisk, NEW t \in Tab, Replacing(t)
    PROVE  OnDisk'
<1> SUFFICES ASSUME ~raced' PROVE QuietIsSaved' /\ ListedIsKnown' /\ ShownIsListed'
    BY DEF OnDisk
<1>1. PICK st \in Store : Replace(t, st) /\ Free(t)
    BY DEF Replacing
<1>2. /\ Alone(t) /\ ListedIsKnown /\ ShownIsListed /\ Replaced(t, st)
      /\ UNCHANGED <<disk, known, paused, contested>>
      /\ state' = [state EXCEPT ![t] = "leaving"]
      /\ paused[t] \/ Begin(t, dirty'[t], st)
      /\ paused[t] => saving' = saving
    BY <1>1 DEF Replace, Racing, OnDisk
<1>3. t \in Open /\ Open = {t} /\ Open' = {t}
    BY <1>1, <1>2, TypedParts DEF Free, Alone, Open
<1>4. store'[t] = st /\ dirty'[t] = dirty[t] \cup Present(store[t]) \cup Present(st)
    BY <1>2, TypedParts DEF Replaced
<1>5. ListedIsKnown'
    BY <1>2, <1>3, ListedStays
<1>6. ShownIsListed'
  <2>1. \A u \in Open : /\ dirty[u] \subseteq dirty'[u]
                        /\ paused[u] => paused'[u]
                        /\ ~saving[u].on
      BY <1>1, <1>2, <1>3, <1>4 DEF Free
  <2> QED
      BY <1>2, <1>3, <2>1, ShownStays
<1>7. ASSUME NEW s \in Subject, Quiet(s)'
      PROVE  store'[t][s] = Absent
  <2>1. store'[t][s] = Absent \/ s \in dirty'[t]
      BY <1>4 DEF Present
  <2>2. CASE paused[t]
    <3>1. ~saving'[t].on
        BY <1>1, <1>2, <2>2 DEF Free
    <3> QED
        BY <1>3, <1>7, <2>1, <3>1, WorkerQuiet
  <2>3. CASE Begin(t, dirty'[t], st)
    <3>1. saving'[t].writes = {x \in dirty'[t] : st[x] # Absent \/ x \in known[t]}
        BY <2>3, TypedParts DEF Begin, Writes
    <3>2. store'[t][s] = Absent \/ s \in saving'[t].writes
        BY <1>4, <2>1, <3>1
    <3> QED
        BY <1>3, <1>7, <2>1, <3>2, WorkerQuiet
  <2> QED
      BY <1>2, <2>2, <2>3
<1>8. \A s \in Subject : QuietSaved(s)'
    BY <1>3, <1>7, QuietAbsent
<1> QED
    BY <1>5, <1>6, <1>8 DEF QuietIsSaved

LEMMA PersistOnDisk ==
    ASSUME Typed, OnDisk, NEW t \in Tab, Persist(t)
    PROVE  OnDisk'
<1> SUFFICES ASSUME ~raced' PROVE QuietIsSaved' /\ ListedIsKnown' /\ ShownIsListed'
    BY DEF OnDisk
<1>1. /\ QuietIsSaved /\ ListedIsKnown /\ ShownIsListed /\ Free(t)
      /\ UNCHANGED <<disk, state, store, dirty, known, paused, inbox, contested>>
      /\ Begin(t, dirty[t], store[t])
    BY DEF Persist, memory, history, OnDisk
<1>2. Open' = Open
    BY <1>1 DEF Open
<1>3. /\ saving'[t].writes = {s \in dirty[t] : store[t][s] # Absent \/ s \in known[t]}
      /\ \A u \in Tab \ {t} : saving'[u] = saving[u]
    BY <1>1, TypedParts DEF Begin, Writes
<1>4. ShownIsListed'
  <2>1. \A u \in Open : saving[u].on => saving'[u] = saving[u]
      BY <1>1, <1>3, OpenTabs DEF Free
  <2> QED
      BY <1>1, <1>2, <2>1, ShownStays
<1>5. ListedIsKnown'
    BY <1>1, <1>2, ListedStays
<1>6. ASSUME NEW s \in Subject
      PROVE  QuietSaved(s)'
  <2>1. \A u \in Open : Pending(u, s) => Pending(u, s)'
    <3>1. Pending(t, s) => Pending(t, s)'
        BY <1>1, <1>3 DEF Pending
    <3>2. \A u \in Open \ {t} : Pending(u, s) => Pending(u, s)'
        BY <1>1, <1>3, OpenTabs DEF Pending
    <3> QED
        BY <3>1, <3>2
  <2>2. Quiet(s)' => Quiet(s)
      BY <1>1, <1>2, <2>1 DEF Quiet, Unread
  <2> QED
      BY <1>1, <1>2, <2>2, QuietStays DEF QuietIsSaved
<1> QED
    BY <1>4, <1>5, <1>6 DEF QuietIsSaved

LEMMA SaveFailsOnDisk ==
    ASSUME Typed, OnDisk, NEW t \in Tab, SaveFails(t)
    PROVE  OnDisk'
<1> SUFFICES ASSUME ~raced' PROVE QuietIsSaved' /\ ListedIsKnown' /\ ShownIsListed'
    BY DEF OnDisk
<1>1. /\ QuietIsSaved /\ ListedIsKnown /\ ShownIsListed
      /\ UNCHANGED <<disk, state, store, dirty, known, inbox, contested>>
      /\ saving[t].on
    BY DEF SaveFails, memory, Racing, OnDisk
<1>2. Open' = Open
    BY <1>1 DEF Open
<1>3. /\ ~saving'[t].on /\ paused'[t]
      /\ \A u \in Tab \ {t} : saving'[u] = saving[u] /\ paused'[u] = paused[u]
    BY TypedParts DEF SaveFails, NotSaving
<1>4. ShownIsListed'
  <2>1. \A u \in Open : /\ paused[u] => paused'[u]
                        /\ saving[u].on => paused'[u] \/ saving'[u] = saving[u]
      BY <1>3, OpenTabs
  <2> QED
      BY <1>1, <1>2, <2>1, ShownStays
<1>5. ListedIsKnown'
    BY <1>1, <1>2, ListedStays
<1>6. ASSUME NEW s \in Subject
      PROVE  QuietSaved(s)'
  <2>1. \A u \in Open : Pending(u, s) => Pending(u, s)'
    <3>1. Pending(t, s) => Pending(t, s)'
        BY <1>1, <1>3 DEF Pending
    <3>2. \A u \in Open \ {t} : Pending(u, s) => Pending(u, s)'
        BY <1>1, <1>3, OpenTabs DEF Pending
    <3> QED
        BY <3>1, <3>2
  <2>2. Quiet(s)' => Quiet(s)
      BY <1>1, <1>2, <2>1 DEF Quiet, Unread
  <2> QED
      BY <1>1, <1>2, <2>2, QuietStays DEF QuietIsSaved
<1> QED
    BY <1>4, <1>5, <1>6 DEF QuietIsSaved

\* One record is written, as the tab shows it, and known or not from then on.
LEMMA WriteRecordOnDisk ==
    ASSUME Typed, Typed', Books, Channel, OnDisk, NEW t \in Tab, WriteRecord(t)
    PROVE  OnDisk'
<1> SUFFICES ASSUME ~raced' PROVE QuietIsSaved' /\ ListedIsKnown' /\ ShownIsListed'
    BY DEF OnDisk
<1>1. /\ QuietIsSaved /\ ListedIsKnown /\ ShownIsListed /\ Agreed
      /\ UNCHANGED <<state, store, dirty, paused, inbox, contested>>
      /\ saving[t].on
    BY DEF WriteRecord, memory, history, OnDisk, Channel
<1>2. Open' = Open /\ Open \subseteq Tab /\ t \in Open
    BY <1>1 DEF Open, Books, BookOf
<1>3. PICK x \in saving[t].writes :
         /\ disk' = [disk EXCEPT !.records[x] = store[t][x]]
         /\ known' = [known EXCEPT ![t] = IF store[t][x] = Absent THEN @ \ {x} ELSE @ \cup {x}]
         /\ saving' = [saving EXCEPT ![t].writes = @ \ {x}]
    BY DEF WriteRecord
<1>4. SaveInProgress(t) /\ x \in dirty[t] /\ x \in Subject
    BY <1>1, <1>3, TypedParts DEF Books, BookOf, SaveInProgress
<1>5. /\ disk'.list = disk.list /\ disk'.records[x] = store[t][x]
      /\ \A s \in Subject \ {x} : disk'.records[s] = disk.records[s]
  <2>1. disk \in [records : Store, list : SUBSET Subject] /\ disk.records \in Store
      BY TypedParts
  <2>2. PICK r : r = [disk.records EXCEPT ![x] = store[t][x]]
      OBVIOUS
  <2>3. disk' = [disk EXCEPT !.records = r]
      BY <1>3, <2>2
  <2>4. disk'.list = disk.list /\ disk'.records = r
      BY <2>1, <2>3
  <2> QED
      BY <1>4, <2>1, <2>2, <2>4 DEF Store
<1>6. /\ known'[t] = IF store[t][x] = Absent THEN known[t] \ {x} ELSE known[t] \cup {x}
      /\ \A u \in Tab \ {t} : known'[u] = known[u] /\ saving'[u] = saving[u]
      /\ saving'[t].on /\ saving'[t].writes = saving[t].writes \ {x}
      /\ saving'[t].list = saving[t].list /\ saving'[t].relist = saving[t].relist
  <2>1. saving[t] \in SavingType /\ saving \in [Tab -> SavingType]
      BY TypedParts DEF SavingType
  <2>2. saving'[t] = [saving[t] EXCEPT !.writes = @ \ {x}]
      BY <1>3, <2>1
  <2>3. \A u \in Tab \ {t} : known'[u] = known[u] /\ saving'[u] = saving[u]
      BY <1>3, TypedParts
  <2>4. known'[t] = IF store[t][x] = Absent THEN known[t] \ {x} ELSE known[t] \cup {x}
      BY <1>3, TypedParts
  <2> QED
      BY <1>1, <2>1, <2>2, <2>3, <2>4 DEF SavingType
<1>7. ListedIsKnown'
  <2> SUFFICES ASSUME NEW s \in Subject, Undisputed(s, Here), s \in disk.list,
                      disk'.records[s] # Absent
               PROVE  \E u \in Open : s \in known'[u]
      BY <1>1, <1>2, <1>5 DEF ListedIsKnown, Undisputed
  <2>1. CASE s = x
      BY <1>2, <1>5, <1>6, <2>1
  <2>2. CASE s # x
    <3>1. PICK u \in Open : s \in known[u]
        BY <1>1, <1>2, <1>5, <2>2 DEF ListedIsKnown
    <3>2. s \in known'[u]
        BY <1>2, <1>6, <2>2, <3>1
    <3> QED
        BY <3>2
  <2> QED
      BY <2>1, <2>2
<1>8. ShownIsListed'
  <2> SUFFICES ASSUME NEW s \in Subject, Undisputed(s, Here)
               PROVE  s \in disk.list \/ \E u \in Open : s \notin known'[u] \/ Waiting(u, s)'
      BY <1>1, <1>2, <1>5 DEF ShownIsListed, Undisputed
  <2>1. \A u \in Open : Waiting(u, s) => Waiting(u, s)'
    <3>1. Waiting(t, s) => Waiting(t, s)'
        BY <1>1, <1>6 DEF Waiting
    <3>2. \A u \in Open \ {t} : Waiting(u, s) => Waiting(u, s)'
        BY <1>1, <1>2, <1>6 DEF Waiting
    <3> QED
        BY <3>1, <3>2
  <2>2. s \in disk.list \/ \E u \in Open : s \notin known[u] \/ Waiting(u, s)
      BY <1>1, <1>2 DEF ShownIsListed
  <2>3. ASSUME NEW u \in Open, s \notin known[u], s \in known'[u]
        PROVE  Waiting(u, s)'
    <3>1. u = t /\ s = x /\ store[t][x] # Absent
        BY <1>2, <1>6, <2>3
    <3>2. saving[t].relist /\ s \in saving[t].list
        BY <1>3, <1>4, <2>3, <3>1 DEF SaveInProgress
    <3> QED
        BY <1>1, <1>4, <1>6, <3>1, <3>2 DEF Waiting
  <2> QED
      BY <2>1, <2>2, <2>3
<1>9. ASSUME NEW s \in Subject, s # x
      PROVE  QuietSaved(s)'
  <2>1. \A u \in Open : Pending(u, s) => Pending(u, s)'
    <3>1. Pending(t, s) => Pending(t, s)'
        BY <1>1, <1>6, <1>9 DEF Pending
    <3>2. \A u \in Open \ {t} : Pending(u, s) => Pending(u, s)'
        BY <1>1, <1>2, <1>6 DEF Pending
    <3> QED
        BY <3>1, <3>2
  <2>2. Quiet(s)' => Quiet(s)
      BY <1>1, <1>2, <2>1 DEF Quiet, Unread
  <2> QED
      BY <1>1, <1>2, <1>5, <1>9, <2>2, QuietStays DEF QuietIsSaved
<1>10. QuietSaved(x)'
  <2> SUFFICES ASSUME Undisputed(x, Here), Quiet(x)', NEW u \in Open, NEW c \in Cell,
                      Undisputed(x, c)
               PROVE  Look(disk'.records[x], c) = Look(store'[u][x], c)
      BY <1>1, <1>2 DEF QuietSaved, Undisputed
  <2>1. ~Unread(u, x) /\ ~Unread(t, x)
      BY <1>1, <1>2 DEF Quiet, Unread
  <2>2. InTheEnd(u, x, c) = InTheEnd(t, x, c)
      BY <1>1, <1>2, <1>4 DEF Agreed
  <2>3. Look(store[u][x], c) = Look(store[t][x], c)
      BY <1>2, <2>1, <2>2, QuietReads
  <2> QED
      BY <1>1, <1>5, <2>3
<1> QED
    BY <1>7, <1>8, <1>9, <1>10 DEF QuietIsSaved

\* The list comes last, and with it the save is over.
LEMMA WriteListOnDisk ==
    ASSUME Typed, Books, OnDisk, NEW t \in Tab, WriteList(t)
    PROVE  OnDisk'
<1> SUFFICES ASSUME ~raced' PROVE QuietIsSaved' /\ ListedIsKnown' /\ ShownIsListed'
    BY DEF OnDisk
<1>1. /\ QuietIsSaved /\ ListedIsKnown /\ ShownIsListed
      /\ UNCHANGED <<state, store, known, paused, inbox, contested>>
      /\ saving[t].on /\ saving[t].writes = {} /\ SaveInProgress(t) /\ ~paused[t]
    BY DEF WriteList, history, OnDisk, Books, BookOf
<1>2. Open' = Open /\ Open \subseteq Tab /\ t \in Open
    BY <1>1 DEF Open, Books, BookOf
<1>3. /\ disk'.records = disk.records
      /\ disk'.list = IF saving[t].relist THEN saving[t].list ELSE disk.list
    BY TypedParts DEF WriteList
<1>4. /\ dirty'[t] = {} /\ ~saving'[t].on
      /\ \A u \in Tab \ {t} : dirty'[u] = dirty[u] /\ saving'[u] = saving[u]
    BY TypedParts DEF WriteList, NotSaving
<1>5. \A s \in Subject : s \in saving[t].list <=> s \in known[t]
    BY <1>1 DEF SaveInProgress
<1>6. ListedIsKnown'
  <2> SUFFICES ASSUME NEW s \in Subject, Undisputed(s, Here), s \in disk'.list,
                      disk.records[s] # Absent
               PROVE  \E u \in Open : s \in known[u]
      BY <1>1, <1>2, <1>3 DEF ListedIsKnown, Undisputed
  <2>1. CASE s \in disk.list
      BY <1>1, <1>2, <2>1 DEF ListedIsKnown
  <2>2. CASE s \notin disk.list
      BY <1>2, <1>3, <1>5, <2>2
  <2> QED
      BY <2>1, <2>2
<1>7. ShownIsListed'
  <2> SUFFICES ASSUME NEW s \in Subject, Undisputed(s, Here), s \notin disk'.list
               PROVE  \E u \in Open : s \notin known[u] \/ Waiting(u, s)'
      BY <1>1, <1>2 DEF ShownIsListed, Undisputed
  <2>1. CASE saving[t].relist
      BY <1>2, <1>3, <1>5, <2>1
  <2>2. CASE ~saving[t].relist
    <3>1. PICK u \in Open : s \notin known[u] \/ Waiting(u, s)
        BY <1>1, <1>2, <1>3, <2>2 DEF ShownIsListed
    <3>2. CASE u = t
        BY <1>1, <2>2, <3>1, <3>2 DEF Waiting
    <3>3. CASE u # t
        BY <1>1, <1>2, <1>4, <3>1, <3>3 DEF Waiting
    <3> QED
        BY <3>2, <3>3
  <2> QED
      BY <2>1, <2>2
<1>8. ASSUME NEW s \in Subject
      PROVE  QuietSaved(s)'
  <2>1. \A u \in Open : Pending(u, s) => Pending(u, s)'
    <3>1. ~Pending(t, s)
        BY <1>1 DEF Pending
    <3>2. \A u \in Open \ {t} : Pending(u, s) => Pending(u, s)'
        BY <1>1, <1>2, <1>4 DEF Pending
    <3> QED
        BY <3>1, <3>2
  <2>2. Quiet(s)' => Quiet(s)
      BY <1>1, <1>2, <2>1 DEF Quiet, Unread
  <2> QED
      BY <1>1, <1>2, <1>3, <2>2, QuietStays DEF QuietIsSaved
<1> QED
    BY <1>6, <1>7, <1>8 DEF QuietIsSaved

LEMMA OpenOnDisk ==
    ASSUME Typed, Books, OnDisk, NEW t \in Tab, OpenTab(t)
    PROVE  OnDisk'
<1> SUFFICES ASSUME ~raced' PROVE QuietIsSaved' /\ ListedIsKnown' /\ ShownIsListed'
    BY DEF OnDisk
<1>1. /\ Settled /\ QuietIsSaved
      /\ UNCHANGED <<disk, dirty, saving, paused, inbox, contested>>
    BY DEF OpenTab, Racing, OnDisk
<1>2. Open' = Open \cup {t} /\ Open \subseteq Tab /\ t \notin Open
    BY TypedParts DEF OpenTab, Open
<1>3. /\ store'[t] = Loaded /\ \A u \in Open : store'[u] = store[u]
      /\ known'[t] = Present(Loaded)
    BY <1>2, TypedParts DEF OpenTab
<1>4. ListedIsKnown'
    BY <1>1, <1>2, <1>3 DEF ListedIsKnown, Present, Loaded
<1>5. ShownIsListed'
    BY <1>1, <1>2, <1>3 DEF ShownIsListed, Present, Loaded
<1>6. ASSUME NEW s \in Subject
      PROVE  QuietSaved(s)'
  <2>1. Quiet(s) /\ QuietSaved(s)
      BY <1>1, SettledQuiet DEF Quiet, QuietIsSaved
  <2> SUFFICES ASSUME Undisputed(s, Here), NEW u \in Open', store'[u][s] # Absent,
                      NEW c \in Cell, Undisputed(s, c)
               PROVE  Look(disk.records[s], c) = Look(store'[u][s], c)
      BY <1>1 DEF QuietSaved, Undisputed
  <2>2. CASE u = t
      BY <1>3, <2>2 DEF Loaded
  <2>3. CASE u \in Open
      BY <1>3, <2>1, <2>3 DEF QuietSaved
  <2> QED
      BY <1>2, <2>2, <2>3
<1> QED
    BY <1>4, <1>5, <1>6 DEF QuietIsSaved

LEMMA GoneOnDisk ==
    ASSUME Typed, Books, Channel, OnDisk, NEW t \in Tab, Gone(t),
           Racing(~Alone(t) /\ ~Settled)
    PROVE  OnDisk'
<1> SUFFICES ASSUME ~raced' PROVE QuietIsSaved' /\ ListedIsKnown' /\ ShownIsListed'
    BY DEF OnDisk
<1>1. /\ Agreed /\ QuietIsSaved /\ ListedIsKnown /\ ShownIsListed
      /\ Alone(t) \/ Settled
      /\ UNCHANGED <<disk, contested>>
    BY DEF Racing, Channel, OnDisk, Gone
<1>2. Open' = Open \ {t} /\ Open \subseteq Tab
    BY TypedParts DEF Gone, Open
<1>3. CASE Alone(t)
  <2>1. Open' = {}
      BY <1>2, <1>3 DEF Alone
  <2> QED
      BY <2>1 DEF QuietIsSaved, QuietSaved, ListedIsKnown, ShownIsListed
<1>4. CASE Settled
  <2>1. \A u \in Open' : u \in Open /\ store'[u] = store[u] /\ known'[u] = known[u]
      BY <1>2, TypedParts DEF Gone
  <2>2. \A s : Quiet(s)
      BY <1>4, SettledQuiet DEF Quiet
  <2>3. \A u \in Open, s \in Subject : s \in known[u] <=> store[u][s] # Absent
      BY <1>2, <1>4, SettledQuiet DEF Books, BookOf, KnownIsShown
  <2>4. ASSUME NEW s \in Subject, Undisputed(s, Here), NEW u \in Open, NEW w \in Open
        PROVE  s \in known[u] <=> s \in known[w]
      BY <1>1, <2>2, <2>3, <2>4, AllAbsent
  <2>5. ListedIsKnown'
    <3> SUFFICES ASSUME NEW s \in Subject, Undisputed(s, Here), NEW u \in Open',
                        s \in disk.list, disk.records[s] # Absent
                 PROVE  s \in known'[u]
        BY <1>1 DEF ListedIsKnown, Undisputed
    <3>1. PICK w \in Open : s \in known[w]
        BY <1>1, <2>1 DEF ListedIsKnown
    <3> QED
        BY <2>1, <2>4, <3>1
  <2>6. ShownIsListed'
    <3> SUFFICES ASSUME NEW s \in Subject, Undisputed(s, Here), NEW u \in Open', s \notin disk.list
                 PROVE  s \notin known'[u]
        BY <1>1 DEF ShownIsListed, Undisputed
    <3>1. PICK w \in Open : s \notin known[w] \/ Waiting(w, s)
        BY <1>1, <2>1 DEF ShownIsListed
    <3>2. s \notin known[w]
        BY <1>4, <3>1, SettledQuiet DEF Waiting
    <3> QED
        BY <2>1, <2>4, <3>1, <3>2
  <2>7. QuietIsSaved'
      BY <1>1, <2>1, <2>2 DEF QuietIsSaved, QuietSaved, Undisputed
  <2> QED
      BY <2>5, <2>6, <2>7
<1> QED
    BY <1>1, <1>3, <1>4

-----------------------------------------------------------------------------
(* The invariant, and what follows from it. *)

LocalInv == Typed /\ Books /\ ContestedWhole /\ Channel /\ OnDisk

LEMMA LocalInvInit == Init => LocalInv
<1> SUFFICES ASSUME Init PROVE LocalInv
    OBVIOUS
<1>1. Open = {}
    BY DEF Init, Open
<1>2. Channel
    BY <1>1 DEF Channel, AloneHasRead, Agreed, Sound
<1> QED
    BY <1>2, TypedInit, BooksInit, ContestedWholeInit, OnDiskInit DEF LocalInv

LEMMA LocalInvStep == LocalInv /\ [Next]_vars => LocalInv'
<1> SUFFICES ASSUME LocalInv, [Next]_vars PROVE LocalInv'
    OBVIOUS
<1>1. Typed /\ Books /\ ContestedWhole /\ Channel /\ OnDisk
    BY DEF LocalInv
<1>2. Typed'
    BY <1>1, TypedStep
<1>3. Books' /\ ContestedWhole'
    BY <1>1, <1>2, BooksStep, ContestedWholeStep
<1>4. ASSUME NEW t \in Tab, NEW b, Broadcast(t, b)
      PROVE  Channel' /\ OnDisk'
    BY <1>1, <1>2, <1>3, <1>4, BroadcastChannel, BroadcastOnDisk
<1>5. ASSUME NEW t \in Tab, Receive(t)
      PROVE  Channel' /\ OnDisk'
    BY <1>1, <1>2, <1>5, ReceiveChannel, ReceiveOnDisk
<1>6. ASSUME NEW t \in Tab, Adopting(t) \/ Replacing(t)
      PROVE  Channel' /\ OnDisk'
    BY <1>1, <1>6, AdoptChannel, AdoptOnDisk, ReplaceChannel, ReplaceOnDisk
<1>7. ASSUME NEW t \in Tab, Persist(t) \/ WriteRecord(t) \/ WriteList(t) \/ SaveFails(t)
      PROVE  Channel' /\ OnDisk'
  <2>1. UNCHANGED <<state, store, inbox, contested>> /\ (raced => raced')
    <3>1. CASE Persist(t)
        BY <3>1 DEF Persist, memory, history
    <3>2. CASE WriteRecord(t)
        BY <3>2 DEF WriteRecord, memory, history
    <3>3. CASE WriteList(t)
        BY <3>3 DEF WriteList, history
    <3>4. CASE SaveFails(t)
        BY <3>4 DEF SaveFails, Racing, memory
    <3> QED
        BY <1>7, <3>1, <3>2, <3>3, <3>4
  <2>2. Channel'
      BY <1>1, <2>1, ChannelStays
  <2> QED
      BY <1>1, <1>2, <1>7, <2>2, PersistOnDisk, WriteRecordOnDisk, WriteListOnDisk, SaveFailsOnDisk
<1>8. ASSUME NEW t \in Tab, OpenTab(t)
      PROVE  Channel' /\ OnDisk'
    BY <1>1, <1>8, OpenChannel, OpenOnDisk
<1>9. ASSUME NEW t \in Tab, Close(t) \/ Kill(t)
      PROVE  Channel' /\ OnDisk'
  <2>1. Gone(t) /\ Racing(~Alone(t) /\ ~Settled)
      BY <1>9 DEF Close, Kill
  <2> QED
      BY <1>1, <2>1, GoneChannel, GoneOnDisk
<1>10. ASSUME UNCHANGED vars
       PROVE  Channel' /\ OnDisk'
  <2>1. UNCHANGED <<disk, state, store, dirty, known, saving, paused, inbox, contested, raced>>
      BY <1>10 DEF vars, memory, saves, history
  <2>2. Channel'
      BY <1>1, <2>1, ChannelStays
  <2>3. OnDisk'
    <3> SUFFICES ASSUME ~raced' PROVE QuietIsSaved' /\ ListedIsKnown' /\ ShownIsListed'
        BY DEF OnDisk
    <3>1. QuietIsSaved /\ ListedIsKnown /\ ShownIsListed
        BY <1>1, <2>1 DEF OnDisk
    <3>2. Open' = Open
        BY <2>1 DEF Open
    <3>3. ListedIsKnown'
        BY <2>1, <3>1, <3>2, ListedStays
    <3>4. ShownIsListed'
        BY <2>1, <3>1, <3>2, ShownStays
    <3>5. ASSUME NEW s \in Subject
          PROVE  QuietSaved(s)'
      <4>1. Quiet(s)' => Quiet(s)
          BY <2>1, <3>2 DEF Quiet, Unread, Pending
      <4>2. QuietSaved(s)
          BY <3>1 DEF QuietIsSaved
      <4> QED
          BY <2>1, <3>2, <4>1, <4>2, QuietStays
    <3> QED
        BY <3>3, <3>4, <3>5 DEF QuietIsSaved
  <2> QED
      BY <2>2, <2>3
<1> QED
    BY <1>1, <1>2, <1>3, <1>4, <1>5, <1>6, <1>7, <1>8, <1>9, <1>10, Steps DEF LocalInv

\* localNgEngine.ts:420-510 (persistNow) and 947-1128 (the channel): however the tabs
\* of an origin interleave their edits, undos, messages and writes, once all have read
\* and saved a reload gives what they show, but for the places that two changed at once.
THEOREM SettledRecordsSaved == Spec => []SettledIsSaved
<1>1. Init => LocalInv
    BY LocalInvInit
<1>2. LocalInv /\ [Next]_vars => LocalInv'
    BY LocalInvStep
<1>3. LocalInv => SettledIsSaved
  <2> SUFFICES ASSUME LocalInv, Settled, ~raced, NEW t \in Open,
                      NEW x \in Differ(store[t], Loaded), x \notin contested
               PROVE  FALSE
      BY DEF SettledIsSaved
  <2>1. Typed /\ Books /\ ContestedWhole /\ Agreed /\ QuietIsSaved /\ ListedIsKnown /\ ShownIsListed
      BY DEF LocalInv, Channel, OnDisk
  <2>2. \A u \in Open : ~Unread(u, x[1]) /\ x[1] \notin dirty[u]
      BY SettledQuiet
  <2> QED
      BY <2>1, <2>2, PlaceSaved
<1> QED
    BY <1>1, <1>2, <1>3, PTL DEF Spec

\* localNgEngine.ts:420-510 (persistNow): what the only tab does not hold to be unsaved is on
\* disk as it shows it, between any two writes of a save and after one that failed.
THEOREM CleanRecordsSaved == Spec => []CleanIsSaved
<1>1. Init => LocalInv
    BY LocalInvInit
<1>2. LocalInv /\ [Next]_vars => LocalInv'
    BY LocalInvStep
<1>3. LocalInv => CleanIsSaved
  <2> SUFFICES ASSUME LocalInv, NEW t \in Tab, ~raced, Open = {t},
                      NEW x \in Differ(store[t], Loaded), x[1] \notin dirty[t], x \notin contested
               PROVE  FALSE
      BY DEF CleanIsSaved
  <2>1. /\ Typed /\ Books /\ ContestedWhole /\ Agreed /\ QuietIsSaved /\ ListedIsKnown
        /\ ShownIsListed /\ AloneHasRead
      BY DEF LocalInv, Channel, OnDisk
  <2>2. inbox[t] = <<>>
      BY <2>1 DEF AloneHasRead
  <2>3. DOMAIN <<>> = {}
      OBVIOUS
  <2>4. \A u \in Open : ~Unread(u, x[1]) /\ x[1] \notin dirty[u]
      BY <2>2, <2>3 DEF Unread
  <2>5. t \in Open
      OBVIOUS
  <2> QED
      BY <2>1, <2>4, <2>5, PlaceSaved
<1> QED
    BY <1>1, <1>2, <1>3, PTL DEF Spec

\* A step that leaves a tab's messages or adds one does not take the first away.
LEMMA NotRead ==
    ASSUME Typed, NEW t \in Tab, inbox[t] # <<>>,
           inbox'[t] = inbox[t] \/ \E m : inbox'[t] = Append(inbox[t], m)
    PROVE  inbox'[t] # Tail(inbox[t])
<1>1. PICK q : q = inbox[t]
    OBVIOUS
<1>2. q \in Seq(Post) /\ q # <<>>
    BY <1>1, TypedParts
<1>3. PICK n \in Nat : n = Len(q)
    BY <1>2
<1>4. Len(Tail(q)) = n - 1
    BY <1>2, <1>3
<1>5. ASSUME NEW m, Append(q, m) = Tail(q)
      PROVE  FALSE
  <2>1. Len(Append(q, m)) = n + 1
      BY <1>2, <1>3
  <2>2. n + 1 = n - 1
      BY <1>4, <1>5, <2>1
  <2> QED
      BY <2>2
<1>6. q # Tail(q)
  <2>1. n # n - 1
      OBVIOUS
  <2> QED
      BY <1>3, <1>4, <2>1
<1> QED
    BY <1>1, <1>5, <1>6

\* Only reading takes a message from a tab that stays open.
LEMMA OnlyReceiveReads ==
    ASSUME Typed, [Next]_vars, NEW t \in Tab, inbox[t] # <<>>,
           inbox'[t] = Tail(inbox[t]), state'[t] = "open"
    PROVE  Receive(t)
<1>1. ASSUME NEW u \in Tab, NEW m, Posted(u, m)
      PROVE  FALSE
    BY <1>1, NotRead DEF Posted
<1>2. ASSUME UNCHANGED inbox
      PROVE  FALSE
    BY <1>2, NotRead
<1>3. ASSUME NEW u \in Tab, u # t, Receive(u) \/ Gone(u)
      PROVE  FALSE
    BY <1>3, NotRead, TypedParts DEF Receive, Gone
<1>4. ~Gone(t)
    BY TypedParts DEF Gone
<1>5. \A u \in Tab : \A b : ~Broadcast(u, b)
    BY <1>1 DEF Broadcast
<1>6. \A u \in Tab : ~Adopting(u)
    BY <1>1 DEF Adopting, Adopt
<1>7. \A u \in Tab : ~(Replacing(u) \/ Persist(u) \/ WriteRecord(u) \/ WriteList(u)
                        \/ SaveFails(u) \/ OpenTab(u))
    BY <1>2 DEF Replacing, Replace, Persist, WriteRecord, WriteList, SaveFails, OpenTab
<1>8. ~ UNCHANGED vars
    BY <1>2 DEF vars
<1>9. \A u \in Tab : Close(u) \/ Kill(u) => Gone(u)
    BY DEF Close, Kill
<1> QED
    BY <1>3, <1>4, <1>5, <1>6, <1>7, <1>8, <1>9, Steps

\* localNgEngine.ts:985-1010: a tab that reads of a record it does not have takes
\* all of it from the message, whatever the batch in it says.
THEOREM LateTabsCatchUp == Spec => LateTabCatchesUp
<1>1. ASSUME Typed, [Next]_vars
      PROVE  \A t \in Tab :
                inbox[t] # <<>> /\ inbox'[t] = Tail(inbox[t]) /\ state'[t] = "open" =>
                  \A s \in Subject :
                     LET theirs == Head(inbox[t]).snapshots[s]
                     IN  store[t][s] = Absent /\ theirs # Absent => store'[t][s] = theirs
  <2> SUFFICES ASSUME NEW t \in Tab, inbox[t] # <<>>, inbox'[t] = Tail(inbox[t]),
                      state'[t] = "open", NEW s \in Subject, store[t][s] = Absent,
                      Head(inbox[t]).snapshots[s] # Absent
               PROVE  store'[t][s] = Head(inbox[t]).snapshots[s]
      OBVIOUS
  <2>1. Receive(t)
      BY <1>1, OnlyReceiveReads
  <2>2. PICK m : m = Head(inbox[t])
      OBVIOUS
  <2>3. /\ m \in Post /\ m.snapshots \in Store /\ m.patches \in Batch
        /\ m.whole \/ s \in Touched(m.patches)
    <3>1. m \in Post
        BY <1>1, <2>1, <2>2, ReceiveReads
    <3> QED
        BY <2>2, <3>1 DEF Post
  <2>4. store \in [Tab -> Store] /\ m.snapshots[s] \in FullRecord
      BY <1>1, <2>2, <2>3, TypedParts DEF Store
  <2>5. CASE m.whole
    <3>1. Replaced(t, m.snapshots)
        BY <2>1, <2>2, <2>5 DEF Receive
    <3> QED
        BY <2>2, <2>4, <3>1 DEF Replaced
  <2>6. CASE ~m.whole
    <3>1. PICK d : d = WithoutDuplicates(m.patches, store[t])
        OBVIOUS
    <3>2. External(t, m.patches, m.snapshots)
        BY <2>1, <2>2, <2>6 DEF Receive
    <3>3. store'[t] = Recovered(d, store[t], m.snapshots)
        BY <2>4, <3>1, <3>2 DEF External
    <3>4. s \in Touched(d)
        BY <2>3, <2>6, <3>1, DuplicatesAside
    <3>5. store'[t][s] = After(Whole(s, m.snapshots[s]), s, Absent, BrowserFresh)
        BY <2>2, <3>3, <3>4 DEF Recovered, Missed
    <3> QED
        BY <2>2, <2>4, <3>5, WholeMakesRecord
  <2> QED
      BY <2>5, <2>6
<1>2. Typed /\ [Next]_vars =>
        [\A t \in Tab : inbox[t] # <<>> /\ inbox'[t] = Tail(inbox[t]) /\ state'[t] = "open" =>
            \A s \in Subject :
                LET theirs == Head(inbox[t]).snapshots[s]
                IN  store[t][s] = Absent /\ theirs # Absent => store'[t][s] = theirs]_vars
    BY <1>1
<1>3. Init => Typed
    BY TypedInit
<1>4. Typed /\ [Next]_vars => Typed'
    BY TypedStep
<1> QED
    BY <1>2, <1>3, <1>4, PTL DEF Spec, LateTabCatchesUp

-----------------------------------------------------------------------------
(* An edit and what is pushed for it give back what was there. *)

LEMMA NothingToFollow ==
    ASSUME NEW q, NEW x, NEW y, x \notin Range(q)
    PROVE  FollowedBy(q, x, y)
<1>1. \A i \in DOMAIN q : q[i] # x
    BY DEF Range
<1> QED
    BY <1>1 DEF FollowedBy

LEMMA HeadIsFollowed ==
    ASSUME NEW S, NEW x \in S, NEW q \in Seq(S), NEW y \in Range(q), x \notin Range(q)
    PROVE  FollowedBy(<<x>> \o q, x, y)
<1>1. PICK n \in Nat : n = Len(q) /\ DOMAIN q = 1 .. n
    OBVIOUS
<1>2. PICK r : r = <<x>> \o q
    OBVIOUS
<1>3. /\ <<x>> \in Seq(S) /\ Len(<<x>>) = 1
      /\ DOMAIN r = 1 .. 1 + n
      /\ \A i \in 1 .. n : r[1 + i] = q[i]
    BY <1>1, <1>2
<1>4. PICK k \in 1 .. n : q[k] = y
    BY <1>1 DEF Range
<1>5. ASSUME NEW i \in 1 .. 1 + n, r[i] = x
      PROVE  i = 1
  <2> SUFFICES ASSUME i # 1
               PROVE  FALSE
      OBVIOUS
  <2>1. i - 1 \in 1 .. n /\ 1 + (i - 1) = i
      OBVIOUS
  <2>2. q[i - 1] = x
      BY <1>3, <1>5, <2>1
  <2> QED
      BY <1>1, <2>1, <2>2 DEF Range
<1>6. 1 + k \in 1 .. 1 + n /\ 1 < 1 + k /\ r[1 + k] = y
    BY <1>3, <1>4
<1>7. \A i \in DOMAIN r : r[i] = x => \E j \in DOMAIN r : i < j /\ r[j] = y
    BY <1>3, <1>5, <1>6
<1> QED
    BY <1>2, <1>7 DEF FollowedBy

\* What brings the property f of s back to what r has.
Restores(s, f, r) ==
    IF f \in Scalar
    THEN IF r.scalar[f] = Missing THEN {} ELSE {Assign(s, f, r.scalar[f])}
    ELSE IF r.members[f] = {} THEN {} ELSE {Insert(s, f, r.members[f])}

LEMMA FieldInverseSays ==
    ASSUME NEW s \in Subject, NEW f \in Field, NEW r \in FullRecord
    PROVE  /\ Range(FieldInverse(s, f, r)) = {Erase(s, f)} \cup Restores(s, f, r)
           /\ \A y \in Restores(s, f, r) : FollowedBy(FieldInverse(s, f, r), Erase(s, f), y)
           /\ \A p \in Restores(s, f, r) : p.on = s /\ p.op \in {"assign", "insert"}
<1>1. PICK q : /\ q = IF Restores(s, f, r) = {} THEN <<>>
                      ELSE IF f \in Scalar THEN <<Assign(s, f, r.scalar[f])>>
                      ELSE <<Insert(s, f, r.members[f])>>
    OBVIOUS
<1>2. FieldInverse(s, f, r) = <<Erase(s, f)>> \o q
    BY <1>1 DEF FieldInverse, Restores
<1>3. q \in Seq(Patch) /\ Range(q) = Restores(s, f, r)
  <2>1. CASE Restores(s, f, r) = {}
    <3>1. q = <<>> /\ DOMAIN q = {}
        BY <1>1, <2>1
    <3> QED
        BY <2>1, <3>1 DEF Range
  <2>2. ASSUME NEW x \in Patch, Restores(s, f, r) = {x}, q = <<x>>
        PROVE  q \in Seq(Patch) /\ Range(q) = Restores(s, f, r)
    <3>1. DOMAIN q = {1} /\ q[1] = x
        BY <2>2
    <3> QED
        BY <2>2, <3>1 DEF Range
  <2>3. CASE Restores(s, f, r) # {} /\ f \in Scalar
    <3>1. r.scalar[f] \in Value
        BY <2>3 DEF Restores, FullRecord, Record
    <3>2. Assign(s, f, r.scalar[f]) \in Patch
        BY <2>3, <3>1 DEF Patch, AssignPatch, Assign
    <3> QED
        BY <1>1, <2>2, <2>3, <3>2 DEF Restores
  <2>4. CASE Restores(s, f, r) # {} /\ f \notin Scalar
    <3>1. f \in SetField /\ r.members[f] \in SUBSET Member
        BY <2>4 DEF FullRecord, Record, Field
    <3>2. Insert(s, f, r.members[f]) \in Patch
        BY <3>1 DEF Patch, MemberPatch, Insert
    <3> QED
        BY <1>1, <2>2, <2>4, <3>2 DEF Restores
  <2> QED
      BY <2>1, <2>3, <2>4
<1>4. \A p \in Restores(s, f, r) : p.on = s /\ p.op \in {"assign", "insert"}
    BY DEF Restores, Assign, Insert
<1>5. Erase(s, f) \in Patch /\ Erase(s, f).op = "erase"
    BY DEF Patch, ErasePatch, Erase
<1>6. Erase(s, f) \notin Range(q)
    BY <1>3, <1>4, <1>5
<1>7. Range(<<Erase(s, f)>>) = {Erase(s, f)} /\ <<Erase(s, f)>> \in Seq(Patch)
  <2>1. PICK x : x = Erase(s, f)
      OBVIOUS
  <2>2. DOMAIN <<x>> = {1} /\ <<x>>[1] = x /\ <<x>> \in Seq(Patch)
      BY <1>5, <2>1
  <2> QED
      BY <2>1, <2>2 DEF Range
<1>8. Range(FieldInverse(s, f, r)) = {Erase(s, f)} \cup Restores(s, f, r)
  <2>1. PICK a : a = <<Erase(s, f)>>
      OBVIOUS
  <2>2. Range(a \o q) = Range(a) \cup Range(q)
      BY <1>3, <1>7, <2>1, SeqsJoin
  <2> QED
      BY <1>2, <1>3, <1>7, <2>1, <2>2
<1>9. \A y \in Restores(s, f, r) : FollowedBy(FieldInverse(s, f, r), Erase(s, f), y)
    BY <1>2, <1>3, <1>5, <1>6, HeadIsFollowed
<1> QED
    BY <1>4, <1>8, <1>9

\* The properties of s that the batch b names.
NamedFields(b, s) == {f \in Field : \E p \in Range(b) : Place(p) = <<s, f>>}

LEMMA RecordInverseSays ==
    ASSUME NEW b, NEW s \in Subject, NEW r \in FullRecord \cup {Absent}
    PROVE  LET e == RecordInverse(b, s, r)
           IN  /\ r = Absent => Range(e) = {Drop(s)}
               /\ r # Absent /\ Rooted(b, s) =>
                     /\ Range(e) = {Drop(s)} \cup Range(Whole(s, r))
                     /\ \A y \in Range(Whole(s, r)) : FollowedBy(e, Drop(s), y)
               /\ r # Absent /\ ~Rooted(b, s) =>
                     /\ \A p : p \in Range(e) <=>
                           \E f \in NamedFields(b, s) : p = Erase(s, f) \/ p \in Restores(s, f, r)
                     /\ \A f \in NamedFields(b, s) : \A y \in Restores(s, f, r) :
                           FollowedBy(e, Erase(s, f), y)
<1>1. PICK e : e = RecordInverse(b, s, r)
    OBVIOUS
<1>2. Drop(s) \in Patch /\ Drop(s).op = "drop"
    BY DEF Patch, RootPatch, Drop
<1>3. <<Drop(s)>> \in Seq(Patch) /\ Range(<<Drop(s)>>) = {Drop(s)}
  <2>1. PICK x : x = Drop(s)
      OBVIOUS
  <2>2. DOMAIN <<x>> = {1} /\ <<x>>[1] = x /\ <<x>> \in Seq(Patch)
      BY <1>2, <2>1
  <2> QED
      BY <2>1, <2>2 DEF Range
<1>4. CASE r = Absent
    BY <1>3, <1>4 DEF RecordInverse
<1>5. CASE r # Absent /\ Rooted(b, s)
  <2>1. PICK a, w : a = <<Drop(s)>> /\ w = Whole(s, r)
      OBVIOUS
  <2>2. RecordInverse(b, s, r) = a \o w
      BY <1>5, <2>1 DEF RecordInverse
  <2>3. w \in Seq(Patch) /\ \A p \in Range(w) : p.op # "drop"
      BY <1>5, <2>1, WholeRange DEF Create, Identify, Assign, Insert
  <2>4. Range(a \o w) = Range(a) \cup Range(w)
      BY <1>3, <2>1, <2>3, SeqsJoin
  <2>5. Drop(s) \notin Range(w)
      BY <1>2, <2>3
  <2>6. \A y \in Range(w) : FollowedBy(<<Drop(s)>> \o w, Drop(s), y)
      BY <1>2, <2>3, <2>5, HeadIsFollowed
  <2> QED
      BY <1>3, <1>5, <2>1, <2>2, <2>4, <2>6
<1>6. CASE r # Absent /\ ~Rooted(b, s)
  <2> DEFINE F == NamedFields(b, s)
             OfField(f) == FieldInverse(s, f, r)
  <2>1. IsFiniteSet(F) /\ F \subseteq Field
    <3>1. IsFiniteSet(Field)
        BY NamesAreFinite, FS_Union DEF Field
    <3> QED
        BY <3>1, FS_Subset DEF NamedFields
  <2>2. PICK q : q = SetToSeq(F)
      OBVIOUS
  <2>3. q \in Seq(F) /\ Range(q) = F
      BY <2>1, <2>2, SetToSeqType
  <2>4. PICK p : p = [i \in DOMAIN q |-> OfField(q[i])]
      OBVIOUS
  <2>5. RecordInverse(b, s, r) = FlattenSeq(p)
      BY <1>6, <2>2, <2>4 DEF RecordInverse, Joined, NamedFields
  <2>6. /\ DOMAIN p = DOMAIN q
        /\ \A i \in DOMAIN p : q[i] \in F /\ p[i] = FieldInverse(s, q[i], r)
        /\ \A f \in F : \E i \in DOMAIN p : q[i] = f
    <3>1. \A i \in DOMAIN q : q[i] \in F
        BY <2>3
    <3>2. \A f \in F : \E i \in DOMAIN q : q[i] = f
        BY <2>3 DEF Range
    <3> HIDE DEF F
    <3> QED
        BY <2>4, <3>1, <3>2
  <2>7. p \in Seq(Seq(Patch))
    <3> HIDE DEF F
    <3>1. \A i \in DOMAIN q : OfField(q[i]) \in Seq(Patch)
        BY <1>6, <2>1, <2>6, FieldInverseType
    <3>2. DOMAIN q = 1 .. Len(q) /\ Len(q) \in Nat
        BY <2>3
    <3> HIDE DEF OfField
    <3>3. p \in [1 .. Len(q) -> Seq(Patch)]
        BY <2>4, <3>1, <3>2
    <3> QED
        BY <3>2, <3>3
  <2> HIDE DEF F, OfField
  <2>8. \A i \in DOMAIN p : Range(p[i]) = {Erase(s, q[i])} \cup Restores(s, q[i], r)
      BY <1>6, <2>1, <2>6, FieldInverseSays
  <2>9. \A x : x \in Range(FlattenSeq(p)) <=>
                 \E f \in F : x = Erase(s, f) \/ x \in Restores(s, f, r)
    <3>1. \A x : x \in Range(FlattenSeq(p)) <=> \E i \in DOMAIN p : x \in Range(p[i])
        BY <2>7, FlattenSeqKeeps
    <3> QED
        BY <2>6, <2>8, <3>1
  <2>10. ASSUME NEW f \in F, NEW y \in Restores(s, f, r)
         PROVE  FollowedBy(FlattenSeq(p), Erase(s, f), y)
    <3>1. ASSUME NEW i \in DOMAIN p
          PROVE  FollowedBy(p[i], Erase(s, f), y)
      <4>1. CASE q[i] = f
          BY <1>6, <2>1, <2>6, <2>10, <4>1, FieldInverseSays
      <4>2. CASE q[i] # f
        <5>1. \A x \in Restores(s, q[i], r) : x.op \in {"assign", "insert"}
            BY <1>6, <2>1, <2>6, FieldInverseSays
        <5>2. Erase(s, f) # Erase(s, q[i]) /\ Erase(s, f).op = "erase"
            BY <4>2 DEF Erase
        <5>3. Erase(s, f) \notin Range(p[i])
            BY <2>8, <5>1, <5>2
        <5> QED
            BY <5>3, NothingToFollow
      <4> QED
          BY <4>1, <4>2
    <3> QED
        BY <2>7, <3>1, FlattenSeqKeeps
  <2> QED
      BY <1>6, <2>5, <2>9, <2>10 DEF F
<1> QED
    BY <1>4, <1>5, <1>6

LEMMA RecordInverseIsAbout ==
    ASSUME NEW b, NEW s \in Subject, NEW r \in FullRecord \cup {Absent},
           NEW p \in Range(RecordInverse(b, s, r))
    PROVE  p.on = s
<1>1. r # Absent => \A x \in Range(Whole(s, r)) : x.on = s
  <2> SUFFICES ASSUME r # Absent
               PROVE  \A x \in Range(Whole(s, r)) : x.on = s
      OBVIOUS
  <2>1. r \in FullRecord
      OBVIOUS
  <2> QED
      BY <2>1, WholeRange DEF Create, Identify, Assign, Insert
<1>2. Drop(s).on = s /\ \A f : Erase(s, f).on = s
    BY DEF Drop, Erase
<1>3. \A f : \A x \in Restores(s, f, r) : x.on = s
    BY DEF Restores, Assign, Insert
<1>4. CASE r = Absent
    BY <1>2, <1>4, RecordInverseSays
<1>5. CASE r # Absent /\ Rooted(b, s)
  <2>1. p \in {Drop(s)} \cup Range(Whole(s, r))
      BY <1>5, RecordInverseSays
  <2> QED
      BY <1>1, <1>2, <1>5, <2>1
<1>6. CASE r # Absent /\ ~Rooted(b, s)
  <2>1. \E f \in NamedFields(b, s) : p = Erase(s, f) \/ p \in Restores(s, f, r)
      BY <1>6, RecordInverseSays
  <2> QED
      BY <1>2, <1>3, <2>1
<1> QED
    BY <1>4, <1>5, <1>6

\* What undoes a batch says of each record it was about what undoes it there.
LEMMA InverseSays ==
    ASSUME NEW b \in Batch, NEW st \in Store, NEW s \in Subject
    PROVE  LET e == InverseOf(b, st)
               i == RecordInverse(b, s, st[s])
           IN  /\ s \notin Touched(b) => s \notin Touched(e)
               /\ s \in Touched(b) =>
                     /\ \A p : p \in Range(e) /\ p.on = s <=> p \in Range(i)
                     /\ \A x, y : x.on = s /\ FollowedBy(i, x, y) => FollowedBy(e, x, y)
<1> DEFINE OfRecord(z) == RecordInverse(b, z, st[z])
<1>1. IsFiniteSet(Touched(b)) /\ Touched(b) \subseteq Subject
    BY TouchedAreSubjects
<1>2. PICK q : q = SetToSeq(Touched(b))
    OBVIOUS
<1>3. q \in Seq(Touched(b)) /\ Range(q) = Touched(b)
    BY <1>1, <1>2, SetToSeqType
<1>4. PICK p : p = [i \in DOMAIN q |-> OfRecord(q[i])]
    OBVIOUS
<1>5. InverseOf(b, st) = FlattenSeq(p)
    BY <1>2, <1>4 DEF InverseOf, Joined
<1>6. /\ DOMAIN p = DOMAIN q
      /\ \A i \in DOMAIN p : q[i] \in Touched(b) /\ p[i] = RecordInverse(b, q[i], st[q[i]])
      /\ \A z \in Touched(b) : \E i \in DOMAIN p : q[i] = z
  <2>1. \A i \in DOMAIN q : q[i] \in Touched(b)
      BY <1>3
  <2>2. \A z \in Touched(b) : \E i \in DOMAIN q : q[i] = z
      BY <1>3 DEF Range
  <2> QED
      BY <1>4, <2>1, <2>2
<1>7. \A z \in Touched(b) : z \in Subject /\ st[z] \in FullRecord \cup {Absent}
    BY <1>1 DEF Store
<1>8. p \in Seq(Seq(Patch))
  <2>1. \A i \in DOMAIN q : OfRecord(q[i]) \in Seq(Patch)
      BY <1>6, <1>7, RecordInverseType
  <2> HIDE DEF OfRecord
  <2>2. DOMAIN q = 1 .. Len(q) /\ Len(q) \in Nat
      BY <1>3
  <2>3. p \in [1 .. Len(q) -> Seq(Patch)]
      BY <1>4, <2>1, <2>2
  <2> QED
      BY <2>2, <2>3
<1>9. \A i \in DOMAIN p : \A x \in Range(p[i]) : x.on = q[i]
    BY <1>6, <1>7, RecordInverseIsAbout
<1> HIDE DEF OfRecord
<1>10. \A x : x \in Range(FlattenSeq(p)) <=> \E i \in DOMAIN p : x \in Range(p[i])
    BY <1>8, FlattenSeqKeeps
<1>11. PICK e : e = InverseOf(b, st) /\ e = FlattenSeq(p)
    BY <1>5
<1>12. s \in Touched(e) => \E x \in Range(e) : x.on = s
    BY DEF Touched, Range
<1>13. s \notin Touched(b) => s \notin Touched(e)
    BY <1>6, <1>9, <1>10, <1>11, <1>12
<1>14. ASSUME s \in Touched(b)
       PROVE  /\ \A x : x \in Range(e) /\ x.on = s <=> x \in Range(RecordInverse(b, s, st[s]))
              /\ \A x, y : x.on = s /\ FollowedBy(RecordInverse(b, s, st[s]), x, y)
                             => FollowedBy(e, x, y)
  <2>1. PICK k \in DOMAIN p : q[k] = s /\ p[k] = RecordInverse(b, s, st[s])
      BY <1>6, <1>14
  <2>2. \A i \in DOMAIN p : q[i] = s => p[i] = p[k]
      BY <1>6, <2>1
  <2>3. \A x : x \in Range(e) /\ x.on = s <=> x \in Range(p[k])
      BY <1>9, <1>10, <1>11, <2>1, <2>2
  <2>4. ASSUME NEW x, NEW y, x.on = s, FollowedBy(p[k], x, y)
        PROVE  FollowedBy(e, x, y)
    <3>1. ASSUME NEW i \in DOMAIN p
          PROVE  FollowedBy(p[i], x, y)
      <4>1. CASE q[i] = s
          BY <2>2, <2>4, <4>1
      <4>2. CASE q[i] # s
          BY <1>9, <2>4, <4>2, NothingToFollow
      <4> QED
          BY <4>1, <4>2
    <3> QED
        BY <1>8, <1>11, <3>1, FlattenSeqKeeps
  <2> QED
      BY <2>1, <2>3, <2>4
<1> QED
    BY <1>11, <1>13, <1>14

\* Records that show the same in every cell are the same.
LEMMA CellsMakeRecord ==
    ASSUME NEW r \in FullRecord \cup {Absent}, NEW q \in FullRecord \cup {Absent},
           \A c \in Cell : Look(r, c) = Look(q, c)
    PROVE  r = q
<1>1. r = Absent <=> q = Absent
  <2>1. Look(r, Here) = Look(q, Here)
      BY HereIsCell
  <2> QED
      BY <2>1 DEF Look, Here
<1>2. CASE r # Absent
  <2>1. r \in FullRecord /\ q \in FullRecord /\ q # Absent
      BY <1>1, <1>2
  <2>2. ASSUME NEW f \in Scalar
        PROVE  r.scalar[f] = q.scalar[f]
    <3>1. PICK c : c = [kind |-> "scalar", prop |-> f]
        OBVIOUS
    <3>2. c \in Cell /\ c.kind = "scalar" /\ c.prop = f
        BY <3>1 DEF Cell
    <3>3. Look(r, c) = Look(q, c)
        BY <3>2
    <3> QED
        BY <1>2, <2>1, <3>2, <3>3 DEF Look
  <2>3. ASSUME NEW f \in SetField, NEW m \in Member
        PROVE  m \in r.members[f] <=> m \in q.members[f]
    <3>1. PICK c : c = [kind |-> "member", prop |-> f, member |-> m]
        OBVIOUS
    <3>2. c \in Cell /\ c.kind = "member" /\ c.prop = f /\ c.member = m
        BY <3>1 DEF Cell
    <3>3. Look(r, c) = Look(q, c)
        BY <3>2
    <3> QED
        BY <1>2, <2>1, <3>2, <3>3 DEF Look
  <2>4. /\ r \in Record /\ q \in Record /\ r.identity = q.identity
        /\ r.scalar \in [Scalar -> Value \cup {Missing}] /\ q.scalar \in [Scalar -> Value \cup {Missing}]
        /\ r.members \in [SetField -> SUBSET Member] /\ q.members \in [SetField -> SUBSET Member]
      BY <2>1 DEF FullRecord, Record
  <2>5. r.scalar = q.scalar
      BY <2>2, <2>4
  <2>6. \A f \in SetField : r.members[f] = q.members[f]
      BY <2>3, <2>4
  <2>7. r.members = q.members
      BY <2>4, <2>6
  <2> QED
      BY <2>4, <2>5, <2>7 DEF Record
<1> QED
    BY <1>1, <1>2

\* The patches of e on s erase the properties F and bring them back to what r has.
Restoring(e, s, r, F) ==
    /\ \A p \in Range(e) : p.on = s => \E f \in F : p = Erase(s, f) \/ p \in Restores(s, f, r)
    /\ \A f \in F : Erase(s, f) \in Range(e)
    /\ \A f \in F : \A y \in Restores(s, f, r) : FollowedBy(e, Erase(s, f), y)

\* A patch among those is about the property it names.
LEMMA RestoringPatch ==
    ASSUME NEW s, NEW r, NEW f \in Field, NEW p, p = Erase(s, f) \/ p \in Restores(s, f, r)
    PROVE  /\ p.on = s /\ p.prop = f /\ p.op # "drop"
           /\ p.op = "erase" => p = Erase(s, f)
           /\ p.op # "erase" => p \in Restores(s, f, r)
           /\ p.op = "assign" => f \in Scalar /\ p.value = r.scalar[f] /\ r.scalar[f] # Missing
           /\ p.op \in {"insert", "discard"} =>
                 f \notin Scalar /\ p.op = "insert" /\ p.value = r.members[f]
<1>1. Erase(s, f).on = s /\ Erase(s, f).prop = f /\ Erase(s, f).op = "erase"
    BY DEF Erase
<1>2. ASSUME NEW v
      PROVE  /\ Assign(s, f, v).on = s /\ Assign(s, f, v).prop = f
             /\ Assign(s, f, v).op = "assign" /\ Assign(s, f, v).value = v
             /\ Insert(s, f, v).on = s /\ Insert(s, f, v).prop = f
             /\ Insert(s, f, v).op = "insert" /\ Insert(s, f, v).value = v
    BY DEF Assign, Insert
<1>3. CASE p = Erase(s, f)
    BY <1>1, <1>3
<1>4. CASE p \in Restores(s, f, r)
  <2>1. \/ f \in Scalar /\ r.scalar[f] # Missing /\ p = Assign(s, f, r.scalar[f])
        \/ f \notin Scalar /\ p = Insert(s, f, r.members[f])
      BY <1>4 DEF Restores
  <2> QED
      BY <1>2, <1>4, <2>1
<1> QED
    BY <1>3, <1>4

\* What the last patch on a restored property does.
LEMMA RestoringLast ==
    ASSUME NEW n \in Nat, NEW e, IsBatch(e, n), NEW s \in Subject, NEW r \in FullRecord,
           NEW F \in SUBSET Field, Restoring(e, s, r, F)
    PROVE  /\ LastDrop(e, s) = 0
           /\ \A k \in Surviving(e, s) : \E f \in F : e[k] = Erase(s, f) \/ e[k] \in Restores(s, f, r)
           /\ \A f \in F : \E k \in Surviving(e, s) : e[k] = Erase(s, f)
           /\ \A f \in F : \A y \in Restores(s, f, r) : \A k \in Surviving(e, s) :
                 e[k] = Erase(s, f) => \E j \in Surviving(e, s) : k < j /\ e[j] = y
<1>1. /\ LastDrop(e, s) \in 0 .. n
      /\ LastDrop(e, s) # 0 =>
            LastDrop(e, s) \in DOMAIN e /\ e[LastDrop(e, s)].op = "drop" /\ e[LastDrop(e, s)].on = s
    BY LastDropType
<1>2. /\ DOMAIN e \subseteq 1 .. n
      /\ \A k \in DOMAIN e : e[k] \in Range(e)
      /\ \A p \in Range(e) : \E k \in DOMAIN e : e[k] = p
    BY DEF Range, IsBatch
<1>3. \A k \in DOMAIN e : e[k].on = s =>
          \E f \in F : e[k] = Erase(s, f) \/ e[k] \in Restores(s, f, r)
    BY <1>2 DEF Restoring
<1>4. \A k \in DOMAIN e : e[k].on = s => e[k].op # "drop"
    BY <1>3, RestoringPatch
<1>5. LastDrop(e, s) = 0
    BY <1>1, <1>4
<1>6. \A k : k \in Surviving(e, s) <=> k \in DOMAIN e /\ e[k].on = s
    BY <1>2, <1>5 DEF Surviving
<1>7. \A f \in F : Erase(s, f).on = s /\ \A y \in Restores(s, f, r) : y.on = s
    BY DEF Erase, Restores, Assign, Insert
<1>8. \A f \in F : \E k \in Surviving(e, s) : e[k] = Erase(s, f)
    BY <1>2, <1>6, <1>7 DEF Restoring
<1>9. ASSUME NEW f \in F, NEW y \in Restores(s, f, r), NEW k \in Surviving(e, s),
             e[k] = Erase(s, f)
      PROVE  \E j \in Surviving(e, s) : k < j /\ e[j] = y
  <2>1. FollowedBy(e, Erase(s, f), y)
      BY DEF Restoring
  <2>2. PICK j \in DOMAIN e : k < j /\ e[j] = y
      BY <1>6, <1>9, <2>1 DEF FollowedBy
  <2> QED
      BY <1>6, <1>7, <2>2
<1> QED
    BY <1>3, <1>5, <1>6, <1>8, <1>9

LEMMA RestoredScalar ==
    ASSUME NEW n \in Nat, NEW e, IsBatch(e, n), NEW s \in Subject, NEW r \in FullRecord,
           NEW F \in SUBSET Field, Restoring(e, s, r, F), NEW f \in Scalar, NEW old
    PROVE  /\ f \in F => ScalarAfter(e, s, f, old) = r.scalar[f]
           /\ f \notin F => ScalarWrites(e, s, f) = {}
<1> DEFINE W == ScalarWrites(e, s, f)
<1>1. /\ \A k \in Surviving(e, s) : \E g \in F : e[k] = Erase(s, g) \/ e[k] \in Restores(s, g, r)
      /\ \A g \in F : \E k \in Surviving(e, s) : e[k] = Erase(s, g)
      /\ \A g \in F : \A y \in Restores(s, g, r) : \A k \in Surviving(e, s) :
            e[k] = Erase(s, g) => \E j \in Surviving(e, s) : k < j /\ e[j] = y
    BY RestoringLast
<1>2. \A k : k \in W <=> k \in Surviving(e, s) /\ e[k].op \in {"assign", "erase"} /\ e[k].prop = f
    BY DEF ScalarWrites
<1>3. W \subseteq 0 .. n
    BY WritesArePositions
<1>4. ASSUME NEW k \in W
      PROVE  f \in F /\ (e[k] = Erase(s, f) \/ e[k] \in Restores(s, f, r))
  <2>1. PICK g \in F : e[k] = Erase(s, g) \/ e[k] \in Restores(s, g, r)
      BY <1>1, <1>2
  <2>2. g = f
      BY <1>2, <2>1, RestoringPatch
  <2> QED
      BY <2>1, <2>2
<1>5. ASSUME f \in F
      PROVE  ScalarAfter(e, s, f, old) = r.scalar[f]
  <2>1. PICK k \in Surviving(e, s) : e[k] = Erase(s, f)
      BY <1>1, <1>5
  <2>2. k \in W
      BY <1>2, <2>1 DEF Erase
  <2> HIDE DEF W
  <2>3. PICK l : l = Max(W) /\ l \in W /\ \A y \in W : y <= l
      BY <1>3, <2>2, MaxIsLast
  <2>4. f \in Field
      BY DEF Field
  <2>5. CASE e[l].op = "assign"
    <3>1. e[l].value = r.scalar[f]
        BY <1>4, <2>3, <2>4, <2>5, RestoringPatch
    <3> QED
        BY <2>2, <2>3, <2>5, <3>1 DEF ScalarAfter, W
  <2>6. CASE e[l].op # "assign"
    <3>1. e[l] = Erase(s, f)
        BY <1>2, <1>4, <2>3, <2>4, <2>6, RestoringPatch
    <3>2. ASSUME r.scalar[f] # Missing
          PROVE  FALSE
      <4>1. PICK y : y = Assign(s, f, r.scalar[f])
          OBVIOUS
      <4>2. y \in Restores(s, f, r) /\ y.op = "assign" /\ y.prop = f
          BY <3>2, <4>1 DEF Restores, Assign
      <4>3. l \in Surviving(e, s)
          BY <1>2, <2>3
      <4>4. PICK j \in Surviving(e, s) : l < j /\ e[j] = y
          BY <1>1, <1>5, <3>1, <4>2, <4>3
      <4>5. j \in W
          BY <1>2, <4>2, <4>4
      <4>6. W \subseteq Nat
          BY <1>3
      <4>7. j <= l /\ j \in Nat /\ l \in Nat
          BY <2>3, <4>5, <4>6
      <4> QED
          BY <4>4, <4>7
    <3> QED
        BY <2>2, <2>3, <2>6, <3>2 DEF ScalarAfter, W
  <2> QED
      BY <2>5, <2>6
<1> QED
    BY <1>4, <1>5

LEMMA RestoredMember ==
    ASSUME NEW n \in Nat, NEW e, IsBatch(e, n), NEW s \in Subject, NEW r \in FullRecord,
           NEW F \in SUBSET Field, Restoring(e, s, r, F), NEW f \in SetField, NEW m \in Member,
           NEW old
    PROVE  /\ f \in F => (MemberAfter(e, s, f, m, old) <=> m \in r.members[f])
           /\ f \notin F => MemberWrites(e, s, f, m) = {}
<1> DEFINE W == MemberWrites(e, s, f, m)
<1>1. /\ \A k \in Surviving(e, s) : \E g \in F : e[k] = Erase(s, g) \/ e[k] \in Restores(s, g, r)
      /\ \A g \in F : \E k \in Surviving(e, s) : e[k] = Erase(s, g)
      /\ \A g \in F : \A y \in Restores(s, g, r) : \A k \in Surviving(e, s) :
            e[k] = Erase(s, g) => \E j \in Surviving(e, s) : k < j /\ e[j] = y
    BY RestoringLast
<1>2. \A k : k \in W <=> /\ k \in Surviving(e, s) /\ e[k].prop = f
                         /\ \/ e[k].op = "erase"
                            \/ e[k].op \in {"insert", "discard"} /\ m \in e[k].value
    BY DEF MemberWrites, IsSetPatch
<1>3. W \subseteq 0 .. n
    BY WritesArePositions
<1>4. ASSUME NEW k \in W
      PROVE  f \in F /\ (e[k] = Erase(s, f) \/ e[k] \in Restores(s, f, r))
  <2>1. PICK g \in F : e[k] = Erase(s, g) \/ e[k] \in Restores(s, g, r)
      BY <1>1, <1>2
  <2>2. g = f
      BY <1>2, <2>1, RestoringPatch
  <2> QED
      BY <2>1, <2>2
<1>5. ASSUME f \in F
      PROVE  MemberAfter(e, s, f, m, old) <=> m \in r.members[f]
  <2>1. PICK k \in Surviving(e, s) : e[k] = Erase(s, f)
      BY <1>1, <1>5
  <2>2. k \in W
      BY <1>2, <2>1 DEF Erase
  <2> HIDE DEF W
  <2>3. PICK l : l = Max(W) /\ l \in W /\ \A y \in W : y <= l
      BY <1>3, <2>2, MaxIsLast
  <2>4. f \in Field /\ f \notin Scalar
      BY PropertyKindsDisjoint DEF Field
  <2>5. MemberAfter(e, s, f, m, old) = (e[l].op = "insert")
      BY <2>2, <2>3 DEF MemberAfter, W
  <2>6. CASE e[l].op = "insert"
    <3>1. m \in r.members[f]
        BY <1>2, <1>4, <2>3, <2>4, <2>6, RestoringPatch
    <3> QED
        BY <2>5, <2>6, <3>1
  <2>7. CASE e[l].op # "insert"
    <3>1. e[l] = Erase(s, f)
        BY <1>2, <1>4, <2>3, <2>4, <2>7, RestoringPatch
    <3>2. ASSUME m \in r.members[f]
          PROVE  FALSE
      <4>1. PICK y : y = Insert(s, f, r.members[f])
          OBVIOUS
      <4>2. y \in Restores(s, f, r) /\ y.op = "insert" /\ y.prop = f /\ m \in y.value
          BY <2>4, <3>2, <4>1 DEF Restores, Insert
      <4>3. l \in Surviving(e, s)
          BY <1>2, <2>3
      <4>4. PICK j \in Surviving(e, s) : l < j /\ e[j] = y
          BY <1>1, <1>5, <3>1, <4>2, <4>3
      <4>5. j \in W
          BY <1>2, <4>2, <4>4
      <4>6. W \subseteq Nat
          BY <1>3
      <4>7. j <= l /\ j \in Nat /\ l \in Nat
          BY <2>3, <4>5, <4>6
      <4> QED
          BY <4>4, <4>7
    <3> QED
        BY <2>5, <2>7, <3>2
  <2> QED
      BY <2>6, <2>7
<1> QED
    BY <1>4, <1>5

\* The properties it erases a record has again as r has them, the others as before.
LEMMA RestoredRecord ==
    ASSUME NEW n \in Nat, NEW e, IsBatch(e, n), NEW s \in Subject, NEW r \in FullRecord,
           NEW F \in SUBSET Field, Restoring(e, s, r, F), NEW q \in FullRecord
    PROVE  LET z == After(e, s, q, BrowserFresh)
           IN  /\ z # Absent
               /\ \A c \in Cell : c.kind # "here" =>
                     Look(z, c) = IF c.prop \in F THEN Look(r, c) ELSE Look(q, c)
<1>1. LastDrop(e, s) = 0
    BY RestoringLast
<1>2. q \in Record /\ q # Absent /\ r # Absent
    BY AbsentIsNoRecord DEF FullRecord
<1>3. PICK z : z = After(e, s, q, BrowserFresh)
    OBVIOUS
<1>4. z = q \/ z = RecordAfter(e, s, q)
    BY <1>1, <1>2, <1>3 DEF After
<1>5. RecordAfter(e, s, q) # Absent
    BY <1>2, RecordAfterType, AbsentIsNoRecord
<1>6. z # Absent
    BY <1>2, <1>4, <1>5
<1>7. ASSUME NEW c \in Cell, c.kind = "scalar"
      PROVE  Look(z, c) = IF c.prop \in F THEN Look(r, c) ELSE Look(q, c)
  <2>1. c.prop \in Scalar
      BY <1>7 DEF Cell
  <2>2. PICK f \in Scalar : f = c.prop
      BY <2>1
  <2>3. ScalarAfter(e, s, f, q.scalar[f]) = IF f \in F THEN r.scalar[f] ELSE q.scalar[f]
      BY RestoredScalar DEF ScalarAfter
  <2>4. RecordAfter(e, s, q).scalar[f] = ScalarAfter(e, s, f, q.scalar[f])
      BY DEF RecordAfter
  <2>5. f \in F => z = RecordAfter(e, s, q)
    <3>1. f \in F => Surviving(e, s) # {}
        BY RestoringLast
    <3> QED
        BY <1>1, <1>2, <1>3, <3>1 DEF After
  <2> QED
      BY <1>2, <1>4, <1>6, <1>7, <2>2, <2>3, <2>4, <2>5 DEF Look
<1>8. ASSUME NEW c \in Cell, c.kind = "member"
      PROVE  Look(z, c) = IF c.prop \in F THEN Look(r, c) ELSE Look(q, c)
  <2>1. c.prop \in SetField /\ c.member \in Member
      BY <1>8 DEF Cell
  <2>2. PICK f \in SetField, m \in Member : f = c.prop /\ m = c.member
      BY <2>1
  <2>3. PICK old : old = (m \in q.members[f])
      OBVIOUS
  <2>4. /\ f \in F => (MemberAfter(e, s, f, m, m \in q.members[f]) <=> m \in r.members[f])
        /\ f \notin F => (MemberAfter(e, s, f, m, m \in q.members[f]) <=> m \in q.members[f])
      BY RestoredMember DEF MemberAfter
  <2>5. m \in RecordAfter(e, s, q).members[f] <=> MemberAfter(e, s, f, m, m \in q.members[f])
      BY DEF RecordAfter
  <2>6. f \in F => z = RecordAfter(e, s, q)
    <3>1. f \in F => Surviving(e, s) # {}
        BY RestoringLast
    <3> QED
        BY <1>1, <1>2, <1>3, <3>1 DEF After
  <2>7. m \in z.members[f] <=> IF f \in F THEN m \in r.members[f] ELSE m \in q.members[f]
      BY <1>4, <2>4, <2>5, <2>6
  <2> QED
      BY <1>2, <1>6, <1>8, <2>2, <2>7 DEF Look
<1>9. \A c \in Cell : c.kind \in {"here", "scalar", "member"}
    BY DEF Cell
<1> QED
    BY <1>3, <1>6, <1>7, <1>8, <1>9

\* What undoes a batch in one record.
LEMMA InverseRestoresRecord ==
    ASSUME NEW b \in Batch, NEW st \in Store, NEW s \in Touched(b)
    PROVE  After(InverseOf(b, st), s, After(b, s, st[s], BrowserFresh), BrowserFresh) = st[s]
<1>1. PICK e, r, q : /\ e = InverseOf(b, st) /\ r = st[s]
                     /\ q = After(b, s, st[s], BrowserFresh)
    OBVIOUS
<1>2. s \in Subject /\ r \in FullRecord \cup {Absent}
    BY <1>1, TouchedAreSubjects DEF Store
<1>3. q \in FullRecord \cup {Absent}
    BY <1>1, <1>2, FullRecordsStay
<1>4. e \in Batch
    BY <1>1, InverseType, SeqIsBatch
<1>5. PICK n \in Nat : IsBatch(e, n)
    BY <1>4, BatchIsBatch
<1>6. PICK i : i = RecordInverse(b, s, r)
    OBVIOUS
<1>7. /\ \A p : p \in Range(e) /\ p.on = s <=> p \in Range(i)
      /\ \A x, y : x.on = s /\ FollowedBy(i, x, y) => FollowedBy(e, x, y)
    BY <1>1, <1>2, <1>6, InverseSays
<1>8. /\ DOMAIN e \subseteq 1 .. n
      /\ \A k \in DOMAIN e : e[k] \in Range(e)
      /\ \A p \in Range(e) : \E k \in DOMAIN e : e[k] = p
    BY <1>5 DEF Range, IsBatch
<1>9. /\ LastDrop(e, s) \in 0 .. n
      /\ \A k \in DOMAIN e : e[k].op = "drop" /\ e[k].on = s => k <= LastDrop(e, s)
      /\ LastDrop(e, s) # 0 =>
            /\ LastDrop(e, s) \in DOMAIN e
            /\ e[LastDrop(e, s)].op = "drop" /\ e[LastDrop(e, s)].on = s
    BY <1>5, LastDropType
<1>10. Drop(s).on = s /\ Drop(s).op = "drop"
    BY DEF Drop
<1>11. CASE r = Absent
  <2>1. Range(i) = {Drop(s)}
      BY <1>2, <1>6, <1>11, RecordInverseSays
  <2>2. PICK k \in DOMAIN e : e[k] = Drop(s)
      BY <1>7, <1>8, <1>10, <2>1
  <2>3. LastDrop(e, s) > 0
      BY <1>8, <1>9, <1>10, <2>2
  <2>4. Surviving(e, s) = {}
    <3> SUFFICES ASSUME NEW j \in Surviving(e, s) PROVE FALSE
        OBVIOUS
    <3>1. j \in DOMAIN e /\ e[j].on = s /\ j > LastDrop(e, s)
        BY DEF Surviving
    <3>2. e[j] = Drop(s)
        BY <1>7, <1>8, <2>1, <3>1
    <3> QED
        BY <1>8, <1>9, <1>10, <3>1, <3>2
  <2>5. After(e, s, q, BrowserFresh) = Absent
      BY <2>3, <2>4 DEF After
  <2> QED
      BY <1>1, <1>11, <2>5
<1>12. CASE r # Absent /\ Rooted(b, s)
  <2>1. /\ Range(i) = {Drop(s)} \cup Range(Whole(s, r))
        /\ \A y \in Range(Whole(s, r)) : FollowedBy(i, Drop(s), y)
      BY <1>2, <1>6, <1>12, RecordInverseSays
  <2>2. PICK k \in DOMAIN e : e[k] = Drop(s)
      BY <1>7, <1>8, <1>10, <2>1
  <2>3. LastDrop(e, s) > 0 /\ LastDrop(e, s) \in DOMAIN e
      BY <1>8, <1>9, <1>10, <2>2
  <2>4. r \in FullRecord /\ \A p \in Range(Whole(s, r)) : p.on = s /\ p.op # "drop"
      BY <1>2, <1>12, WholeRange DEF Create, Identify, Assign, Insert
  <2>5. e[LastDrop(e, s)] = Drop(s)
      BY <1>7, <1>8, <1>9, <2>1, <2>3, <2>4
  <2>6. \A j \in Surviving(e, s) : e[j] \in Range(Whole(s, r))
    <3> SUFFICES ASSUME NEW j \in Surviving(e, s) PROVE e[j] \in Range(Whole(s, r))
        OBVIOUS
    <3>1. j \in DOMAIN e /\ e[j].on = s /\ j > LastDrop(e, s)
        BY DEF Surviving
    <3>2. e[j] # Drop(s)
        BY <1>8, <1>9, <1>10, <3>1
    <3> QED
        BY <1>7, <1>8, <2>1, <3>1, <3>2
  <2>7. \A p \in Range(Whole(s, r)) : \E j \in Surviving(e, s) : e[j] = p
    <3> SUFFICES ASSUME NEW p \in Range(Whole(s, r))
                 PROVE  \E j \in Surviving(e, s) : e[j] = p
        OBVIOUS
    <3>1. FollowedBy(e, Drop(s), p)
        BY <1>7, <1>10, <2>1
    <3>2. PICK j \in DOMAIN e : LastDrop(e, s) < j /\ e[j] = p
        BY <2>3, <2>5, <3>1 DEF FollowedBy
    <3>3. j > LastDrop(e, s)
        BY <1>8, <1>9, <3>2
    <3> QED
        BY <2>4, <3>2, <3>3 DEF Surviving
  <2>8. After(e, s, q, BrowserFresh) = r
      BY <1>2, <1>5, <2>3, <2>4, <2>6, <2>7, SurvivorsMakeRecord
  <2> QED
      BY <1>1, <2>8
<1>13. CASE r # Absent /\ ~Rooted(b, s)
  <2>1. PICK F : F = NamedFields(b, s)
      OBVIOUS
  <2>2. F \in SUBSET Field /\ r \in FullRecord
      BY <1>2, <1>13, <2>1 DEF NamedFields
  <2>3. /\ \A p : p \in Range(i) <=> \E f \in F : p = Erase(s, f) \/ p \in Restores(s, f, r)
        /\ \A f \in F : \A y \in Restores(s, f, r) : FollowedBy(i, Erase(s, f), y)
      BY <1>2, <1>6, <1>13, <2>1, RecordInverseSays
  <2>4. \A f : Erase(s, f).on = s
      BY DEF Erase
  <2>5. Restoring(e, s, r, F)
      BY <1>7, <2>3, <2>4 DEF Restoring
  <2>6. q \in FullRecord
      BY <1>1, <1>2, <1>3, <1>13, UnrootedLeavesRecord
  <2>7. PICK z : z = After(e, s, q, BrowserFresh)
      OBVIOUS
  <2>8. /\ z # Absent
        /\ \A c \in Cell : c.kind # "here" =>
              Look(z, c) = IF c.prop \in F THEN Look(r, c) ELSE Look(q, c)
      BY <1>2, <1>5, <2>2, <2>5, <2>6, <2>7, RestoredRecord
  <2>9. ASSUME NEW c \in Cell, c.kind # "here", c.prop \notin F
        PROVE  Look(q, c) = Look(r, c)
    <3>1. PICK k \in Nat : IsBatch(b, k)
        BY BatchIsBatch
    <3>2. c.prop \in Field
        BY <2>9 DEF Cell, Field
    <3>3. ~Bears(b, s, c)
      <4>1. Bears(b, s, c) => \E p \in Range(b) : Place(p) = <<s, c.prop>>
          BY <1>13, <2>9, UnrootedLeavesRecord
      <4> QED
          BY <2>1, <2>9, <3>2, <4>1 DEF NamedFields
    <3>4. r \in Record \cup {Absent}
        BY <1>2 DEF FullRecord
    <3> QED
        BY <1>1, <3>1, <3>3, <3>4, AfterCell DEF BrowserFresh
  <2>10. ASSUME NEW c \in Cell
         PROVE  Look(z, c) = Look(r, c)
    <3>1. CASE c.kind = "here"
        BY <1>13, <2>8, <3>1 DEF Look
    <3>2. CASE c.kind # "here"
        BY <2>8, <2>9, <3>2
    <3> QED
        BY <3>1, <3>2
  <2>11. z \in FullRecord \cup {Absent}
      BY <1>3, <1>4, <2>7, FullRecordsStay
  <2>12. z = r
      BY <1>2, <2>10, <2>11, CellsMakeRecord
  <2> QED
      BY <1>1, <2>7, <2>12
<1> QED
    BY <1>2, <1>11, <1>12, <1>13

\* A batch and what undoes it leave the records as they were.
LEMMA InverseRestores ==
    ASSUME NEW b \in Batch, NEW st \in Store
    PROVE  ApplyPatches(InverseOf(b, st), ApplyPatches(b, st, BrowserFresh), BrowserFresh) = st
<1>1. PICK e, mid : e = InverseOf(b, st) /\ mid = ApplyPatches(b, st, BrowserFresh)
    OBVIOUS
<1>2. \A s \in Subject : mid[s] = After(b, s, st[s], BrowserFresh)
    BY <1>1 DEF ApplyPatches
<1>3. ASSUME NEW s \in Subject
      PROVE  After(e, s, mid[s], BrowserFresh) = st[s]
  <2>1. CASE s \in Touched(b)
      BY <1>1, <1>2, <2>1, InverseRestoresRecord
  <2>2. CASE s \notin Touched(b)
    <3>1. e \in Batch
        BY <1>1, InverseType, SeqIsBatch
    <3>2. PICK m \in Nat, n \in Nat : IsBatch(b, m) /\ IsBatch(e, n)
        BY <3>1, BatchIsBatch
    <3>3. s \notin Touched(e)
        BY <1>1, <2>2, InverseSays
    <3>4. mid[s] = st[s]
        BY <1>2, <2>2, <3>2, UntouchedStays
    <3> QED
        BY <3>2, <3>3, <3>4, UntouchedStays
  <2> QED
      BY <2>1, <2>2
<1>4. st = [s \in Subject |-> st[s]]
    BY DEF Store
<1>5. ApplyPatches(e, mid, BrowserFresh) = st
    BY <1>3, <1>4 DEF ApplyPatches
<1> QED
    BY <1>1, <1>5

\* Stores that are the same at a place show the same in its cells.
LEMMA PlacesMakeCells ==
    ASSUME NEW st1 \in Store, NEW st2 \in Store, NEW x \in Places, At(st1, x) = At(st2, x)
    PROVE  /\ Look(st1[x[1]], Here) = Look(st2[x[1]], Here)
           /\ \A c \in Cell : PlaceOf(x[1], c) = x => Look(st1[x[1]], c) = Look(st2[x[1]], c)
<1>1. PICK s \in Subject, f \in Field \cup {NoTarget} : x = <<s, f>>
    BY DEF Places
<1>2. PICK r, q : r = st1[s] /\ q = st2[s]
    OBVIOUS
<1>3. /\ At(st1, x) = IF r = Absent THEN {} ELSE IF f = NoTarget THEN {NoTarget}
                      ELSE IF f \in Scalar THEN {r.scalar[f]} ELSE {r.members[f]}
      /\ At(st2, x) = IF q = Absent THEN {} ELSE IF f = NoTarget THEN {NoTarget}
                      ELSE IF f \in Scalar THEN {q.scalar[f]} ELSE {q.members[f]}
    BY <1>1, <1>2 DEF At
<1>4. r = Absent <=> q = Absent
    BY <1>3
<1>5. Look(r, Here) = Look(q, Here)
    BY <1>4 DEF Look, Here
<1>6. ASSUME NEW c \in Cell, PlaceOf(s, c) = x
      PROVE  Look(r, c) = Look(q, c)
  <2>1. CASE c.kind = "here"
      BY <1>4, <2>1 DEF Look
  <2>2. CASE c.kind = "scalar"
    <3>1. c.prop \in Scalar /\ c.prop = f
        BY <1>1, <1>6, <2>2 DEF Cell, PlaceOf
    <3>2. f # NoTarget
        BY <3>1, NoTargetIsNoField DEF Field
    <3> QED
        BY <1>3, <1>4, <2>2, <3>1, <3>2 DEF Look
  <2>3. CASE c.kind = "member"
    <3>1. c.prop \in SetField /\ c.prop = f
        BY <1>1, <1>6, <2>3 DEF Cell, PlaceOf
    <3>2. f # NoTarget /\ f \notin Scalar
        BY <3>1, NoTargetIsNoField, PropertyKindsDisjoint DEF Field
    <3> QED
        BY <1>3, <1>4, <2>3, <3>1, <3>2 DEF Look
  <2> QED
      BY <2>1, <2>2, <2>3 DEF Cell
<1> QED
    BY <1>1, <1>2, <1>5, <1>6

\* A batch makes a place the same where it was the same.
LEMMA PlacesStaySame ==
    ASSUME NEW b \in Batch, NEW st1 \in Store, NEW st2 \in Store
    PROVE  Differ(ApplyPatches(b, st1, BrowserFresh), ApplyPatches(b, st2, BrowserFresh))
              \subseteq Differ(st1, st2)
<1>1. PICK q1, q2 : q1 = ApplyPatches(b, st1, BrowserFresh) /\ q2 = ApplyPatches(b, st2, BrowserFresh)
    OBVIOUS
<1>2. q1 \in Store /\ q2 \in Store
    BY <1>1, StoreStays
<1>3. PICK n \in Nat : IsBatch(b, n)
    BY BatchIsBatch
<1>4. ASSUME NEW x \in Places, At(st1, x) = At(st2, x)
      PROVE  At(q1, x) = At(q2, x)
  <2>1. PICK s \in Subject : s = x[1]
      BY DEF Places
  <2>2. /\ q1[s] = After(b, s, st1[s], BrowserFresh) /\ q2[s] = After(b, s, st2[s], BrowserFresh)
        /\ st1[s] \in Record \cup {Absent} /\ st2[s] \in Record \cup {Absent}
      BY <1>1 DEF ApplyPatches, Store, FullRecord
  <2>3. ASSUME NEW c \in Cell, Look(st1[s], c) = Look(st2[s], c)
        PROVE  Look(q1[s], c) = Look(q2[s], c)
    <3>1. CASE Bears(b, s, c)
        BY <1>3, <2>2, <3>1, AfterCell DEF BrowserFresh
    <3>2. CASE ~Bears(b, s, c)
        BY <1>3, <2>2, <2>3, <3>2, AfterCell DEF BrowserFresh
    <3> QED
        BY <3>1, <3>2
  <2>4. /\ Look(st1[s], Here) = Look(st2[s], Here)
        /\ \A c \in Cell : PlaceOf(s, c) = x => Look(st1[s], c) = Look(st2[s], c)
      BY <1>4, <2>1, PlacesMakeCells
  <2>5. /\ Look(q1[s], Here) = Look(q2[s], Here)
        /\ \A c \in Cell : PlaceOf(s, c) = x => Look(q1[s], c) = Look(q2[s], c)
      BY <2>3, <2>4, HereIsCell
  <2> QED
      BY <1>2, <2>1, <2>5, CellsMakePlaces
<1> QED
    BY <1>1, <1>4 DEF Differ

-----------------------------------------------------------------------------
(* The undo stack, unwound. *)

LEMMA UnwindSteps ==
    ASSUME NEW stack, NEW st
    PROVE  /\ Unwind(stack, st, 0) = st
           /\ \A n \in Nat \ {0} : Unwind(stack, st, n)
                 = ApplyPatches(stack[Len(stack) - n + 1], Unwind(stack, st, n - 1), BrowserFresh)
<1> DEFINE Step(P) == [i \in Nat |->
              IF i = 0 THEN st
              ELSE ApplyPatches(stack[Len(stack) - i + 1], P[i - 1], BrowserFresh)]
           Unwound == CHOOSE P : P = Step(P)
           L == [n \in Nat |-> stack[Len(stack) - n + 1]]
<1>1. PICK R : Applies(R, L, st, BrowserFresh)
    BY ReplayExists
<1>2. R = Step(R)
    BY <1>1 DEF Applies
<1>3. Unwound = Step(Unwound)
  <2> HIDE DEF Step
  <2> QED
      BY <1>2
<1>4. \A k : Unwind(stack, st, k) = Unwound[k]
    BY DEF Unwind
<1> HIDE DEF Unwound
<1>5. /\ Unwound[0] = st
      /\ \A n \in Nat \ {0} : Unwound[n]
            = ApplyPatches(stack[Len(stack) - n + 1], Unwound[n - 1], BrowserFresh)
    BY <1>3
<1> QED
    BY <1>4, <1>5

LEMMA UnwindType ==
    ASSUME NEW stack \in Seq(Seq(Patch)), NEW st \in Store
    PROVE  \A k \in 0 .. Len(stack) : Unwind(stack, st, k) \in Store
<1> DEFINE T == {k \in 0 .. Len(stack) : Unwind(stack, st, k) \notin Store}
<1> SUFFICES ASSUME T # {}
             PROVE  FALSE
    OBVIOUS
<1>1. T \subseteq Nat
    OBVIOUS
<1>2. PICK k \in T : \A j \in T : k <= j
    BY <1>1, LeastNat
<1>3. k # 0
    BY <1>2, UnwindSteps
<1>4. k - 1 \in 0 .. Len(stack) /\ k - 1 \notin T /\ k \in Nat \ {0}
    BY <1>1, <1>2, <1>3
<1>5. Unwind(stack, st, k - 1) \in Store
    BY <1>4
<1>6. stack[Len(stack) - k + 1] \in Seq(Patch)
  <2>1. Len(stack) - k + 1 \in 1 .. Len(stack)
      BY <1>2, <1>3
  <2> QED
      BY <2>1
<1>7. Unwind(stack, st, k) \in Store
    BY <1>4, <1>5, <1>6, UnwindSteps, SeqIsBatch, StoreStays
<1> QED
    BY <1>2, <1>7

\* What two stores have in common they have in common when unwound.
LEMMA UnwindSame ==
    ASSUME NEW stack \in Seq(Seq(Patch)), NEW st1 \in Store, NEW st2 \in Store
    PROVE  \A k \in 0 .. Len(stack) :
              Differ(Unwind(stack, st1, k), Unwind(stack, st2, k)) \subseteq Differ(st1, st2)
<1> DEFINE Same(k) ==
              Differ(Unwind(stack, st1, k), Unwind(stack, st2, k)) \subseteq Differ(st1, st2)
           T == {k \in 0 .. Len(stack) : ~Same(k)}
<1> SUFFICES ASSUME T # {}
             PROVE  FALSE
    OBVIOUS
<1>1. T \subseteq Nat
    OBVIOUS
<1>2. PICK k \in T : \A j \in T : k <= j
    BY <1>1, LeastNat
<1>3. Same(0)
    BY UnwindSteps
<1>4. k # 0
  <2> HIDE DEF Same
  <2> QED
      BY <1>2, <1>3
<1>5. k - 1 \in 0 .. Len(stack) /\ k - 1 \notin T /\ k \in Nat \ {0} /\ k \in 0 .. Len(stack)
  <2> HIDE DEF Same
  <2> QED
      BY <1>1, <1>2, <1>4
<1>6. PICK p, q, b : /\ p = Unwind(stack, st1, k - 1) /\ q = Unwind(stack, st2, k - 1)
                     /\ b = stack[Len(stack) - k + 1]
    OBVIOUS
<1>7. p \in Store /\ q \in Store
    BY <1>5, <1>6, UnwindType
<1>8. b \in Batch
  <2>1. Len(stack) - k + 1 \in 1 .. Len(stack)
      BY <1>5
  <2> QED
      BY <1>6, <2>1, SeqIsBatch
<1>9. Differ(p, q) \subseteq Differ(st1, st2)
    BY <1>5, <1>6
<1>10. /\ Unwind(stack, st1, k) = ApplyPatches(b, p, BrowserFresh)
       /\ Unwind(stack, st2, k) = ApplyPatches(b, q, BrowserFresh)
  <2>1. \A st : \A n \in Nat \ {0} : Unwind(stack, st, n)
           = ApplyPatches(stack[Len(stack) - n + 1], Unwind(stack, st, n - 1), BrowserFresh)
      BY UnwindSteps
  <2> QED
      BY <1>5, <1>6, <2>1
<1>11. Differ(ApplyPatches(b, p, BrowserFresh), ApplyPatches(b, q, BrowserFresh)) \subseteq Differ(p, q)
    BY <1>7, <1>8, PlacesStaySame
<1>12. Same(k)
    BY <1>9, <1>10, <1>11
<1> QED
    BY <1>2, <1>12

\* Below its newest entry the stack q has the newest m entries of p.
Covers(q, p, m) == \A i \in 1 .. m : q[Len(q) - i] = p[Len(p) - i + 1]

\* A stack q whose newest entry leads from one store to the other.
LEMMA UnwindShifted ==
    ASSUME NEW p \in Seq(Seq(Patch)), NEW q \in Seq(Seq(Patch)), NEW st, NEW next,
           NEW m \in Nat, ApplyPatches(q[Len(q)], next, BrowserFresh) = st, Covers(q, p, m)
    PROVE  \A i \in 0 .. m : Unwind(q, next, i + 1) = Unwind(p, st, i)
<1> DEFINE Shifted(i) == Unwind(q, next, i + 1) = Unwind(p, st, i)
           T == {i \in 0 .. m : ~Shifted(i)}
<1> SUFFICES ASSUME T # {}
             PROVE  FALSE
    OBVIOUS
<1>1. T \subseteq Nat /\ Len(p) \in Nat /\ Len(q) \in Nat
    OBVIOUS
<1>2. PICK i \in T : \A j \in T : i <= j
    BY <1>1, LeastNat
<1>3. Shifted(0)
  <2>1. Unwind(q, next, 0) = next /\ Unwind(p, st, 0) = st
      BY UnwindSteps
  <2>2. Unwind(q, next, 1) = ApplyPatches(q[Len(q) - 1 + 1], Unwind(q, next, 1 - 1), BrowserFresh)
      BY UnwindSteps
  <2>3. Len(q) - 1 + 1 = Len(q) /\ 1 - 1 = 0 /\ 0 + 1 = 1
      BY <1>1
  <2> QED
      BY <2>1, <2>2, <2>3
<1>4. i # 0
    BY <1>2, <1>3
<1>5. i - 1 \in 0 .. m /\ i - 1 \notin T /\ i \in 1 .. m /\ i \in Nat \ {0} /\ i + 1 \in Nat \ {0}
    BY <1>1, <1>2, <1>4
<1>6. Unwind(q, next, i) = Unwind(p, st, i - 1)
  <2>1. Shifted(i - 1) /\ (i - 1) + 1 = i
      BY <1>5
  <2> HIDE DEF T
  <2> QED
      BY <2>1
<1>7. Unwind(p, st, i) = ApplyPatches(p[Len(p) - i + 1], Unwind(p, st, i - 1), BrowserFresh)
  <2>1. \A n \in Nat \ {0} : Unwind(p, st, n)
           = ApplyPatches(p[Len(p) - n + 1], Unwind(p, st, n - 1), BrowserFresh)
      BY UnwindSteps
  <2> QED
      BY <1>5, <2>1
<1>8. Unwind(q, next, i + 1) = ApplyPatches(q[Len(q) - i], Unwind(q, next, i), BrowserFresh)
  <2>1. Unwind(q, next, i + 1)
           = ApplyPatches(q[Len(q) - (i + 1) + 1], Unwind(q, next, (i + 1) - 1), BrowserFresh)
    <3>1. \A n \in Nat \ {0} : Unwind(q, next, n)
             = ApplyPatches(q[Len(q) - n + 1], Unwind(q, next, n - 1), BrowserFresh)
        BY UnwindSteps
    <3> QED
        BY <1>5, <3>1
  <2>2. Len(q) - (i + 1) + 1 = Len(q) - i /\ (i + 1) - 1 = i
      BY <1>1, <1>5
  <2> QED
      BY <2>1, <2>2
<1>9. q[Len(q) - i] = p[Len(p) - i + 1]
    BY <1>5 DEF Covers
<1>10. Shifted(i)
    BY <1>6, <1>7, <1>8, <1>9
<1> QED
    BY <1>2, <1>10

\* Stores that the newest entry makes the same.
LEMMA UnwindJoined ==
    ASSUME NEW q \in Seq(Seq(Patch)), Len(q) # 0, NEW st1, NEW st2,
           ApplyPatches(q[Len(q)], st1, BrowserFresh) = ApplyPatches(q[Len(q)], st2, BrowserFresh)
    PROVE  \A k \in 1 .. Len(q) : Unwind(q, st1, k) = Unwind(q, st2, k)
<1>1. PICK p, st : p = Front(q) /\ st = ApplyPatches(q[Len(q)], st1, BrowserFresh)
    OBVIOUS
<1>2. p \in Seq(Seq(Patch)) /\ Len(p) = Len(q) - 1 /\ Len(q) \in Nat
    BY <1>1, FrontType
<1>3. \A i \in 1 .. Len(p) : q[Len(q) - i] = p[Len(p) - i + 1]
  <2> SUFFICES ASSUME NEW i \in 1 .. Len(p)
               PROVE  q[Len(q) - i] = p[Len(p) - i + 1]
      OBVIOUS
  <2>1. Len(p) - i + 1 \in 1 .. Len(q) - 1 /\ Len(p) - i + 1 = Len(q) - i
      BY <1>2
  <2>2. p = [j \in 1 .. Len(q) - 1 |-> q[j]]
      BY <1>1, <1>2 DEF Front
  <2> QED
      BY <2>1, <2>2
<1>4. ASSUME NEW next, ApplyPatches(q[Len(q)], next, BrowserFresh) = st
      PROVE  \A i \in 0 .. Len(p) : Unwind(q, next, i + 1) = Unwind(p, st, i)
  <2>1. PICK m \in Nat : m = Len(p)
      BY <1>2
  <2>2. Covers(q, p, m)
      BY <1>3, <2>1 DEF Covers
  <2>3. \A i \in 0 .. m : Unwind(q, next, i + 1) = Unwind(p, st, i)
      BY <1>2, <1>4, <2>1, <2>2, UnwindShifted
  <2> QED
      BY <2>1, <2>3
<1> SUFFICES ASSUME NEW k \in 1 .. Len(q)
             PROVE  Unwind(q, st1, k) = Unwind(q, st2, k)
    OBVIOUS
<1>5. k - 1 \in 0 .. Len(p) /\ (k - 1) + 1 = k
    BY <1>2
<1>6. Unwind(q, st1, (k - 1) + 1) = Unwind(q, st2, (k - 1) + 1)
    BY <1>1, <1>4, <1>5
<1> QED
    BY <1>5, <1>6

-----------------------------------------------------------------------------
(* Runs of edits to one property. *)

ScalarCell(f) == [kind |-> "scalar", prop |-> f]

LEMMA SingleFieldSays ==
    ASSUME NEW b, SingleField(b) # NoTarget
    PROVE  \E s \in Subject, f \in Scalar :
              /\ SingleField(b) = <<s, f>> /\ DOMAIN b # {}
              /\ \A i \in DOMAIN b : Place(b[i]) = <<s, f>>
<1> DEFINE places == {Place(b[i]) : i \in DOMAIN b}
<1>1. Cardinality(places) = 1 /\ places \subseteq Subject \X Scalar
    BY DEF SingleField
<1>2. SingleField(b) = CHOOSE c \in places : TRUE
    BY <1>1 DEF SingleField
<1>3. \A i \in DOMAIN b : Place(b[i]) \in places
    OBVIOUS
<1>4. places # {} => DOMAIN b # {}
    OBVIOUS
<1> HIDE DEF places
<1>5. IsFiniteSet(Subject \X Scalar)
    BY NamesAreFinite, FS_Product
<1>6. IsFiniteSet(places)
    BY <1>1, <1>5, FS_Subset
<1>7. PICK x : places = {x}
    BY <1>1, <1>6, FS_Singleton
<1>8. PICK s \in Subject, f \in Scalar : x = <<s, f>>
    BY <1>1, <1>7
<1>9. SingleField(b) = x
    BY <1>2, <1>7
<1> QED
    BY <1>3, <1>4, <1>7, <1>8, <1>9

\* Such a batch changes the one property of a record and leaves the record there.
LEMMA SingleFieldBatch ==
    ASSUME NEW b \in Batch, NEW s \in Subject, NEW f \in Scalar,
           SingleField(b) # NoTarget, SingleField(b) = <<s, f>>
    PROVE  /\ Touched(b) = {s} /\ ~Rooted(b, s) /\ ~Creates(b, s)
           /\ f \in NamedFields(b, s)
           /\ \A z \in Subject, c \in Cell :
                 Bears(b, z, c) /\ c.kind # "here" => z = s /\ c = ScalarCell(f)
<1>1. f \in Field /\ f # NoTarget /\ f \notin SetField
    BY NoTargetIsNoField, PropertyKindsDisjoint DEF Field
<1>2. DOMAIN b # {} /\ \A i \in DOMAIN b : Place(b[i]) = <<s, f>>
    BY SingleFieldSays
<1>3. \A i \in DOMAIN b : b[i] \in Patch /\ b[i] \in Range(b)
    BY BatchIsBatch DEF IsBatch, Range
<1>4. ASSUME NEW i \in DOMAIN b
      PROVE  b[i].on = s /\ ~OnRoot(b[i])
  <2>1. b[i].on = s /\ "prop" \in DOMAIN b[i]
      BY <1>1, <1>2 DEF Place
  <2>2. b[i] \in RootPatch => "prop" \notin DOMAIN b[i]
      BY DEF RootPatch
  <2>3. b[i] \in AssignPatch \cup ErasePatch \cup HoldPatch \cup MemberPatch
      BY <1>3, <2>1, <2>2 DEF Patch
  <2>4. b[i].op \in {"assign", "erase", "hold", "insert", "discard"}
      BY <2>3 DEF AssignPatch, ErasePatch, HoldPatch, MemberPatch
  <2> QED
      BY <2>1, <2>4 DEF OnRoot
<1>5. Touched(b) = {s}
    BY <1>2, <1>4 DEF Touched
<1>6. ~Rooted(b, s)
    BY <1>4 DEF Rooted, Range
<1>7. f \in NamedFields(b, s)
    BY <1>1, <1>2, <1>3 DEF NamedFields
<1>8. ASSUME NEW z \in Subject, NEW c \in Cell, Bears(b, z, c), c.kind # "here"
      PROVE  z = s /\ c = ScalarCell(f)
  <2>1. z = s
      BY <1>5, <1>8, BearsTouched
  <2>2. PICK p \in Range(b) : Place(p) = <<s, c.prop>>
      BY <1>5, <1>6, <1>8, <2>1, UnrootedLeavesRecord
  <2>3. c.prop = f
      BY <1>2, <2>2 DEF Range
  <2>4. c.kind = "scalar"
      BY <1>1, <1>8, <2>3 DEF Cell
  <2> QED
      BY <2>1, <2>3, <2>4 DEF Cell, ScalarCell
<1> QED
    BY <1>5, <1>6, <1>7, <1>8, CreatesIsRooted

\* What undoes it decides that property.
LEMMA InverseBears ==
    ASSUME NEW b \in Batch, NEW st \in Store, NEW s \in Subject, NEW f \in Scalar,
           SingleField(b) # NoTarget, SingleField(b) = <<s, f>>, Fits(b, st)
    PROVE  Bears(InverseOf(b, st), s, ScalarCell(f))
<1>1. Touched(b) = {s} /\ ~Rooted(b, s) /\ ~Creates(b, s) /\ f \in NamedFields(b, s)
    BY SingleFieldBatch
<1>2. st[s] \in FullRecord \cup {Absent} /\ st[s] # Absent
    BY <1>1 DEF Fits, Store
<1>3. PICK e, i : e = InverseOf(b, st) /\ i = RecordInverse(b, s, st[s])
    OBVIOUS
<1>4. Erase(s, f).on = s /\ Erase(s, f).op = "erase" /\ Erase(s, f).prop = f
    BY DEF Erase
<1>5. Erase(s, f) \in Range(i)
    BY <1>1, <1>2, <1>3, RecordInverseSays
<1>6. Erase(s, f) \in Range(e)
    BY <1>1, <1>3, <1>4, <1>5, InverseSays
<1>7. PICK k \in DOMAIN e : e[k] = Erase(s, f)
    BY <1>6 DEF Range
<1>8. e \in Batch
    BY <1>3, InverseType, SeqIsBatch
<1>9. PICK n \in Nat : IsBatch(e, n)
    BY <1>8, BatchIsBatch
<1>10. k \in 1 .. n
    BY <1>9 DEF IsBatch
<1>11. LastDrop(e, s) = 0 => k \in ScalarWrites(e, s, f)
    BY <1>4, <1>7, <1>10 DEF ScalarWrites, Surviving
<1> QED
    BY <1>3, <1>11 DEF Bears, ScalarCell

\* The entry of a run undoes the edits that continue it as well.
LEMMA RunContinues ==
    ASSUME NEW b \in Batch, NEW e \in Batch, NEW st \in Store, NEW s \in Subject, NEW f \in Scalar,
           SingleField(b) # NoTarget, SingleField(b) = <<s, f>>, Fits(b, st),
           Bears(e, s, ScalarCell(f))
    PROVE  ApplyPatches(e, ApplyPatches(b, st, BrowserFresh), BrowserFresh)
              = ApplyPatches(e, st, BrowserFresh)
<1>1. PICK mid : mid = ApplyPatches(b, st, BrowserFresh)
    OBVIOUS
<1>2. mid \in Store
    BY <1>1, StoreStays
<1>3. PICK m \in Nat, n \in Nat : IsBatch(b, m) /\ IsBatch(e, n)
    BY BatchIsBatch
<1>4. /\ Touched(b) = {s} /\ ~Rooted(b, s) /\ ~Creates(b, s)
      /\ \A z \in Subject, c \in Cell :
            Bears(b, z, c) /\ c.kind # "here" => z = s /\ c = ScalarCell(f)
    BY SingleFieldBatch
<1>5. ASSUME NEW z \in Subject
      PROVE  After(e, z, mid[z], BrowserFresh) = After(e, z, st[z], BrowserFresh)
  <2>1. PICK p, q : p = st[z] /\ q = mid[z]
      OBVIOUS
  <2>2. p \in FullRecord \cup {Absent} /\ q \in FullRecord \cup {Absent}
      BY <1>2, <2>1 DEF Store
  <2>3. p \in Record \cup {Absent} /\ q \in Record \cup {Absent}
      BY <2>2 DEF FullRecord
  <2>4. q = After(b, z, p, BrowserFresh)
      BY <1>1, <2>1 DEF ApplyPatches
  <2>5. ASSUME NEW c \in Cell, ~Bears(e, z, c)
        PROVE  Look(q, c) = Look(p, c)
    <3>1. CASE ~Bears(b, z, c)
        BY <1>3, <2>3, <2>4, <3>1, AfterCell DEF BrowserFresh
    <3>2. CASE Bears(b, z, c) /\ c.kind # "here"
        BY <1>4, <2>5, <3>2
    <3>3. CASE Bears(b, z, c) /\ c.kind = "here"
      <4>1. z = s
          BY <1>4, <3>3, BearsTouched
      <4>2. p # Absent
          BY <1>4, <2>1, <4>1 DEF Fits
      <4>3. q # Absent
          BY <1>4, <2>2, <2>4, <4>1, UnrootedLeavesRecord
      <4> QED
          BY <3>3, <4>2, <4>3 DEF Look
    <3> QED
        BY <3>1, <3>2, <3>3
  <2>6. PICK x, y : x = After(e, z, q, BrowserFresh) /\ y = After(e, z, p, BrowserFresh)
      OBVIOUS
  <2>7. ASSUME NEW c \in Cell
        PROVE  Look(x, c) = Look(y, c)
    <3>1. CASE Bears(e, z, c)
        BY <1>3, <2>3, <2>6, <3>1, AfterCell DEF BrowserFresh
    <3>2. CASE ~Bears(e, z, c)
        BY <1>3, <2>3, <2>5, <2>6, <3>2, AfterCell DEF BrowserFresh
    <3> QED
        BY <3>1, <3>2
  <2>8. x \in FullRecord \cup {Absent} /\ y \in FullRecord \cup {Absent}
      BY <2>2, <2>6, FullRecordsStay
  <2>9. x = y
      BY <2>7, <2>8, CellsMakeRecord
  <2> QED
      BY <2>1, <2>6, <2>9
<1> QED
    BY <1>1, <1>5 DEF ApplyPatches

-----------------------------------------------------------------------------
(* The undo stacks give back what was there. *)

\* Unwinding the stack q from the records st gives the records of p, but for what
\* others have changed since.
GivesBack(q, st, p) ==
    \A k \in 1 .. Len(q) :
        Differ(Unwind(q, st, k), p[Len(q) - k + 1].store) \subseteq p[Len(q) - k + 1].foreign

\* Others change the records, which is noted.
LEMMA ForeignGivesBack ==
    ASSUME NEW q \in Seq(Seq(Patch)), NEW p \in Seq(Past), Len(p) = Len(q),
           NEW st1 \in Store, NEW st2 \in Store, GivesBack(q, st1, p), NEW w,
           w = [i \in DOMAIN p |-> [p[i] EXCEPT !.foreign = @ \cup Differ(st1, st2)]]
    PROVE  GivesBack(q, st2, w)
<1> SUFFICES ASSUME NEW k \in 1 .. Len(q), NEW x \in Places,
                    x \notin w[Len(q) - k + 1].foreign
             PROVE  At(Unwind(q, st2, k), x) = At(w[Len(q) - k + 1].store, x)
    BY DEF GivesBack, Differ
<1>1. PICK i \in 1 .. Len(q) : i = Len(q) - k + 1
    OBVIOUS
<1>2. p[i] \in Past /\ i \in DOMAIN p
    BY <1>1
<1>3. w[i].store = p[i].store /\ w[i].foreign = p[i].foreign \cup Differ(st1, st2)
    BY <1>2 DEF Past
<1>4. x \notin p[i].foreign /\ x \notin Differ(st1, st2)
    BY <1>1, <1>3
<1>5. Differ(Unwind(q, st1, k), Unwind(q, st2, k)) \subseteq Differ(st1, st2)
  <2>1. k \in 0 .. Len(q)
      OBVIOUS
  <2> QED
      BY <2>1, UnwindSame
<1>6. At(Unwind(q, st1, k), x) = At(Unwind(q, st2, k), x)
    BY <1>4, <1>5 DEF Differ
<1>7. At(Unwind(q, st1, k), x) = At(p[i].store, x)
    BY <1>1, <1>4 DEF GivesBack, Differ
<1> QED
    BY <1>1, <1>3, <1>6, <1>7

\* The newest entry is undone.
LEMMA UndoneGivesBack ==
    ASSUME NEW q \in Seq(Seq(Patch)), NEW p \in Seq(Past), Len(p) = Len(q), Len(q) # 0,
           NEW st, GivesBack(q, st, p)
    PROVE  GivesBack(Front(q), ApplyPatches(q[Len(q)], st, BrowserFresh), Front(p))
<1>1. PICK r, w, last : /\ r = Front(q) /\ w = Front(p)
                        /\ last = ApplyPatches(q[Len(q)], st, BrowserFresh)
    OBVIOUS
<1>2. PICK n \in Nat : n = Len(r) /\ Len(q) = n + 1
    BY <1>1, FrontType
<1>3. /\ r \in Seq(Seq(Patch)) /\ \A j \in 1 .. n : r[j] = q[j] /\ w[j] = p[j]
    BY <1>1, <1>2, FrontType DEF Front
<1>4. Covers(q, r, n)
  <2> SUFFICES ASSUME NEW i \in 1 .. n PROVE q[Len(q) - i] = r[Len(r) - i + 1]
      BY DEF Covers
  <2>1. Len(r) - i + 1 = Len(q) - i /\ Len(q) - i \in 1 .. n
      BY <1>2
  <2> QED
      BY <1>3, <2>1
<1>5. \A i \in 0 .. n : Unwind(q, st, i + 1) = Unwind(r, last, i)
    BY <1>1, <1>3, <1>4, UnwindShifted
<1>6. ASSUME NEW k \in 1 .. n
      PROVE  Differ(Unwind(r, last, k), w[n - k + 1].store) \subseteq w[n - k + 1].foreign
  <2>1. k + 1 \in 1 .. Len(q) /\ Len(q) - (k + 1) + 1 = n - k + 1 /\ n - k + 1 \in 1 .. n
      BY <1>2
  <2>2. Differ(Unwind(q, st, k + 1), p[Len(q) - (k + 1) + 1].store)
            \subseteq p[Len(q) - (k + 1) + 1].foreign
      BY <2>1 DEF GivesBack
  <2>3. Unwind(q, st, k + 1) = Unwind(r, last, k) /\ w[n - k + 1] = p[n - k + 1]
      BY <1>3, <1>5, <2>1
  <2> QED
      BY <2>1, <2>2, <2>3
<1> QED
    BY <1>1, <1>2, <1>6 DEF GivesBack

\* An entry is pushed that undoes what is done; the oldest may have to go.
LEMMA PushedGivesBack ==
    ASSUME NEW q \in Seq(Seq(Patch)), NEW p \in Seq(Past), Len(p) = Len(q),
           NEW st, GivesBack(q, st, p), NEW next, NEW n \in Nat, n <= Len(q),
           NEW r \in Seq(Seq(Patch)), NEW w \in Seq(Past), Len(r) = n + 1, Len(w) = n + 1,
           Covers(r, q, n), Covers(w, p, n),
           ApplyPatches(r[Len(r)], next, BrowserFresh) = st, w[Len(r)].store = st
    PROVE  GivesBack(r, next, w)
<1>1. Len(q) \in Nat
    OBVIOUS
<1>2. \A i \in 0 .. n : Unwind(r, next, i + 1) = Unwind(q, st, i)
    BY UnwindShifted
<1> SUFFICES ASSUME NEW k \in 1 .. Len(r)
             PROVE  Differ(Unwind(r, next, k), w[Len(r) - k + 1].store) \subseteq w[Len(r) - k + 1].foreign
    BY DEF GivesBack
<1>3. CASE k = 1
  <2>1. Unwind(r, next, 0 + 1) = Unwind(q, st, 0)
      BY <1>2
  <2>2. Unwind(r, next, 1) = st
      BY <2>1, UnwindSteps
  <2>3. Len(r) - k + 1 = Len(r)
      BY <1>3
  <2> QED
      BY <1>3, <2>2, <2>3 DEF Differ
<1>4. CASE k # 1
  <2>1. PICK i \in 1 .. n : k = i + 1
    <3>1. k - 1 \in 1 .. n /\ k = (k - 1) + 1
        BY <1>4
    <3> QED
        BY <3>1
  <2>2. Len(r) - k + 1 = Len(w) - i /\ i \in 0 .. n
      BY <2>1
  <2>3. w[Len(w) - i] = p[Len(q) - i + 1]
      BY DEF Covers
  <2>4. Unwind(r, next, k) = Unwind(q, st, i)
      BY <1>2, <2>1, <2>2
  <2>5. Differ(Unwind(q, st, i), p[Len(q) - i + 1].store) \subseteq p[Len(q) - i + 1].foreign
    <3>1. i \in 1 .. Len(q)
        BY <1>1
    <3> QED
        BY <3>1 DEF GivesBack
  <2> QED
      BY <2>2, <2>3, <2>4, <2>5
<1> QED
    BY <1>3, <1>4

\* A stack that is pushed on, and lets its oldest entry go or not.
KeptOn(S, q, e, r) ==
    /\ r \in Seq(S) /\ Len(r) = Len(q) + 1 /\ r[Len(r)] = e /\ Covers(r, q, Len(q))
    /\ Len(q) # 0 =>
          /\ Tail(r) \in Seq(S) /\ Len(Tail(r)) = Len(q)
          /\ Tail(r)[Len(Tail(r))] = e /\ Covers(Tail(r), q, Len(q) - 1)

LEMMA KeptCovers ==
    ASSUME NEW S, NEW q \in Seq(S), NEW e \in S
    PROVE  KeptOn(S, q, e, Append(q, e))
<1>1. PICK n \in Nat : n = Len(q)
    OBVIOUS
<1>2. PICK r : r = Append(q, e)
    OBVIOUS
<1>3. r \in Seq(S) /\ Len(r) = n + 1 /\ r[n + 1] = e /\ \A i \in 1 .. n : r[i] = q[i]
    BY <1>1, <1>2
<1>4. Covers(r, q, n)
  <2> SUFFICES ASSUME NEW i \in 1 .. n PROVE r[Len(r) - i] = q[Len(q) - i + 1]
      BY DEF Covers
  <2>1. Len(r) - i = n - i + 1 /\ n - i + 1 \in 1 .. n
      BY <1>3
  <2> QED
      BY <1>1, <1>2, <1>3, <2>1
<1>5. ASSUME n # 0
      PROVE  Tail(r) \in Seq(S) /\ Len(Tail(r)) = n /\ Tail(r)[n] = e /\ Covers(Tail(r), q, n - 1)
  <2>1. PICK w : w = Tail(r)
      OBVIOUS
  <2>2. w \in Seq(S) /\ Len(w) = n /\ \A i \in 1 .. n : w[i] = r[i + 1]
      BY <1>3, <1>5, <2>1
  <2>3. w[n] = e
      BY <1>3, <1>5, <2>2
  <2>4. Covers(w, q, n - 1)
    <3> SUFFICES ASSUME NEW i \in 1 .. n - 1 PROVE w[Len(w) - i] = q[Len(q) - i + 1]
        BY DEF Covers
    <3>1. /\ Len(w) - i = n - i /\ n - i \in 1 .. n /\ n - i + 1 \in 1 .. n
        BY <2>2
    <3>2. w[n - i] = r[n - i + 1]
        BY <2>2, <3>1
    <3> QED
        BY <1>1, <1>2, <1>3, <3>1, <3>2
  <2> QED
      BY <2>1, <2>2, <2>3, <2>4
<1> QED
  <2>1. KeptOn(S, q, e, r)
      BY <1>1, <1>3, <1>4, <1>5 DEF KeptOn
  <2> QED
      BY <1>2, <2>1

\* The newest entry decides the property whose edits continue it.
EntryOfRun(t) ==
    run[t] # NoTarget /\ undo[t] # <<>> =>
        Bears(undo[t][Len(undo[t])], run[t][1], ScalarCell(run[t][2]))

StackOf(t) ==
    /\ GivesBack(undo[t], store[t], before[t])
    /\ EntryOfRun(t)
    /\ state[t] = "closed" => undo[t] = <<>>

Stacks == \A t \in Tab : StackOf(t)

LEMMA StackStays ==
    ASSUME NEW t \in Tab, StackOf(t), undo'[t] = undo[t], before'[t] = before[t],
           store'[t] = store[t], run'[t] = run[t], state'[t] = "closed" => state[t] = "closed"
    PROVE  StackOf(t)'
<1>1. GivesBack(undo'[t], store'[t], before'[t])
    BY DEF StackOf
<1>2. EntryOfRun(t)'
    BY DEF StackOf, EntryOfRun
<1> QED
    BY <1>1, <1>2 DEF StackOf

LEMMA StacksInit == Init => Stacks
<1> SUFFICES ASSUME Init, NEW t \in Tab
             PROVE  StackOf(t)
    BY DEF Stacks
<1>1. undo[t] = <<>> /\ run[t] = NoTarget
    BY DEF Init
<1>2. Len(undo[t]) = 0 /\ 1 .. 0 = {}
    BY <1>1
<1> QED
    BY <1>1, <1>2 DEF StackOf, EntryOfRun, GivesBack

\* A change that comes from elsewhere.
LEMMA ForeignStacks ==
    ASSUME Typed, Typed', Stacks, NEW t \in Tab, Foreign(t), UNCHANGED <<undo, run>>,
           \A u \in Tab \ {t} : store'[u] = store[u],
           \A u \in Tab : state'[u] = "closed" => state[u] = "closed"
    PROVE  Stacks'
<1>1. /\ undo[t] \in Seq(Seq(Patch)) /\ before[t] \in Seq(Past)
      /\ Len(before[t]) = Len(undo[t]) /\ store[t] \in Store /\ before \in [Tab -> Seq(Past)]
    BY TypedParts
<1>2. store'[t] \in Store
  <2>1. store' \in [Tab -> Store]
      BY DEF Typed, TypeOK
  <2> QED
      BY <2>1
<1>3. PICK w : w = [i \in DOMAIN before[t] |->
                      [before[t][i] EXCEPT !.foreign = @ \cup Differ(store[t], store'[t])]]
    OBVIOUS
<1>4. before' = [before EXCEPT ![t] = w]
    BY <1>3, Zenon DEF Foreign
<1>5. before'[t] = w /\ \A u \in Tab \ {t} : before'[u] = before[u]
    BY <1>1, <1>4
<1>6. GivesBack(undo[t], store[t], before[t]) /\ EntryOfRun(t)
      /\ (state[t] = "closed" => undo[t] = <<>>)
    BY DEF Stacks, StackOf
<1>7. GivesBack(undo[t], store'[t], w)
    BY <1>1, <1>2, <1>3, <1>6, ForeignGivesBack
<1>8. StackOf(t)'
    BY <1>5, <1>6, <1>7 DEF StackOf, EntryOfRun
<1>9. \A u \in Tab \ {t} : StackOf(u)'
    BY <1>5, StackStays DEF Stacks
<1> QED
    BY <1>8, <1>9 DEF Stacks

LEMMA UndoStacks ==
    ASSUME Typed, Stacks, NEW t \in Tab, Undo(t)
    PROVE  Stacks'
<1>1. PICK q, p, st : q = undo[t] /\ p = before[t] /\ st = store[t]
    OBVIOUS
<1>2. /\ q \in Seq(Seq(Patch)) /\ p \in Seq(Past) /\ Len(p) = Len(q) /\ q # <<>>
    BY <1>1, TypedParts DEF Undo
<1>3. Len(q) # 0
    BY <1>2
<1>4. /\ undo' = [undo EXCEPT ![t] = Front(q)] /\ before' = [before EXCEPT ![t] = Front(p)]
      /\ run' = [run EXCEPT ![t] = NoTarget] /\ state' = state
      /\ store' = [store EXCEPT ![t] = ApplyPatches(Last(q), st, BrowserFresh)]
      /\ state[t] = "open"
    BY <1>1 DEF Undo, Applied, Operation, Free
<1>5. Last(q) = q[Len(q)]
    BY DEF Last
<1>6. /\ undo'[t] = Front(q) /\ before'[t] = Front(p) /\ run'[t] = NoTarget
      /\ store'[t] = ApplyPatches(q[Len(q)], st, BrowserFresh)
      /\ \A u \in Tab \ {t} : /\ undo'[u] = undo[u] /\ before'[u] = before[u]
                              /\ run'[u] = run[u] /\ store'[u] = store[u]
    BY <1>4, <1>5, TypedParts
<1>7. GivesBack(Front(q), ApplyPatches(q[Len(q)], st, BrowserFresh), Front(p))
    BY <1>1, <1>2, <1>3, UndoneGivesBack DEF Stacks, StackOf
<1>8. StackOf(t)'
    BY <1>4, <1>6, <1>7 DEF StackOf, EntryOfRun
<1>9. \A u \in Tab \ {t} : StackOf(u)'
    BY <1>4, <1>6, StackStays DEF Stacks
<1> QED
    BY <1>8, <1>9 DEF Stacks

\* An edit, with an entry of its own or as one of a run.
LEMMA EditStacks ==
    ASSUME Typed, Stacks, NEW t \in Tab, NEW edit \in EditOf[t], NEW soon, Edit(t, edit, soon)
    PROVE  Stacks'
<1>1. PICK b, q, p, st : /\ b = WithoutDuplicates(edit, store[t])
                         /\ q = undo[t] /\ p = before[t] /\ st = store[t]
    OBVIOUS
<1>2. b \in Batch
    BY <1>1, EditsArePatches, WithoutDuplicatesIsBatch
<1>3. PICK e, next, x : /\ e = InverseOf(b, st) /\ next = ApplyPatches(b, st, BrowserFresh)
                        /\ x = [store |-> st, foreign |-> {}]
    OBVIOUS
<1>4. /\ q \in Seq(Seq(Patch)) /\ p \in Seq(Past) /\ Len(p) = Len(q) /\ Len(q) \in Nat
      /\ st \in Store
    BY <1>1, TypedParts
<1>5. /\ e \in Seq(Patch) /\ x \in Past /\ x.store = st
      /\ ApplyPatches(e, next, BrowserFresh) = st
    BY <1>2, <1>3, <1>4, InverseType, InverseRestores DEF Past
<1>6. /\ Fits(b, st) /\ Pushed(t, e, b, soon) /\ state' = state /\ state[t] = "open"
      /\ store' = [store EXCEPT ![t] = next]
    BY <1>1, <1>3 DEF Edit, Applied, Operation, Free
<1>7. store'[t] = next /\ \A u \in Tab \ {t} : store'[u] = store[u]
    BY <1>6, TypedParts
<1>8. /\ run'[t] = SingleField(b)
      /\ \A u \in Tab \ {t} : undo'[u] = undo[u] /\ before'[u] = before[u] /\ run'[u] = run[u]
    BY <1>6, TypedParts DEF Pushed
<1>9. GivesBack(q, st, p) /\ EntryOfRun(t)
    BY <1>1 DEF Stacks, StackOf
<1>10. ASSUME UNCHANGED <<undo, before>>, SingleField(b) # NoTarget, SingleField(b) = run[t], q # <<>>
       PROVE  StackOf(t)'
  <2>1. PICK s \in Subject, f \in Scalar : SingleField(b) = <<s, f>>
      BY <1>10, SingleFieldSays
  <2>2. Bears(q[Len(q)], s, ScalarCell(f))
      BY <1>1, <1>9, <1>10, <2>1 DEF EntryOfRun
  <2>3. Len(q) # 0 /\ q[Len(q)] \in Batch
    <3>1. Len(q) # 0 /\ q[Len(q)] \in Seq(Patch)
        BY <1>4, <1>10
    <3> QED
        BY <3>1, SeqIsBatch
  <2>4. ApplyPatches(q[Len(q)], next, BrowserFresh) = ApplyPatches(q[Len(q)], st, BrowserFresh)
      BY <1>2, <1>3, <1>4, <1>6, <1>10, <2>1, <2>2, <2>3, RunContinues
  <2>5. \A k \in 1 .. Len(q) : Unwind(q, next, k) = Unwind(q, st, k)
      BY <1>4, <2>3, <2>4, UnwindJoined
  <2>6. GivesBack(q, next, p)
      BY <1>9, <2>5 DEF GivesBack
  <2> QED
      BY <1>1, <1>6, <1>7, <1>8, <1>9, <1>10, <2>6 DEF StackOf, EntryOfRun
<1>11. ASSUME NEW r \in Seq(Seq(Patch)), NEW w \in Seq(Past), NEW n \in Nat, n <= Len(q),
              Len(r) = n + 1, Len(w) = n + 1, r[Len(r)] = e, w[Len(w)] = x,
              Covers(r, q, n), Covers(w, p, n),
              undo'[t] = r, before'[t] = w
       PROVE  StackOf(t)'
  <2>1. GivesBack(r, next, w)
      BY <1>4, <1>5, <1>9, <1>11, PushedGivesBack
  <2>2. EntryOfRun(t)'
    <3> SUFFICES ASSUME SingleField(b) # NoTarget
                 PROVE  Bears(e, SingleField(b)[1], ScalarCell(SingleField(b)[2]))
        BY <1>8, <1>11 DEF EntryOfRun
    <3>1. PICK s \in Subject, f \in Scalar : SingleField(b) = <<s, f>>
        BY SingleFieldSays
    <3>2. Bears(e, s, ScalarCell(f))
        BY <1>2, <1>3, <1>4, <1>6, <3>1, InverseBears
    <3> QED
        BY <3>1, <3>2
  <2> QED
      BY <1>6, <1>7, <1>11, <2>1, <2>2 DEF StackOf
<1>12. ASSUME NEW r, NEW w, r = Append(q, e), w = Append(p, x)
       PROVE  /\ undo'[t] = r /\ before'[t] = w => StackOf(t)'
              /\ Len(r) = Len(q) + 1
              /\ undo'[t] = Tail(r) /\ before'[t] = Tail(w) /\ Len(q) # 0 => StackOf(t)'
              /\ Len(w) = Len(r)
  <2>1. /\ r \in Seq(Seq(Patch)) /\ Len(r) = Len(q) + 1 /\ r[Len(r)] = e /\ Covers(r, q, Len(q))
        /\ Len(q) # 0 =>
              /\ Tail(r) \in Seq(Seq(Patch)) /\ Len(Tail(r)) = Len(q)
              /\ Tail(r)[Len(Tail(r))] = e /\ Covers(Tail(r), q, Len(q) - 1)
    <3>1. q \in Seq(Seq(Patch)) /\ e \in Seq(Patch)
        BY <1>4, <1>5
    <3>2. KeptOn(Seq(Patch), q, e, r)
        BY <1>12, <3>1, KeptCovers
    <3> QED
        BY <3>2 DEF KeptOn
  <2>2. /\ w \in Seq(Past) /\ Len(w) = Len(p) + 1 /\ w[Len(w)] = x /\ Covers(w, p, Len(p))
        /\ Len(p) # 0 =>
              /\ Tail(w) \in Seq(Past) /\ Len(Tail(w)) = Len(p)
              /\ Tail(w)[Len(Tail(w))] = x /\ Covers(Tail(w), p, Len(p) - 1)
    <3>1. p \in Seq(Past) /\ x \in Past
        BY <1>4, <1>5
    <3>2. KeptOn(Past, p, x, w)
        BY <1>12, <3>1, KeptCovers
    <3> QED
        BY <3>2 DEF KeptOn
  <2>3. Len(p) = Len(q)
      BY <1>4
  <2>4. ASSUME undo'[t] = r, before'[t] = w
        PROVE  StackOf(t)'
    <3>1. PICK n \in Nat : n = Len(q)
        BY <1>4
    <3>2. n <= Len(q) /\ Len(r) = n + 1 /\ Len(w) = n + 1 /\ Covers(r, q, n) /\ Covers(w, p, n)
        BY <2>1, <2>2, <2>3, <3>1
    <3> QED
        BY <1>11, <2>1, <2>2, <2>4, <3>1, <3>2
  <2>5. ASSUME undo'[t] = Tail(r), before'[t] = Tail(w), Len(q) # 0
        PROVE  StackOf(t)'
    <3>1. Len(q) \in Nat
        BY <1>4
    <3>2. Len(q) - 1 \in Nat
        BY <2>5, <3>1
    <3>3. PICK n \in Nat : n = Len(q) - 1
        BY <3>2
    <3>4. PICK r2 : r2 = Tail(r)
        OBVIOUS
    <3>5. PICK w2 : w2 = Tail(w)
        OBVIOUS
    <3>6. r2 = Tail(r) /\ w2 = Tail(w)
        BY <3>4, <3>5
    <3>7. n <= Len(q) /\ Len(r2) = n + 1 /\ r2[Len(r2)] = e /\ Covers(r2, q, n)
        BY <1>4, <2>1, <2>5, <3>3, <3>6
    <3>8. Len(w2) = n + 1 /\ w2[Len(w2)] = x /\ Covers(w2, p, n)
        BY <1>4, <2>2, <2>3, <2>5, <3>3, <3>6
    <3>9. r2 \in Seq(Seq(Patch)) /\ w2 \in Seq(Past) /\ undo'[t] = r2 /\ before'[t] = w2
        BY <2>1, <2>2, <2>3, <2>5, <3>6
    <3> QED
        BY <1>11, <3>3, <3>7, <3>8, <3>9
  <2> QED
      BY <2>1, <2>2, <2>3, <2>4, <2>5
<1>13. PICK r, w : r = Append(q, e) /\ w = Append(p, x)
    OBVIOUS
<1>14. ASSUME undo' = [undo EXCEPT ![t] = r], before' = [before EXCEPT ![t] = w]
       PROVE  StackOf(t)'
  <2>1. undo'[t] = r /\ before'[t] = w
      BY <1>14, TypedParts
  <2> QED
      BY <1>12, <1>13, <2>1
<1>15. ASSUME undo' = [undo EXCEPT ![t] = Tail(r)], before' = [before EXCEPT ![t] = Tail(w)],
              Len(r) > UndoLimit
       PROVE  StackOf(t)'
  <2>1. undo'[t] = Tail(r) /\ before'[t] = Tail(w)
      BY <1>15, TypedParts
  <2>2. Len(r) = Len(q) + 1
      BY <1>12, <1>13
  <2>3. Len(q) # 0
      BY <1>4, <1>15, <2>2, EngineBounds
  <2> QED
      BY <1>12, <1>13, <2>1, <2>3
<1>16. \/ UNCHANGED <<undo, before>> /\ SingleField(b) # NoTarget /\ SingleField(b) = run[t] /\ q # <<>>
       \/ undo' = [undo EXCEPT ![t] = r] /\ before' = [before EXCEPT ![t] = w]
       \/ /\ undo' = [undo EXCEPT ![t] = Tail(r)] /\ before' = [before EXCEPT ![t] = Tail(w)]
          /\ Len(r) > UndoLimit
  <2>1. Len(w) = Len(r)
      BY <1>12, <1>13
  <2> QED
      BY <1>1, <1>3, <1>6, <1>13, <2>1 DEF Pushed
<1>17. StackOf(t)'
    BY <1>10, <1>14, <1>15, <1>16
<1>18. \A u \in Tab \ {t} : StackOf(u)'
    BY <1>6, <1>7, <1>8, StackStays DEF Stacks
<1> QED
    BY <1>17, <1>18 DEF Stacks

\* A tab with nothing to undo.
LEMMA NoStack ==
    ASSUME NEW t \in Tab, undo'[t] = <<>>
    PROVE  StackOf(t)'
<1>1. Len(undo'[t]) = 0 /\ 1 .. 0 = {}
    OBVIOUS
<1> QED
    BY <1>1 DEF StackOf, EntryOfRun, GivesBack

LEMMA StacksStay ==
    ASSUME Stacks, UNCHANGED <<store, undo, run, before>>,
           \A u \in Tab : state'[u] = "closed" => state[u] = "closed"
    PROVE  Stacks'
<1> SUFFICES ASSUME NEW t \in Tab PROVE StackOf(t)'
    BY DEF Stacks
<1>1. StackOf(t)
    BY DEF Stacks
<1> QED
    BY <1>1, StackStays

LEMMA PageStacks ==
    ASSUME Typed, Stacks, NEW t \in Tab, Page(t)
    PROVE  Stacks'
<1>1. undo'[t] = <<>>
  <2>1. CASE OpenTab(t)
    <3>1. undo[t] = <<>>
        BY <2>1 DEF OpenTab, Stacks, StackOf
    <3> QED
        BY <2>1, <3>1 DEF OpenTab, undoing
  <2>2. CASE Gone(t)
      BY <2>2, TypedParts DEF Gone
  <2> QED
      BY <2>1, <2>2 DEF Page, Close, Kill
<1>2. ASSUME NEW u \in Tab \ {t}
      PROVE  /\ undo'[u] = undo[u] /\ run'[u] = run[u] /\ before'[u] = before[u]
             /\ store'[u] = store[u] /\ state'[u] = state[u]
  <2>1. CASE OpenTab(t)
      BY <2>1, TypedParts DEF OpenTab, undoing
  <2>2. CASE Gone(t)
      BY <2>2, TypedParts DEF Gone
  <2> QED
      BY <2>1, <2>2 DEF Page, Close, Kill
<1>3. StackOf(t)'
    BY <1>1, NoStack
<1>4. ASSUME NEW u \in Tab \ {t}
      PROVE  StackOf(u)'
  <2>1. StackOf(u)
      BY DEF Stacks
  <2> QED
      BY <1>2, <2>1, StackStays
<1> QED
    BY <1>3, <1>4 DEF Stacks

LEMMA StacksStep == Typed /\ Typed' /\ Stacks /\ [Next]_vars => Stacks'
<1> SUFFICES ASSUME Typed, Typed', Stacks, [Next]_vars PROVE Stacks'
    OBVIOUS
<1>1. ASSUME NEW t \in Tab, NEW edit \in EditOf[t], Remote(t, edit)
      PROVE  Stacks'
  <2>1. Foreign(t) /\ UNCHANGED <<state, undo, run>>
      BY <1>1 DEF Remote
  <2>2. \A u \in Tab \ {t} : store'[u] = store[u]
      BY <1>1, TypedParts DEF Remote, External
  <2> QED
      BY <2>1, <2>2, ForeignStacks
<1>2. ASSUME NEW t \in Tab, Receive(t)
      PROVE  Stacks'
  <2>1. Foreign(t) /\ UNCHANGED <<state, undo, run>>
      BY <1>2 DEF Receive
  <2>2. \A u \in Tab \ {t} : store'[u] = store[u]
      BY <1>2, TypedParts DEF Receive, External, Replaced
  <2> QED
      BY <2>1, <2>2, ForeignStacks
<1>3. ASSUME NEW t \in Tab, NEW st, Adopt(t, st)
      PROVE  Stacks'
  <2>1. Foreign(t) /\ UNCHANGED <<state, undo, run>>
      BY <1>3 DEF Adopt
  <2>2. \A u \in Tab \ {t} : store'[u] = store[u]
      BY <1>3, TypedParts DEF Adopt, Replaced
  <2> QED
      BY <2>1, <2>2, ForeignStacks
<1>4. ASSUME NEW t \in Tab, NEW st, Replace(t, st)
      PROVE  Stacks'
  <2>1. Foreign(t) /\ UNCHANGED <<undo, run>>
      BY <1>4 DEF Replace
  <2>2. \A u \in Tab \ {t} : store'[u] = store[u]
      BY <1>4, TypedParts DEF Replace, Replaced
  <2>3. \A u \in Tab : state'[u] = "closed" => state[u] = "closed"
      BY <1>4, TypedParts DEF Replace
  <2> QED
      BY <2>1, <2>2, <2>3, ForeignStacks
<1>5. ASSUME NEW t \in Tab, Change(t)
      PROVE  Stacks'
  <2>1. ASSUME NEW edit \in EditOf[t], NEW soon, Edit(t, edit, soon)
        PROVE  Stacks'
      BY <2>1, EditStacks
  <2>2. Import(t) \/ Evict(t) => Stacks'
      BY <1>4 DEF Import, Evict
  <2> QED
      BY <1>1, <1>2, <1>3, <1>5, <2>1, <2>2, UndoStacks DEF Change
<1>6. ASSUME NEW t \in Tab, Save(t)
      PROVE  Stacks'
  <2>1. UNCHANGED <<state, store, undo, run, before>>
    <3>1. CASE Persist(t)
        BY <3>1 DEF Persist, memory, undoing
    <3>2. CASE WriteRecord(t)
        BY <3>2 DEF WriteRecord, memory, undoing
    <3>3. CASE WriteList(t)
        BY <3>3 DEF WriteList, undoing
    <3>4. CASE SaveFails(t)
        BY <3>4 DEF SaveFails, memory, undoing
    <3> QED
        BY <1>6, <3>1, <3>2, <3>3, <3>4 DEF Save
  <2> QED
      BY <2>1, StacksStay
<1>7. CASE UNCHANGED vars
  <2>1. UNCHANGED <<state, store, undo, run, before>>
      BY <1>7 DEF vars, memory, undoing
  <2> QED
      BY <2>1, StacksStay
<1> QED
    BY <1>5, <1>6, <1>7, PageStacks DEF Next

\* localNgEngine.ts:680-720 (inversePatchesFor) and 836-945 (the undo stack): however
\* edits, undos and the changes of others follow each other, undoing the newest k
\* edits gives back, wherever nobody else has changed anything since, what was there
\* before them, with a run of edits to one property undone as one.
THEOREM UndoGivesBack == Spec => []UndoUnwinds
<1>1. Init => Typed /\ Stacks
    BY TypedInit, StacksInit
<1>2. Typed /\ Stacks /\ [Next]_vars => Typed' /\ Stacks'
    BY TypedStep, StacksStep
<1>3. Stacks => UndoUnwinds
    BY DEF Stacks, StackOf, GivesBack, UndoUnwinds
<1> QED
    BY <1>1, <1>2, <1>3, PTL DEF Spec
=============================================================================
