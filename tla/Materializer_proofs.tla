------------------------ MODULE Materializer_proofs -------------------------
(***************************************************************************)
(* Proofs about the materializer, for any number of processes and faults:   *)
(* as long as no process is paused for longer than its lease, one of them   *)
(* at a time has rows in hand, and the nodes follow the stream.             *)
(***************************************************************************)
EXTENDS Materializer, PatchAlgebra_proofs, FiniteSetTheorems, SequenceTheorems

-----------------------------------------------------------------------------
(* Types. *)

Logged == UNION {[D -> Patch] : D \in SUBSET Nat}
NodeStore == [Subject -> NodeRecord \cup {Absent}]
WorkState == [rows : SUBSET Nat, lost : SUBSET Nat, load : SUBSET Subject,
              save : SUBSET Subject, scratch : NodeStore]

\* The state with the shape of what the processes hold, and of the log.
Typed ==
    /\ TypeOK
    /\ log \in Seq(Logged)
    /\ \A k \in DOMAIN log : \E n \in Nat : IsBatch(log[k], n)
    /\ work \in [Proc -> WorkState]
    /\ purge \in [Proc -> [ids : SUBSET Subject, cutoff : Nat]]
    /\ \A p \in Proc : work[p].rows = {} => work[p].load = {} /\ work[p].save = {}

LEMMA AcceptedIsLogged ==
    ASSUME NEW e \in Edit, NEW D, D \subseteq DOMAIN e
    PROVE  /\ Restrict(e, D) \in Logged
           /\ IsBatch(Restrict(e, D), Len(e)) /\ Len(e) \in Nat
           /\ Touched(Restrict(e, D)) \subseteq Subject
<1>1. e \in Seq(Patch)
    BY EditsArePatchLists
<1>2. Len(e) \in Nat /\ D \subseteq 1 .. Len(e) /\ \A i \in D : e[i] \in Patch
    BY <1>1, LenProperties, ElementOfSeq
<1>3. Restrict(e, D) = [i \in D |-> e[i]]
    BY DEF Restrict
<1>4. Restrict(e, D) \in [D -> Patch] /\ D \in SUBSET Nat
    BY <1>2, <1>3
<1>5. \A q \in Patch : q.on \in Subject
    BY DEF Patch, RootPatch, AssignPatch, ErasePatch, HoldPatch, MemberPatch
<1> QED
    BY <1>2, <1>3, <1>4, <1>5 DEF Logged, IsBatch, Touched

LEMMA NoRowsType == NoRows \in WorkState
    BY DEF NoRows, WorkState, EmptyStore, NodeStore

\* The rows a process takes in hand.
LEMMA HoldingType ==
    ASSUME Typed, NEW R, R \subseteq 1 .. lastRead, NEW lost, lost \subseteq R
    PROVE  /\ Holding(R, lost) \in WorkState
           /\ Holding(R, lost).rows = R /\ Holding(R, lost).lost = lost
           /\ Holding(R, lost).save = {}
           /\ R = {} => Holding(R, lost).load = {}
<1>1. lastRead \in Nat /\ lastRead <= Len(log) /\ Len(log) \in Nat /\ DOMAIN log = 1 .. Len(log)
    BY LenProperties DEF Typed, TypeOK
<1>6. R \subseteq Nat
    BY <1>1
<1>2. ASSUME R # {} PROVE Min(R) \in DOMAIN log
  <2>1. Min(R) \in R
      BY <1>2, <1>6, MinIsFirst
  <2>2. R \subseteq DOMAIN log
      BY <1>1
  <2> QED
      BY <2>1, <2>2
<1>3. R # {} => Touched(log[Min(R)]) \subseteq Subject
    BY <1>2 DEF Typed, TypeOK
<1>4. EmptyStore \in NodeStore
    BY DEF EmptyStore, NodeStore
<1>5. Holding(R, lost).load \subseteq Subject
    BY <1>3 DEF Holding
<1> QED
    BY <1>4, <1>5, <1>6 DEF Holding, WorkState

\* What a batch makes of a node's record is a record of a node.
LEMMA NodeRecordAfter ==
    ASSUME NEW n \in Nat, NEW b, IsBatch(b, n), NEW s, NEW r \in NodeRecord
    PROVE  RecordAfter(b, s, r) \in NodeRecord
<1>1. r.identity \in {"none", "bare", "full"}
      /\ \A f \in Scalar : r.scalar[f] \in Value \cup {Missing}
    BY DEF NodeRecord
<1>2. \A f \in Scalar : ScalarAfter(b, s, f, r.scalar[f]) \in Value \cup {Missing}
    BY <1>1, ScalarAfterType
<1>3. \A f \in SetField :
        {m \in Member : MemberAfter(b, s, f, m, m \in r.members[f])} \in SUBSET Member
    OBVIOUS
<1>4. [f \in Scalar |-> ScalarAfter(b, s, f, r.scalar[f])] \in [Scalar -> Value \cup {Missing}]
    BY <1>2
<1>5. [f \in SetField |-> {m \in Member : MemberAfter(b, s, f, m, m \in r.members[f])}]
        \in [SetField -> SUBSET Member]
    BY <1>3
<1> QED
    BY <1>1, <1>4, <1>5 DEF RecordAfter, NodeRecord

LEMMA FreshIsNodeRecord ==
    ASSUME NEW identity \in {"none", "bare", "full"}
    PROVE  Fresh(identity) \in NodeRecord
    BY DEF Fresh, NodeRecord

LEMMA NodeAfter ==
    ASSUME NEW n \in Nat, NEW b, IsBatch(b, n), NEW s, NEW r \in NodeRecord \cup {Absent}
    PROVE  After(b, s, r, ServerFresh) \in NodeRecord \cup {Absent}
<1>1. ServerFresh \in NodeRecord
    BY FreshIsNodeRecord DEF ServerFresh
<1>2. RecordAfter(b, s, ServerFresh) \in NodeRecord
    BY <1>1, NodeRecordAfter
<1>3. r # Absent => RecordAfter(b, s, r) \in NodeRecord
    BY NodeRecordAfter
<1> QED
    BY <1>2, <1>3 DEF After

LEMMA NodesAfter ==
    ASSUME NEW n \in Nat, NEW b, IsBatch(b, n), NEW st \in NodeStore
    PROVE  ApplyPatches(b, st, ServerFresh) \in NodeStore
    BY NodeAfter DEF ApplyPatches, NodeStore

LEMMA InitTyped == Init => Typed
<1>1. <<>> \in Seq(Logged) /\ Len(<<>>) = 0 /\ DOMAIN <<>> = {}
    BY EmptySeq
<1>2. NoPurge \in [ids : SUBSET Subject, cutoff : Nat]
    BY DEF NoPurge
<1> QED
    BY <1>1, <1>2, NoRowsType, BoundsAreNaturals
    DEF Init, Typed, TypeOK, NoRows, Phase, EmptyStore, WorkState, NodeStore

\* The first of S.
LEMMA BatchType ==
    ASSUME NEW n \in Nat, NEW S, S \subseteq 1 .. n
    PROVE  /\ Batch(S) \subseteq S
           /\ S # {} => Batch(S) # {}
           /\ \A k \in S, r \in Batch(S) : k <= r => k \in Batch(S)
<1>1. Batch(S) \subseteq S
    BY DEF Batch
<1>f. IsFiniteSet(S)
  <2>1. 1 \in Int /\ n \in Int
      OBVIOUS
  <2>2. IsFiniteSet(1 .. n)
      BY <2>1, FS_Interval
  <2> QED
      BY <2>2, FS_Subset
<1>2. ASSUME S # {}
      PROVE  Batch(S) # {}
  <2>0. S \subseteq Nat
      OBVIOUS
  <2>1. Min(S) \in S /\ \A y \in S : Min(S) <= y
      BY <1>2, <2>0, MinIsFirst
  <2>2. {j \in S : j < Min(S)} = {}
    <3>1. Min(S) \in Nat
        BY <2>0, <2>1
    <3>2. ASSUME NEW j \in S
          PROVE  ~ (j < Min(S))
      <4>1. j \in Nat /\ Min(S) <= j
          BY <2>0, <2>1
      <4> QED
          BY <3>1, <4>1
    <3> QED
        BY <3>2
  <2>3. Cardinality({j \in S : j < Min(S)}) = 0
      BY <2>2, FS_EmptySet
  <2> QED
      BY <2>1, <2>3, BoundsAreNaturals DEF Batch
<1>3. ASSUME NEW k \in S, NEW r \in Batch(S), k <= r
      PROVE  k \in Batch(S)
  <2> DEFINE A == {j \in S : j < k}
             B == {j \in S : j < r}
  <2>7. r \in S /\ S \subseteq Nat
      BY <1>1
  <2>0. k \in Nat /\ r \in Nat /\ \A j \in S : j \in Nat
      BY <2>7
  <2>1. A \subseteq B /\ A \subseteq S /\ B \subseteq S
    <3>1. ASSUME NEW j \in S, j < k
          PROVE  j < r
        BY <1>3, <2>0, <3>1
    <3> QED
        BY <3>1
  <2>4. Cardinality(B) < ReadCount
      BY <1>1 DEF Batch
  <2>5. Cardinality(A) < ReadCount => k \in Batch(S)
      BY DEF Batch
  <2> HIDE DEF A, B
  <2>2. IsFiniteSet(A) /\ IsFiniteSet(B)
      BY <1>f, <2>1, FS_Subset
  <2>3. Cardinality(A) \in Nat /\ Cardinality(B) \in Nat
      BY <2>2, FS_CardinalityType
  <2>6. Cardinality(A) <= Cardinality(B)
      BY <2>1, <2>2, FS_Subset
  <2> QED
      BY <2>3, <2>4, <2>5, <2>6, BoundsAreNaturals
<1> QED
    BY <1>1, <1>2, <1>3

LEMMA StepTyped == Typed /\ [Next]_vars => Typed'
<1> SUFFICES ASSUME Typed, [Next]_vars
             PROVE  Typed'
    OBVIOUS
<1>n. /\ lastRead \in Nat /\ lastRead <= Len(log) /\ Len(log) \in Nat
      /\ DOMAIN log = 1 .. Len(log) /\ pending \subseteq 1 .. lastRead
      /\ earliest \in Nat \ {0} /\ earliest <= Len(log) + 1
      /\ \A p \in Proc : work[p] \in WorkState /\ work[p].rows \subseteq 1 .. lastRead
                                                /\ work[p].lost \subseteq work[p].rows
    BY LenProperties DEF Typed, TypeOK
\* The rows of a process change, of the rest what is read at most.
<1>w. ASSUME NEW p \in Proc, NEW w \in WorkState, work' = [work EXCEPT ![p] = w],
             lastRead' \in lastRead .. Len(log), pending' \subseteq 1 .. lastRead',
             w.rows \subseteq 1 .. lastRead', w.lost \subseteq w.rows,
             w.rows = {} => w.load = {} /\ w.save = {},
             UNCHANGED <<ingest, db, lease, owned, purge>>,
             phase' \in [Proc -> Phase], faults' \in 0 .. MaxFaults
      PROVE  Typed'
  <2>1. work' \in [Proc -> WorkState]
      BY <1>w DEF Typed
  <2>2. \A q \in Proc : work'[q] = IF q = p THEN w ELSE work[q]
      BY <1>w DEF Typed
  <2>3. \A q \in Proc : /\ work'[q].rows \subseteq 1 .. lastRead'
                        /\ work'[q].lost \subseteq work'[q].rows
      BY <1>n, <1>w, <2>2
  <2>4. \A q \in Proc : /\ work'[q].load \cup work'[q].save \subseteq Subject
                        /\ work'[q].scratch \in [Subject -> NodeRecord \cup {Absent}]
      BY <2>1 DEF WorkState, NodeStore
  <2>5. \A q \in Proc : work'[q].rows = {} => work'[q].load = {} /\ work'[q].save = {}
      BY <1>w, <2>2 DEF Typed
  <2>6. lastRead' \in 0 .. Len(log)
      BY <1>n, <1>w
  <2> QED
      BY <1>w, <2>1, <2>3, <2>4, <2>5, <2>6 DEF Typed, TypeOK, ingest
\* Nothing but the lives of the processes changes.
<1>l. ASSUME lease' \in Proc \cup {NoOne}, phase' \in [Proc -> Phase],
             owned' \in [Proc -> BOOLEAN], faults' \in 0 .. MaxFaults,
             UNCHANGED <<ingest, group, db, work, purge>>
      PROVE  Typed'
    BY <1>l DEF Typed, TypeOK, ingest, group
<1>f. Fault => faults' \in 0 .. MaxFaults
    BY BoundsAreNaturals DEF Typed, TypeOK, Fault
<1>1. ASSUME NEW e \in Edit, Accept(e)
      PROVE  Typed'
  <2> DEFINE D == {i \in DOMAIN e : e[i].op \in {"create", "identify"}
                                      => Replay[Len(log)][e[i].on] = Absent}
             acc == Restrict(e, D)
  <2>1. /\ log' = Append(log, acc) /\ tombstone' = Tombstones(acc, Len(log) + 1, tombstone)
        /\ earliest' \in earliest .. Max({earliest, Len(log) + 2 - StreamMax})
        /\ UNCHANGED <<group, db, lease, phase, owned, work, purge, faults>>
    <3>1. (Len(log) + 1) + 1 - StreamMax = Len(log) + 2 - StreamMax
        BY <1>n, BoundsAreNaturals
    <3> QED
        BY <1>1, <3>1 DEF Accept
  <2>2. /\ acc \in Logged /\ Touched(acc) \subseteq Subject
        /\ \E n \in Nat : IsBatch(acc, n)
      BY AcceptedIsLogged
  <2> HIDE DEF acc
  <2>3. /\ log' \in Seq(Logged) /\ Len(log') = Len(log) + 1
        /\ DOMAIN log' = 1 .. Len(log) + 1
        /\ \A k \in DOMAIN log : log'[k] = log[k]
        /\ log'[Len(log) + 1] = acc
    <3>1. log \in Seq(Logged)
        BY DEF Typed
    <3> QED
        BY <1>n, <2>1, <2>2, <3>1, AppendProperties, LenProperties
  <2>4. \A k \in DOMAIN log' : Touched(log'[k]) \subseteq Subject /\ \E n \in Nat : IsBatch(log'[k], n)
    <3>1. \A k \in DOMAIN log' : k \in DOMAIN log \/ k = Len(log) + 1
        BY <1>n, <2>3
    <3>2. \A k \in DOMAIN log : Touched(log[k]) \subseteq Subject /\ \E n \in Nat : IsBatch(log[k], n)
        BY DEF Typed, TypeOK
    <3> QED
        BY <2>2, <2>3, <3>1, <3>2
  <2>5. earliest' \in 1 .. (Len(log') + 1)
    <3> DEFINE a == earliest
               c == Len(log) + 2 - StreamMax
    <3>1. a \in Int /\ c \in Int /\ a <= Len(log) + 2 /\ c <= Len(log) + 2
        BY <1>n, BoundsAreNaturals
    <3>2. Max({a, c}) \in {a, c}
      <4>1. \E x \in {a, c} : \A y \in {a, c} : x >= y
        <5>1. CASE a <= c
            BY <3>1, <5>1
        <5>2. CASE c <= a
            BY <3>1, <5>2
        <5> QED
            BY <3>1, <5>1, <5>2
      <4> QED
          BY <4>1 DEF Max
    <3> QED
        BY <1>n, <2>1, <2>3, <3>1, <3>2
  <2>6. tombstone' \in [Subject -> 0 .. Len(log')]
      BY <1>n, <2>1, <2>3 DEF Tombstones, Typed, TypeOK
  <2>7. lastRead' \in 0 .. Len(log')
      BY <1>n, <2>1, <2>3 DEF group
  <2> QED
      BY <2>1, <2>3, <2>4, <2>5, <2>6, <2>7 DEF Typed, TypeOK, group
<1>2. CASE Lapse \/ LapseEarly
    BY <1>2, <1>l, <1>f DEF Lapse, LapseEarly, Typed, TypeOK
<1>3. ASSUME NEW p \in Proc,
             \/ Claim(p) \/ Discover(p) \/ HeartbeatLost(p) \/ HeartbeatFails(p)
             \/ Stop(p) \/ Stopped(p)
      PROVE  Typed'
  <2>1. phase' \in [Proc -> Phase] /\ owned' \in [Proc -> BOOLEAN]
        /\ lease' \in Proc \cup {NoOne} /\ faults' \in 0 .. MaxFaults
      BY <1>3, <1>f DEF Claim, Discover, HeartbeatLost, HeartbeatFails, Stop, Stopped,
                        Typed, TypeOK, Phase
  <2> QED
      BY <1>3, <1>l, <2>1 DEF Claim, Discover, HeartbeatLost, HeartbeatFails, Stop, Stopped
<1>4. ASSUME NEW p \in Proc, Crash(p)
      PROVE  Typed'
  <2>1. NoPurge \in [ids : SUBSET Subject, cutoff : Nat]
      BY DEF NoPurge
  <2>2. purge' \in [Proc -> [ids : SUBSET Subject, cutoff : Nat]]
      BY <1>4, <2>1 DEF Crash, Typed
  <2>3. work' \in [Proc -> WorkState] /\ \A q \in Proc : work'[q] = IF q = p THEN NoRows ELSE work[q]
      BY <1>4, NoRowsType DEF Crash, Typed
  <2>4. \A q \in Proc : /\ work'[q].rows \subseteq 1 .. lastRead
                        /\ work'[q].lost \subseteq work'[q].rows
                        /\ work'[q].load \cup work'[q].save \subseteq Subject
                        /\ work'[q].scratch \in [Subject -> NodeRecord \cup {Absent}]
                        /\ work'[q].rows = {} => work'[q].load = {} /\ work'[q].save = {}
    <3>1. \A q \in Proc : work'[q] \in WorkState
        BY <2>3
    <3> QED
        BY <1>n, <2>3, <3>1 DEF Typed, NoRows, WorkState, NodeStore
  <2>5. phase' \in [Proc -> Phase] /\ owned' \in [Proc -> BOOLEAN] /\ faults' \in 0 .. MaxFaults
      BY <1>4, <1>f DEF Crash, Typed, TypeOK, Phase
  <2> QED
      BY <1>4, <2>2, <2>3, <2>4, <2>5 DEF Crash, Typed, TypeOK, ingest, group
<1>5. ASSUME NEW p \in Proc, FailBatch(p)
      PROVE  Typed'
  <2>1. phase' \in [Proc -> Phase] /\ faults' \in 0 .. MaxFaults
      BY <1>5, <1>f DEF FailBatch, Typed, TypeOK, Phase
  <2>2. NoRows.rows = {} /\ NoRows.lost = {} /\ NoRows.load = {} /\ NoRows.save = {}
      BY DEF NoRows
  <2>3. lastRead' \in lastRead .. Len(log) /\ pending' \subseteq 1 .. lastRead'
        /\ UNCHANGED <<ingest, db, lease, owned, purge>> /\ work' = [work EXCEPT ![p] = NoRows]
      BY <1>5, <1>n DEF FailBatch, group
  <2>4. NoRows.rows \subseteq 1 .. lastRead' /\ NoRows.lost \subseteq NoRows.rows
      BY <2>2
  <2> QED
      BY <1>w, <2>1, <2>2, <2>3, <2>4, NoRowsType
<1>6. ASSUME NEW p \in Proc, ReadPending(p)
      PROVE  Typed'
  <2> DEFINE lost == {k \in Batch(pending) : k < earliest}
             w == Holding(Batch(pending), lost)
  <2>1. Batch(pending) \subseteq pending /\ Batch(pending) # {}
      BY <1>6, <1>n, BatchType DEF ReadPending
  <2>4. lost \subseteq Batch(pending) /\ Batch(pending) \subseteq 1 .. lastRead
      BY <1>n, <2>1
  <2>3. work' = [work EXCEPT ![p] = w] /\ UNCHANGED <<ingest, group, db, lease, phase, owned, purge, faults>>
      BY <1>6 DEF ReadPending
  <2> HIDE DEF lost
  <2>2. /\ w \in WorkState /\ w.rows = Batch(pending) /\ w.lost \subseteq w.rows
    <3> DEFINE R == Batch(pending)
    <3> HIDE DEF R
    <3>1. R \subseteq 1 .. lastRead /\ lost \subseteq R
        BY <2>4 DEF R
    <3>2. Holding(R, lost) \in WorkState /\ Holding(R, lost).rows = R /\ Holding(R, lost).lost = lost
        BY <3>1, HoldingType
    <3> QED
        BY <3>1, <3>2 DEF R
  <2> HIDE DEF w
  <2>5. phase' \in [Proc -> Phase] /\ faults' \in 0 .. MaxFaults
        /\ UNCHANGED <<ingest, db, lease, owned, purge>>
      BY <2>3 DEF Typed, TypeOK
  <2>6. lastRead' \in lastRead .. Len(log) /\ pending' \subseteq 1 .. lastRead'
        /\ w.rows \subseteq 1 .. lastRead' /\ w.rows # {}
      BY <1>n, <2>1, <2>2, <2>3, <2>4 DEF group
  <2> QED
      BY <1>w, <2>2, <2>3, <2>5, <2>6
<1>7. ASSUME NEW p \in Proc, Recovered(p)
      PROVE  Typed'
    BY <1>7, <1>l DEF Recovered, Typed, TypeOK, Phase
<1>8. ASSUME NEW p \in Proc, ReadLive(p)
      PROVE  Typed'
  <2> DEFINE R == Batch(Unread)
             w == Holding(R, {})
  <2>1. Unread \subseteq 1 .. Len(log) /\ \A k \in Unread : k > lastRead
      BY <1>n DEF Unread
  <2>2. R \subseteq Unread /\ R # {}
      BY <1>8, <1>n, <2>1, BatchType DEF ReadLive
  <2>3. lastRead' = Max(R) /\ pending' = pending \cup R /\ work' = [work EXCEPT ![p] = w]
        /\ UNCHANGED <<ingest, db, lease, phase, owned, purge, faults>>
      BY <1>8 DEF ReadLive
  <2> HIDE DEF R
  <2>4. Max(R) \in R /\ \A y \in R : y <= Max(R)
    <3>1. R \subseteq 0 .. Len(log)
        BY <1>n, <2>1, <2>2
    <3> QED
        BY <1>n, <2>2, <3>1, MaxIsLast
  <2>5. lastRead' \in lastRead .. Len(log) /\ R \subseteq 1 .. lastRead'
        /\ pending' \subseteq 1 .. lastRead'
    <3>1. lastRead' \in R /\ \A y \in R : y <= lastRead'
        BY <2>3, <2>4
    <3>2. \A y \in R : y \in Nat /\ lastRead < y /\ y <= Len(log)
        BY <1>n, <2>1, <2>2
    <3>3. lastRead' \in Nat /\ lastRead < lastRead' /\ lastRead' <= Len(log)
        BY <3>1, <3>2
    <3>4. lastRead' \in lastRead .. Len(log) /\ 1 .. lastRead \subseteq 1 .. lastRead'
        BY <1>n, <3>3
    <3>5. \A y \in R : y \in Nat /\ 1 <= y /\ y <= lastRead'
        BY <1>n, <3>1, <3>2
    <3>6. R \subseteq 1 .. lastRead'
        BY <3>3, <3>5
    <3>7. pending' = pending \cup R /\ pending \subseteq 1 .. lastRead
        BY <1>n, <2>3
    <3> QED
        BY <3>4, <3>6, <3>7
  <2>6. Min(R) \in DOMAIN log
    <3>1. R \subseteq Nat /\ R \subseteq DOMAIN log
        BY <1>n, <2>1, <2>2
    <3> QED
        BY <2>2, <3>1, MinIsFirst
  <2>7. w \in WorkState /\ w.rows = R /\ w.lost \subseteq R
    <3>1. Touched(log[Min(R)]) \subseteq Subject
        BY <2>6 DEF Typed, TypeOK
    <3>2. R \subseteq Nat /\ EmptyStore \in NodeStore
        BY <1>n, <2>1, <2>2 DEF EmptyStore, NodeStore
    <3> QED
        BY <3>1, <3>2 DEF Holding, WorkState
  <2> HIDE DEF w
  <2> QED
      BY <1>w, <2>2, <2>3, <2>5, <2>7 DEF Typed, TypeOK
<1>9. ASSUME NEW p \in Proc, NEW s \in Subject, ReadRecord(p, s)
      PROVE  Typed'
  <2> DEFINE w == work[p]
             scratch == [w.scratch EXCEPT ![s] = IF db[s] = Absent THEN Absent ELSE db[s].record]
             patches == log[Min(w.rows)]
             full == [w EXCEPT !.load = {}, !.save = Touched(patches),
                        !.scratch = ApplyPatches(patches, scratch, ServerFresh)]
             some == [w EXCEPT !.load = @ \ {s}, !.scratch = scratch]
  <2>1. w \in WorkState /\ w.rows # {} /\ w.rows \subseteq 1 .. lastRead /\ w.lost \subseteq w.rows
      BY <1>9, <1>n DEF ReadRecord, Typed
  <2>2. scratch \in NodeStore
      BY <2>1 DEF NodeStore, WorkState, Typed, TypeOK, Node
  <2>3. Min(w.rows) \in DOMAIN log
    <3>1. w.rows \subseteq Nat /\ w.rows \subseteq DOMAIN log
        BY <1>n, <2>1
    <3> QED
        BY <2>1, <3>1, MinIsFirst
  <2>4. Touched(patches) \subseteq Subject /\ ApplyPatches(patches, scratch, ServerFresh) \in NodeStore
    <3>1. PICK n \in Nat : IsBatch(patches, n)
        BY <2>3 DEF Typed
    <3>2. Touched(patches) \subseteq Subject
        BY <2>3 DEF Typed, TypeOK
    <3> HIDE DEF patches, scratch
    <3> QED
        BY <2>2, <3>1, <3>2, NodesAfter
  <2>5. /\ full \in WorkState /\ full.rows = w.rows /\ full.lost = w.lost
        /\ some \in WorkState /\ some.rows = w.rows /\ some.lost = w.lost
    <3> HIDE DEF patches, scratch
    <3> QED
        BY <2>1, <2>2, <2>4 DEF WorkState
  <2>6. work' = [work EXCEPT ![p] = IF w.load = {s} THEN full ELSE some]
        /\ UNCHANGED <<ingest, group, db, lease, phase, owned, purge, faults>>
      BY <1>9 DEF ReadRecord
  <2> HIDE DEF full, some
  <2> DEFINE new == IF w.load = {s} THEN full ELSE some
  <2>7. new \in WorkState /\ new.rows = w.rows /\ new.lost = w.lost
      BY <2>5
  <2>8. work' = [work EXCEPT ![p] = new]
      BY <2>6
  <2>9. new.rows # {} /\ new.lost \subseteq new.rows /\ new.rows \subseteq 1 .. lastRead
      BY <2>1, <2>7
  <2> HIDE DEF new, w
  <2>10. phase' \in [Proc -> Phase] /\ faults' \in 0 .. MaxFaults
         /\ UNCHANGED <<ingest, db, lease, owned, purge>>
      BY <2>6 DEF Typed, TypeOK
  <2>11. lastRead' \in lastRead .. Len(log) /\ pending' \subseteq 1 .. lastRead'
         /\ new.rows \subseteq 1 .. lastRead'
      BY <1>n, <2>6, <2>9 DEF group
  <2> QED
      BY <1>w, <2>7, <2>8, <2>9, <2>10, <2>11
<1>10. ASSUME NEW p \in Proc, NEW s \in Subject, WriteRecord(p, s)
       PROVE  Typed'
  <2> DEFINE w == work[p]
             new == [w EXCEPT !.save = @ \ {s}]
             d == IF w.scratch[s] = Absent THEN Tombstoned(s, Min(w.rows))
                  ELSE [record |-> w.scratch[s], deletedAt |-> 0]
  <2>1. w \in WorkState /\ w.rows # {} /\ w.rows \subseteq 1 .. lastRead /\ w.lost \subseteq w.rows
      BY <1>10, <1>n DEF WriteRecord, Typed
  <2>2. new \in WorkState /\ new.rows = w.rows /\ new.lost = w.lost
      BY <2>1 DEF WorkState
  <2>3. work' = [work EXCEPT ![p] = new] /\ db' = [db EXCEPT ![s] = d]
        /\ UNCHANGED <<ingest, group, lease, phase, owned, purge, faults>>
      BY <1>10, <2>1 DEF WriteRecord, Typed, WorkState
  <2>4. Min(w.rows) \in Nat
    <3>1. w.rows \subseteq Nat
        BY <1>n, <2>1
    <3> QED
        BY <2>1, <3>1, MinIsFirst
  <2>5. d \in Node
    <3>1. w.scratch[s] \in NodeRecord \cup {Absent}
        BY <2>1 DEF WorkState, NodeStore
    <3>2. Fresh("none") \in NodeRecord /\ (db[s] # Absent => db[s].record \in NodeRecord)
        BY FreshIsNodeRecord DEF Typed, TypeOK, Node
    <3> HIDE DEF w
    <3> QED
        BY <2>4, <3>1, <3>2 DEF Tombstoned, Node
  <2>6. db' \in [Subject -> Node \cup {Absent}]
    <3> HIDE DEF d
    <3> QED
        BY <2>3, <2>5 DEF Typed, TypeOK
  <2> HIDE DEF new, d
  <2>7. work' \in [Proc -> WorkState] /\ \A q \in Proc : work'[q] = IF q = p THEN new ELSE work[q]
      BY <2>2, <2>3 DEF Typed
  <2>8. \A q \in Proc : /\ work'[q].rows \subseteq 1 .. lastRead
                        /\ work'[q].lost \subseteq work'[q].rows
                        /\ work'[q].load \cup work'[q].save \subseteq Subject
                        /\ work'[q].scratch \in [Subject -> NodeRecord \cup {Absent}]
                        /\ work'[q].rows = {} => work'[q].load = {} /\ work'[q].save = {}
    <3>1. \A q \in Proc : work'[q] \in WorkState
        BY <2>7
    <3> QED
        BY <1>n, <2>1, <2>2, <2>7, <3>1 DEF Typed, WorkState, NodeStore
  <2> QED
      BY <2>3, <2>6, <2>7, <2>8 DEF Typed, TypeOK, ingest, group
<1>11. ASSUME NEW p \in Proc, Acknowledge(p)
       PROVE  Typed'
  <2> DEFINE w == work[p]
             R == w.rows \ {Min(w.rows)}
             new == Holding(R, w.lost \ {Min(w.rows)})
  <2>1. R \subseteq 1 .. lastRead /\ w.lost \ {Min(w.rows)} \subseteq R
      BY <1>n
  <2>2. /\ new \in WorkState /\ new.rows = R /\ new.lost \subseteq R
        /\ new.save = {} /\ (R = {} => new.load = {})
    <3> DEFINE lost == w.lost \ {Min(w.rows)}
    <3>1. lost \subseteq R
        BY <2>1
    <3> HIDE DEF R, lost
    <3>2. /\ Holding(R, lost) \in WorkState
          /\ Holding(R, lost).rows = R /\ Holding(R, lost).lost = lost
          /\ Holding(R, lost).save = {}
          /\ R = {} => Holding(R, lost).load = {}
        BY <2>1, <3>1, HoldingType
    <3> QED
        BY <3>1, <3>2 DEF lost
  <2>3. work' = [work EXCEPT ![p] = new] /\ pending' \subseteq pending
        /\ UNCHANGED <<ingest, lastRead, db, lease, phase, owned, purge, faults>>
      BY <1>11 DEF Acknowledge
  <2> HIDE DEF new, R
  <2>4. phase' \in [Proc -> Phase] /\ faults' \in 0 .. MaxFaults
        /\ UNCHANGED <<ingest, db, lease, owned, purge>>
      BY <2>3 DEF Typed, TypeOK
  <2>5. lastRead' \in lastRead .. Len(log) /\ pending' \subseteq 1 .. lastRead'
        /\ new.rows \subseteq 1 .. lastRead' /\ new.lost \subseteq new.rows
      BY <1>n, <2>1, <2>2, <2>3
  <2> QED
      BY <1>w, <2>2, <2>3, <2>4, <2>5
<1>12. ASSUME NEW p \in Proc, NEW cutoff \in 1 .. (Len(log) + 1), SweepPurge(p, cutoff)
       PROVE  Typed'
  <2>1. db' \in [Subject -> Node \cup {Absent}]
      BY <1>12 DEF SweepPurge, Typed, TypeOK
  <2>2. [ids |-> Expired(cutoff), cutoff |-> cutoff] \in [ids : SUBSET Subject, cutoff : Nat]
      BY <1>n DEF Expired
  <2>3. purge' \in [Proc -> [ids : SUBSET Subject, cutoff : Nat]]
      BY <1>12, <2>2 DEF SweepPurge, Typed
  <2> QED
      BY <1>12, <2>1, <2>3 DEF SweepPurge, Typed, TypeOK, ingest, group
<1>13. ASSUME NEW p \in Proc, SweepForget(p)
       PROVE  Typed'
  <2>1. NoPurge \in [ids : SUBSET Subject, cutoff : Nat]
      BY DEF NoPurge
  <2>2. purge' \in [Proc -> [ids : SUBSET Subject, cutoff : Nat]]
      BY <1>13, <2>1 DEF SweepForget, Typed
  <2>3. tombstone' \in [Subject -> 0 .. Len(log)]
      BY <1>13, <1>n DEF SweepForget, Typed, TypeOK
  <2> QED
      BY <1>13, <2>2, <2>3 DEF SweepForget, Typed, TypeOK, group
<1>14. CASE UNCHANGED vars
    BY <1>14 DEF vars, ingest, group, Typed, TypeOK
<1> QED
    BY <1>1, <1>2, <1>3, <1>4, <1>5, <1>6, <1>7, <1>8, <1>9, <1>10, <1>11, <1>12, <1>13, <1>14
    DEF Next, Handle

\* Whatever fails and whoever takes over, each variable stays in its type: rows are
\* entries that were delivered, and nodes are nodes.
THEOREM TypeCorrect == Spec => []TypeOK
<1>1. Typed => TypeOK
    BY DEF Typed
<1> QED
    BY <1>1, InitTyped, StepTyped, PTL DEF Spec

-----------------------------------------------------------------------------
(* One process at a time replays. *)

\* No process that has anything to do is paused for longer than its lease.
Unpaused == LapsePhase \subseteq {"down", "halted"}

\* A process at work has the lease, and only one at work has rows in hand.
Alone ==
    \A p \in Proc :
        /\ phase[p] \notin {"down", "halted"} => lease = p
        /\ work[p].rows # {} => phase[p] \notin {"down", "idle", "halted"}

LEMMA StepAlone ==
    ASSUME Unpaused, Typed, Alone, [Next]_vars
    PROVE  Alone'
<1>n. /\ phase \in [Proc -> Phase] /\ work \in [Proc -> WorkState] /\ NoRows.rows = {}
      /\ \A p \in Proc : work[p].rows = {} => work[p].load = {} /\ work[p].save = {}
    BY DEF Typed, TypeOK, NoRows
\* What a process does with its rows while it is at work.
<1>w. ASSUME NEW p \in Proc, phase[p] \notin {"down", "idle", "halted"},
             NEW w, work' = [work EXCEPT ![p] = w], UNCHANGED <<lease, phase>>
      PROVE  Alone'
  <2>1. \A q \in Proc : q # p => work'[q] = work[q]
      BY <1>n, <1>w
  <2> QED
      BY <1>w, <2>1 DEF Alone
<1>1. CASE \E e \in Edit : Accept(e)
    BY <1>1 DEF Accept, Alone
<1>2. CASE Lapse \/ LapseEarly
    BY <1>2 DEF Lapse, LapseEarly, Alone, Unpaused
<1>3. ASSUME NEW p \in Proc,
             \/ Claim(p) \/ Discover(p) \/ HeartbeatLost(p) \/ HeartbeatFails(p)
             \/ Stop(p) \/ Stopped(p)
      PROVE  Alone'
  <2>0. NoOne \notin Proc
      BY NoOneIsNoProcess
  <2>1. CASE Claim(p)
      BY <1>n, <2>0, <2>1 DEF Claim, Alone
  <2>2. CASE Discover(p)
      BY <1>n, <2>2 DEF Discover, Alone
  <2>3. CASE HeartbeatLost(p) \/ HeartbeatFails(p) \/ Stop(p)
      BY <1>n, <2>3 DEF HeartbeatLost, HeartbeatFails, Stop, Alone, Running
  <2>4. CASE Stopped(p)
      BY <1>n, <2>4 DEF Stopped, Alone
  <2> QED
      BY <1>3, <2>1, <2>2, <2>3, <2>4
<1>4. ASSUME NEW p \in Proc, Crash(p)
      PROVE  Alone'
    BY <1>n, <1>4 DEF Crash, Alone
<1>5. ASSUME NEW p \in Proc, FailBatch(p)
      PROVE  Alone'
    BY <1>n, <1>5 DEF FailBatch, Alone
<1>6. ASSUME NEW p \in Proc, Recovered(p)
      PROVE  Alone'
    BY <1>n, <1>6 DEF Recovered, Alone
<1>7. ASSUME NEW p \in Proc, ReadPending(p) \/ ReadLive(p)
      PROVE  Alone'
    BY <1>7, <1>w DEF ReadPending, ReadLive
<1>8. ASSUME NEW p \in Proc, NEW s \in Subject, ReadRecord(p, s)
      PROVE  Alone'
  <2>1. phase[p] \notin {"down", "idle", "halted"}
      BY <1>n, <1>8 DEF ReadRecord, Alone
  <2>2. PICK w : work' = [work EXCEPT ![p] = w]
      BY <1>8 DEF ReadRecord
  <2> QED
      BY <1>8, <1>w, <2>1, <2>2 DEF ReadRecord
<1>9. ASSUME NEW p \in Proc, NEW s \in Subject, WriteRecord(p, s)
      PROVE  Alone'
  <2>1. phase[p] \notin {"down", "idle", "halted"}
      BY <1>n, <1>9 DEF WriteRecord, Alone
  <2>2. PICK w : work' = [work EXCEPT ![p] = w]
      BY <1>9 DEF WriteRecord
  <2> QED
      BY <1>9, <1>w, <2>1, <2>2 DEF WriteRecord
<1>10. ASSUME NEW p \in Proc, Acknowledge(p)
       PROVE  Alone'
  <2>1. phase[p] \notin {"down", "idle", "halted"}
      BY <1>n, <1>10 DEF Acknowledge, Alone
  <2> QED
      BY <1>10, <1>w, <2>1 DEF Acknowledge
<1>11. ASSUME NEW p \in Proc, (\E cutoff \in 1 .. (Len(log) + 1) : SweepPurge(p, cutoff))
                              \/ SweepForget(p)
       PROVE  Alone'
    BY <1>11 DEF SweepPurge, SweepForget, Alone
<1>12. CASE UNCHANGED vars
    BY <1>12 DEF vars, Alone
<1> QED
    BY <1>1, <1>2, <1>3, <1>4, <1>5, <1>6, <1>7, <1>8, <1>9, <1>10, <1>11, <1>12
    DEF Next, Handle

LEMMA AloneMeansOne == Alone => NoConcurrentReplay
<1> SUFFICES ASSUME Alone
             PROVE  Cardinality({p \in Proc : work[p].rows # {}}) <= 1
    BY DEF NoConcurrentReplay
<1> DEFINE Busy == {p \in Proc : work[p].rows # {}}
<1>1. Busy \subseteq {lease}
    BY DEF Alone
<1>2. Busy = {} \/ Busy = {lease}
    BY <1>1
<1> HIDE DEF Busy
<1>3. Cardinality(Busy) \in {0, 1}
    BY <1>2, FS_EmptySet, FS_Singleton
<1> QED
    BY <1>3 DEF Busy

\* Whatever crashes, stops, fails over or loses a heartbeat: two processes never have
\* rows in hand at once, as long as none that is at work outlives its lease.
THEOREM OneReplaysAtATime ==
    ASSUME Unpaused
    PROVE  Spec => []NoConcurrentReplay
<1>1. Init => Alone
    BY DEF Init, Alone, NoRows
<1>2. Typed /\ Alone /\ [Next]_vars => Alone'
    BY StepAlone
<1> QED
    BY <1>1, <1>2, InitTyped, StepTyped, AloneMeansOne, PTL DEF Spec

-----------------------------------------------------------------------------
(* What a node shows of a record, and a batch applied to both. *)

\* The record x shows all that the record r has; x may have older values besides.
Covers(x, r) ==
    r # Absent =>
        /\ x # Absent
        /\ \A f \in Scalar : r.scalar[f] # Missing => x.scalar[f] = r.scalar[f]
        /\ \A f \in SetField : r.members[f] \subseteq x.members[f]

Dropped(b, s) == \E i \in DOMAIN b : b[i] = Drop(s)

LEMMA RecordsCover ==
    ASSUME NEW n \in Nat, NEW b, IsBatch(b, n), NEW s,
           NEW x \in NodeRecord, NEW r \in NodeRecord, Covers(x, r), r # Absent
    PROVE  Covers(RecordAfter(b, s, x), RecordAfter(b, s, r))
<1> DEFINE y == RecordAfter(b, s, x)
           t == RecordAfter(b, s, r)
<1>1. y # Absent
    BY NodeRecordAfter, AbsentIsNoNode
<1>2. ASSUME NEW f \in Scalar, t.scalar[f] # Missing
      PROVE  y.scalar[f] = t.scalar[f]
  <2>1. /\ t.scalar[f] = ScalarAfter(b, s, f, r.scalar[f])
        /\ y.scalar[f] = ScalarAfter(b, s, f, x.scalar[f])
      BY DEF RecordAfter
  <2>2. CASE ScalarWrites(b, s, f) = {}
      BY <1>2, <2>1, <2>2 DEF ScalarAfter, Covers
  <2>3. CASE ScalarWrites(b, s, f) # {}
      BY <2>1, <2>3 DEF ScalarAfter
  <2> QED
      BY <2>2, <2>3
<1>3. ASSUME NEW f \in SetField, NEW m \in t.members[f]
      PROVE  m \in y.members[f]
  <2>1. /\ t.members[f] = {q \in Member : MemberAfter(b, s, f, q, q \in r.members[f])}
        /\ y.members[f] = {q \in Member : MemberAfter(b, s, f, q, q \in x.members[f])}
      BY DEF RecordAfter
  <2>2. m \in Member /\ MemberAfter(b, s, f, m, m \in r.members[f])
      BY <2>1
  <2>3. MemberAfter(b, s, f, m, m \in x.members[f])
    <3>1. CASE MemberWrites(b, s, f, m) = {}
        BY <2>2, <3>1 DEF MemberAfter, Covers
    <3>2. CASE MemberWrites(b, s, f, m) # {}
        BY <2>2, <3>2 DEF MemberAfter
    <3> QED
        BY <3>1, <3>2
  <2> QED
      BY <2>1, <2>2, <2>3
<1> HIDE DEF y, t
<1>4. \A f \in SetField : t.members[f] \subseteq y.members[f]
    BY <1>3
<1> QED
    BY <1>1, <1>2, <1>4 DEF Covers, y, t

\* A batch that names s keeps what the node shows of the record, brings both to the
\* same existence, and leaves none only by a deletion.
LEMMA BatchesCover ==
    ASSUME NEW n \in Nat, NEW b, IsBatch(b, n), NEW s \in Touched(b),
           NEW x \in NodeRecord \cup {Absent}, NEW r \in NodeRecord \cup {Absent}, Covers(x, r)
    PROVE  /\ Covers(After(b, s, x, ServerFresh), After(b, s, r, ServerFresh))
           /\ After(b, s, x, ServerFresh) = Absent <=> After(b, s, r, ServerFresh) = Absent
           /\ After(b, s, x, ServerFresh) = Absent => Dropped(b, s)
<1> DEFINE L == LastDrop(b, s)
<1>1. Surviving(b, s) = {} => L # 0
  <2>1. PICK i \in DOMAIN b : b[i].on = s
      BY DEF Touched
  <2>2. i \in 1 .. n
      BY DEF IsBatch
  <2> QED
      BY <2>1, <2>2 DEF Surviving
<1>2. L # 0 => Dropped(b, s)
  <2>1. L # 0 => L \in DOMAIN b /\ b[L].op = "drop" /\ b[L].on = s
      BY LastDropType
  <2> QED
      BY <2>1, DropIsPatch DEF IsBatch, Dropped
<1>f. ServerFresh \in NodeRecord /\ ServerFresh # Absent
    BY FreshIsNodeRecord, AbsentIsNoNode DEF ServerFresh
<1>3. CASE Surviving(b, s) = {}
    BY <1>1, <1>2, <1>3 DEF After, Covers
<1>4. CASE Surviving(b, s) # {}
  <2> DEFINE u == IF x = Absent \/ L > 0 THEN ServerFresh ELSE x
             v == IF r = Absent \/ L > 0 THEN ServerFresh ELSE r
  <2>1. After(b, s, x, ServerFresh) = RecordAfter(b, s, u)
        /\ After(b, s, r, ServerFresh) = RecordAfter(b, s, v)
      BY <1>4 DEF After
  <2>2. u \in NodeRecord /\ v \in NodeRecord
      BY <1>f
  <2>3. Covers(u, v)
    <3>1. /\ \A f \in Scalar : ServerFresh.scalar[f] = Missing
          /\ \A f \in SetField : ServerFresh.members[f] = {}
        BY DEF ServerFresh, Fresh
    <3> HIDE DEF L
    <3> QED
        BY <1>f, <3>1 DEF Covers
  <2> HIDE DEF u, v
  <2>4. RecordAfter(b, s, u) \in NodeRecord /\ RecordAfter(b, s, v) \in NodeRecord
      BY <2>2, NodeRecordAfter
  <2>5. u # Absent /\ v # Absent
      BY <2>2, AbsentIsNoNode
  <2>6. Covers(RecordAfter(b, s, u), RecordAfter(b, s, v))
      BY <2>2, <2>3, <2>5, RecordsCover
  <2> QED
      BY <2>1, <2>4, <2>6, AbsentIsNoNode
<1> QED
    BY <1>3, <1>4

-----------------------------------------------------------------------------
(* The records of the vault after some entries. *)

RecordStore == [Subject -> Record \cup {Absent}]

\* Replay applies the entries one after another.
ReplayEquations ==
    /\ Replay[0] = EmptyStore
    /\ \A n \in Nat \ {0} : Replay[n] = ApplyPatches(log[n], Replay[n - 1], ServerFresh)

LEMMA ReplayUnfolds == ReplayEquations
<1> DEFINE L == [n \in Nat |-> log[n]]
<1>1. PICK R : Applies(R, L, EmptyStore, ServerFresh)
    BY ReplayExists
<1>2. R = [n \in Nat |-> IF n = 0 THEN EmptyStore
              ELSE ApplyPatches(log[n], R[n - 1], ServerFresh)]
    BY <1>1 DEF Applies
<1>3. Replay = [n \in Nat |-> IF n = 0 THEN EmptyStore
              ELSE ApplyPatches(log[n], Replay[n - 1], ServerFresh)]
    BY <1>2 DEF Replay
<1> QED
    BY <1>3 DEF ReplayEquations

LEMMA ReplayType ==
    ASSUME Typed
    PROVE  \A n \in 0 .. Len(log) : Replay[n] \in RecordStore
<1> DEFINE T == {n \in Nat : n <= Len(log) /\ Replay[n] \notin RecordStore}
<1>n. Len(log) \in Nat /\ DOMAIN log = 1 .. Len(log)
    BY LenProperties DEF Typed
<1> SUFFICES ASSUME T # {}
             PROVE  FALSE
    BY <1>n
<1>1. PICK t \in T : \A n \in T : t <= n
    BY LeastNat
<1>2. t # 0
    BY <1>1, ReplayUnfolds DEF ReplayEquations, EmptyStore, RecordStore
<1>3. t - 1 \in Nat /\ t - 1 \notin T /\ t - 1 <= Len(log) /\ t \in DOMAIN log /\ t \in Nat \ {0}
    BY <1>n, <1>1, <1>2
<1>4. Replay[t - 1] \in RecordStore
    BY <1>3
<1>5. PICK n \in Nat : IsBatch(log[t], n)
    BY <1>3 DEF Typed
<1>6. ServerFresh \in Record
    BY FreshIsRecordOf DEF ServerFresh
<1>7. ApplyPatches(log[t], Replay[t - 1], ServerFresh) \in RecordStore
    BY <1>4, <1>5, <1>6, ApplyPatchesType DEF RecordStore
<1> QED
    BY <1>1, <1>3, <1>7, ReplayUnfolds DEF ReplayEquations

\* Entries that come later change nothing of what the first m amount to.
LEMMA PrefixKept ==
    ASSUME ReplayEquations, ReplayEquations',
           NEW m \in Nat, \A k \in 1 .. m : log'[k] = log[k]
    PROVE  \A n \in 0 .. m : /\ Replay'[n] = Replay[n]
                             /\ \A s \in Subject : NeverDropped(s, n)' <=> NeverDropped(s, n)
<1>1. \A n \in 0 .. m : Replay'[n] = Replay[n]
  <2> DEFINE T == {n \in Nat : n <= m /\ Replay'[n] # Replay[n]}
  <2> SUFFICES ASSUME T # {}
               PROVE  FALSE
      OBVIOUS
  <2>1. PICK t \in T : \A n \in T : t <= n
      BY LeastNat
  <2>2. t # 0
      BY <2>1 DEF ReplayEquations, EmptyStore
  <2>3. t - 1 \in Nat /\ t - 1 \notin T /\ t - 1 <= m /\ t \in 1 .. m
      BY <2>1, <2>2
  <2>4. Replay'[t - 1] = Replay[t - 1] /\ log'[t] = log[t]
      BY <2>3
  <2>5. Replay[t] = ApplyPatches(log[t], Replay[t - 1], ServerFresh)
      BY <2>3 DEF ReplayEquations
  <2>6. Replay'[t] = ApplyPatches(log'[t], Replay'[t - 1], ServerFresh)
      BY <2>3 DEF ReplayEquations
  <2> QED
      BY <2>1, <2>4, <2>5, <2>6
<1>2. ASSUME NEW n \in 0 .. m, NEW s \in Subject
      PROVE  NeverDropped(s, n)' <=> NeverDropped(s, n)
  <2>1. \A k \in 1 .. n : log'[k] = log[k]
      OBVIOUS
  <2> QED
      BY <2>1 DEF NeverDropped
<1> QED
    BY <1>1, <1>2

\* The record x of a node stands for what the record of s was after n entries.
Ready(x, s, n) ==
    /\ Covers(x, Replay[n][s])
    /\ NeverDropped(s, n) => x = Replay[n][s]

\* And so it does once the entry n is applied to it, to be written.
Outcome(x, s, n) ==
    /\ Ready(x, s, n)
    /\ x = Absent <=> Replay[n][s] = Absent
    /\ x = Absent => ~ NeverDropped(s, n)

Shown(d) == IF d = Absent THEN Absent ELSE d.record

\* The node of s stands for the record after n entries.
At(s, n) ==
    /\ Live(s) <=> Replay[n][s] # Absent
    /\ Ready(Shown(db[s]), s, n)

LEMMA AtReflects ==
    ASSUME NEW s \in Subject, NEW n \in Nat, At(s, n)
    PROVE  Reflects(s, n)
<1>1. Live(s) => Shown(db[s]) = db[s].record
    BY DEF Live, Shown
<1> QED
    BY <1>1 DEF At, Ready, Covers, Reflects

\* Applying entry k makes up for entry k, whether the node was before or at it.
LEMMA AppliedIsOutcome ==
    ASSUME Typed, NEW k \in DOMAIN log, NEW s \in Touched(log[k]),
           NEW x \in NodeRecord \cup {Absent}, Ready(x, s, k - 1) \/ Ready(x, s, k)
    PROVE  Outcome(After(log[k], s, x, ServerFresh), s, k)
<1> DEFINE b == log[k]
           y == After(b, s, x, ServerFresh)
           r == Replay[k][s]
<1>1. k \in Nat \ {0} /\ k - 1 \in 0 .. Len(log) /\ k \in 0 .. Len(log) /\ k - 1 \in Nat
    BY LenProperties DEF Typed
<1>2. PICK n \in Nat : IsBatch(b, n)
    BY DEF Typed
<1>3. s \in Subject
    BY DEF Typed, TypeOK
<1>4. Replay[k] \in RecordStore /\ Replay[k - 1] \in RecordStore
    BY <1>1, ReplayType
<1>5. Replay[k] = ApplyPatches(b, Replay[k - 1], ServerFresh)
    BY <1>1, ReplayUnfolds DEF ReplayEquations
<1>6. After(b, s, Replay[k - 1][s], ServerFresh) = r
    BY <1>3, <1>5 DEF ApplyPatches
<1>7. After(b, s, r, ServerFresh) = r
  <2>1. ServerFresh \in Record
      BY FreshIsRecordOf DEF ServerFresh
  <2>2. ApplyPatches(b, Replay[k], ServerFresh) = Replay[k]
    <3> HIDE DEF b
    <3> QED
        BY <1>2, <1>4, <1>5, <2>1, BatchIdempotent DEF RecordStore
  <2>3. ApplyPatches(b, Replay[k], ServerFresh)[s] = After(b, s, r, ServerFresh)
      BY <1>3 DEF ApplyPatches
  <2> QED
      BY <2>2, <2>3
<1>8. \A q \in RecordStore : q[s] \in NodeRecord \cup {Absent}
    BY <1>3 DEF RecordStore, Record, NodeRecord
<1>9. NeverDropped(s, k) => NeverDropped(s, k - 1) /\ ~ Dropped(b, s)
  <2>1. k \in 1 .. k /\ 1 .. (k - 1) \subseteq 1 .. k
      BY <1>1
  <2> QED
      BY <2>1 DEF NeverDropped, Dropped
<1> HIDE DEF b, y, r
<1>10. ASSUME NEW q \in {Replay[k - 1][s], r}, Covers(x, q), NeverDropped(s, k) => x = q
       PROVE  Outcome(y, s, k)
  <2>1. q \in NodeRecord \cup {Absent}
      BY <1>4, <1>8, <1>10 DEF r
  <2>2. After(b, s, q, ServerFresh) = r
      BY <1>6, <1>7, <1>10
  <2>3. s \in Touched(b)
      BY DEF b
  <2>4. /\ Covers(y, After(b, s, q, ServerFresh))
        /\ y = Absent <=> After(b, s, q, ServerFresh) = Absent
        /\ y = Absent => Dropped(b, s)
      BY <1>2, <1>10, <2>1, <2>3, BatchesCover DEF y
  <2>5. NeverDropped(s, k) => y = r
      BY <1>10, <2>2 DEF y
  <2> QED
      BY <1>9, <2>2, <2>4, <2>5 DEF Outcome, Ready, r
<1> QED
    BY <1>9, <1>10 DEF Ready, r, y, b

-----------------------------------------------------------------------------
(* The entries that are not acknowledged yet, and the rows in hand. *)

\* The stream is never trimmed.
Untrimmed == MaxLog <= StreamMax

\* What is pending are the entries after the last acknowledged one; the rows in hand
\* are the first of them, and at the live tail all of them.
Queue ==
    /\ earliest = 1 /\ Len(log) <= MaxLog
    /\ \A k \in pending, j \in 1 .. lastRead : k <= j => j \in pending
    /\ \A p \in Proc :
          /\ work[p].rows \subseteq pending /\ work[p].lost = {}
          /\ \A k \in pending, r \in work[p].rows : k <= r => k \in work[p].rows
          /\ phase[p] = "live" => pending \subseteq work[p].rows

LEMMA FirstInHand ==
    ASSUME Typed, Queue, NEW p \in Proc, work[p].rows # {}
    PROVE  /\ Min(work[p].rows) \in work[p].rows \cap pending
           /\ Min(work[p].rows) \in DOMAIN log /\ Min(work[p].rows) \in Nat \ {0}
           /\ \A j \in pending : Min(work[p].rows) <= j
           /\ Done = Min(work[p].rows) - 1
<1> DEFINE R == work[p].rows
           k == Min(R)
<1>1. /\ R \subseteq pending /\ pending \subseteq 1 .. lastRead /\ lastRead \in Nat
      /\ lastRead <= Len(log) /\ DOMAIN log = 1 .. Len(log) /\ Len(log) \in Nat
    BY LenProperties DEF Typed, TypeOK, Queue
<1>0. ASSUME NEW j \in pending
      PROVE  j \in DOMAIN log /\ j \in Nat \ {0}
    BY <1>1
<1>2. pending \subseteq Nat /\ R \subseteq Nat /\ pending \subseteq DOMAIN log
      /\ pending \subseteq Nat \ {0}
    BY <1>0, <1>1
<1>3. k \in R /\ \A j \in R : k <= j
    BY <1>2, MinIsFirst
<1>4. k \in pending
    BY <1>1, <1>3
<1>5. ASSUME NEW j \in pending
      PROVE  k <= j
  <2>1. j \in Nat /\ k \in Nat
      BY <1>2, <1>4
  <2>2. j <= k => j \in R
      BY <1>3 DEF Queue
  <2> QED
      BY <1>3, <2>1, <2>2
<1> HIDE DEF k, R
<1>6. Min(pending) = k
    BY <1>2, <1>4, <1>5, LeastIsMin
<1>7. Done = k - 1
    BY <1>4, <1>6 DEF Done
<1> QED
    BY <1>2, <1>3, <1>4, <1>5, <1>7 DEF k, R

LEMMA DoneType ==
    ASSUME Typed, Queue
    PROVE  /\ Done \in 0 .. Len(log)
           /\ pending # {} => Done < lastRead /\ Done + 1 \in DOMAIN log /\ Done + 1 \in pending
<1>1. /\ pending \subseteq 1 .. lastRead /\ lastRead \in Nat
      /\ lastRead <= Len(log) /\ DOMAIN log = 1 .. Len(log) /\ Len(log) \in Nat
    BY LenProperties DEF Typed, TypeOK
<1>2. CASE pending = {}
    BY <1>1, <1>2 DEF Done
<1>3. CASE pending # {}
  <2>0. pending \subseteq Nat
      BY <1>1
  <2>1. Min(pending) \in pending
      BY <1>3, <2>0, MinIsFirst
  <2>2. Min(pending) \in 1 .. lastRead
      BY <1>1, <2>1
  <2>3. Done = Min(pending) - 1
      BY <1>3 DEF Done
  <2>4. Done + 1 = Min(pending)
      BY <2>2, <2>3
  <2> QED
      BY <1>1, <2>1, <2>2, <2>3, <2>4
<1> QED
    BY <1>2, <1>3

LEMMA StepQueue ==
    ASSUME Unpaused, Untrimmed, Typed, Typed', Alone, Queue, [Next]_vars
    PROVE  Queue'
<1>n. /\ lastRead \in Nat /\ lastRead <= Len(log) /\ Len(log) \in Nat
      /\ DOMAIN log = 1 .. Len(log) /\ pending \subseteq 1 .. lastRead
      /\ phase \in [Proc -> Phase] /\ work \in [Proc -> WorkState]
      /\ NoRows.rows = {} /\ NoRows.lost = {}
      /\ \A p \in Proc : work[p].rows = {} => work[p].load = {} /\ work[p].save = {}
  <2>1. NoRows.rows = {} /\ NoRows.lost = {}
      BY DEF NoRows
  <2>2. /\ work \in [Proc -> WorkState] /\ phase \in [Proc -> Phase]
        /\ \A p \in Proc : work[p].rows = {} => work[p].load = {} /\ work[p].save = {}
      BY DEF Typed, TypeOK
  <2>3. log \in Seq(Logged) /\ lastRead \in 0 .. Len(log) /\ pending \subseteq 1 .. lastRead
      BY DEF Typed, TypeOK
  <2>4. Len(log) \in Nat /\ DOMAIN log = 1 .. Len(log)
      BY <2>3, LenProperties
  <2> QED
      BY <2>1, <2>2, <2>3, <2>4
\* Nothing is delivered, acknowledged or taken in hand.
<1>q. ASSUME earliest' = 1, Len(log') <= MaxLog, UNCHANGED group,
             \A p \in Proc :
                \/ work'[p].rows = work[p].rows /\ work'[p].lost = work[p].lost
                \/ work'[p].rows = {} /\ work'[p].lost = {},
             \A p \in Proc : phase'[p] = "live" =>
                \/ phase[p] = "live" /\ work'[p].rows = work[p].rows
                \/ pending = {}
      PROVE  Queue'
    BY <1>q DEF Queue, group
\* Another process has nothing in hand, and is not at work.
<1>o. ASSUME NEW p \in Proc, phase[p] \notin {"down", "halted"}, NEW q \in Proc, q # p
      PROVE  work[q].rows = {} /\ phase[q] # "live"
    BY <1>o DEF Alone
<1>1. ASSUME NEW e \in Edit, Accept(e)
      PROVE  Queue'
  <2> DEFINE c == Len(log) + 1 + 1 - StreamMax
  <2>1. /\ Len(log) + 1 <= MaxLog /\ earliest' \in earliest .. Max({earliest, c})
        /\ UNCHANGED <<group, phase, work>>
      BY <1>1 DEF Accept
  <2>2. Len(log') <= MaxLog
    <3>1. PICK x : log' = Append(log, x)
        BY <1>1 DEF Accept
    <3>2. x \in Logged
      <4>1. Len(log) + 1 \in 1 .. Len(log) + 1
          BY <1>n
      <4>2. log' \in Seq(Logged) /\ log \in Seq(Logged)
          BY DEF Typed
      <4>3. Len(log') = Len(log) + 1 /\ log'[Len(log) + 1] = x
          BY <3>1, <4>2
      <4> QED
          BY <4>1, <4>2, <4>3, ElementOfSeq
    <3>3. log \in Seq(Logged)
        BY DEF Typed
    <3> QED
        BY <2>1, <3>1, <3>2, <3>3, AppendProperties
  <2>3. c \in Int /\ c <= 1
      BY <1>n, <2>1, BoundsAreNaturals DEF Untrimmed
  <2>4. Max({1, c}) = 1
    <3>1. 1 \in {1, c} /\ \A y \in {1, c} : 1 >= y
        BY <2>3
    <3>2. \A x \in {1, c} : (\A y \in {1, c} : x >= y) => x = 1
        BY <2>3
    <3> HIDE DEF c
    <3>3. Max({1, c}) \in {1, c} /\ \A y \in {1, c} : Max({1, c}) >= y
        BY <3>1 DEF Max
    <3> QED
        BY <3>2, <3>3
  <2>5. earliest' = 1
    <3> HIDE DEF c
    <3>1. earliest = 1
        BY DEF Queue
    <3>2. earliest' \in 1 .. 1
        BY <2>1, <2>4, <3>1
    <3> QED
        BY <3>2
  <2> QED
      BY <1>q, <2>1, <2>2, <2>5
<1>2. CASE Lapse \/ LapseEarly
    BY <1>2, <1>q DEF Lapse, LapseEarly, Queue, ingest
<1>3. ASSUME NEW p \in Proc,
             \/ Claim(p) \/ Discover(p) \/ HeartbeatLost(p) \/ HeartbeatFails(p)
             \/ Stop(p) \/ Stopped(p) \/ Recovered(p)
      PROVE  Queue'
  <2>1. UNCHANGED <<ingest, group, work>>
      BY <1>3 DEF Claim, Discover, HeartbeatLost, HeartbeatFails, Stop, Stopped, Recovered
  <2>2. \A q \in Proc : phase'[q] = "live" => phase[q] = "live" \/ pending = {}
      BY <1>3, <1>n DEF Claim, Discover, HeartbeatLost, HeartbeatFails, Stop, Stopped, Recovered
  <2>3. earliest' = 1 /\ Len(log') <= MaxLog
      BY <2>1 DEF ingest, Queue
  <2> QED
      BY <1>q, <2>1, <2>2, <2>3
<1>4. ASSUME NEW p \in Proc, Crash(p) \/ FailBatch(p)
      PROVE  Queue'
  <2>1. UNCHANGED <<ingest, group>> /\ work' = [work EXCEPT ![p] = NoRows]
      BY <1>4 DEF Crash, FailBatch
  <2>2. \A q \in Proc : phase'[q] = "live" => phase[q] = "live" /\ q # p
      BY <1>4, <1>n DEF Crash, FailBatch
  <2>3. earliest' = 1 /\ Len(log') <= MaxLog
      BY <2>1 DEF ingest, Queue
  <2> QED
      BY <1>n, <1>q, <2>1, <2>2, <2>3
<1>5. ASSUME NEW p \in Proc, ReadPending(p)
      PROVE  Queue'
  <2> DEFINE R == Batch(pending)
             lost == {k \in R : k < earliest}
  <2>1. /\ phase[p] = "recovering" /\ UNCHANGED <<ingest, group, phase>>
        /\ work' = [work EXCEPT ![p] = Holding(R, lost)]
      BY <1>5 DEF ReadPending
  <2>2. R \subseteq pending /\ \A k \in pending, r \in R : k <= r => k \in R
      BY <1>n, BatchType
  <2> HIDE DEF R
  <2>3. lost = {}
    <3>1. ASSUME NEW k \in R
          PROVE  ~ (k < earliest)
      <4>1. k \in 1 .. lastRead
          BY <1>n, <2>2
      <4> QED
          BY <4>1 DEF Queue
    <3> QED
        BY <3>1
  <2> HIDE DEF lost
  <2>4. work'[p].rows = R /\ work'[p].lost = {} /\ \A q \in Proc : q # p => work'[q] = work[q]
    <3>1. Holding(R, lost).rows = R /\ Holding(R, lost).lost = lost
        BY DEF Holding
    <3> QED
        BY <1>n, <2>1, <2>3, <3>1
  <2>5. \A q \in Proc : q # p => work[q].rows = {}
      BY <1>o, <2>1
  <2> QED
      BY <2>1, <2>2, <2>4, <2>5 DEF Queue, ingest, group
<1>6. ASSUME NEW p \in Proc, ReadLive(p)
      PROVE  Queue'
  <2> DEFINE R == Batch(Unread)
  <2>1. /\ phase[p] = "live" /\ work[p].rows = {} /\ Unread # {}
        /\ lastRead' = Max(R) /\ pending' = pending \cup R
        /\ work' = [work EXCEPT ![p] = Holding(R, {})]
        /\ UNCHANGED <<ingest, phase>>
      BY <1>6 DEF ReadLive
  <2>2. pending = {}
      BY <2>1 DEF Queue
  <2>3. Unread = (lastRead + 1) .. Len(log)
      BY <1>n DEF Unread, Queue
  <2>4. /\ R \subseteq Unread /\ R # {}
        /\ \A k \in Unread, r \in R : k <= r => k \in R
    <3>1. Unread \subseteq 1 .. Len(log)
        BY <1>n, <2>3
    <3> QED
        BY <1>n, <2>1, <3>1, BatchType
  <2> HIDE DEF R
  <2>5. Max(R) \in R /\ \A y \in R : y <= Max(R)
    <3>1. R \subseteq 0 .. Len(log)
        BY <1>n, <2>3, <2>4
    <3> QED
        BY <1>n, <2>4, <3>1, MaxIsLast
  <2>6. work'[p].rows = R /\ work'[p].lost = {} /\ \A q \in Proc : q # p => work'[q] = work[q]
    <3>1. Holding(R, {}).rows = R /\ Holding(R, {}).lost = {}
        BY DEF Holding
    <3> QED
        BY <1>n, <2>1, <3>1
  <2>7. \A q \in Proc : q # p => work[q].rows = {} /\ phase[q] # "live" /\ work[q].lost = {}
      BY <1>o, <2>1 DEF Queue
  <2>8. ASSUME NEW k \in R, NEW j \in 1 .. lastRead', k <= j
        PROVE  j \in R
    <3>1. lastRead' \in R
        BY <2>1, <2>5
    <3>2. k \in Unread /\ lastRead' \in Unread
        BY <2>4, <3>1
    <3>3. j \in Unread /\ j <= lastRead'
        BY <1>n, <2>3, <2>8, <3>2
    <3> QED
        BY <2>4, <3>1, <3>3
  <2>9. earliest' = 1 /\ Len(log') <= MaxLog
      BY <2>1 DEF ingest, Queue
  <2> QED
      BY <2>1, <2>2, <2>6, <2>7, <2>8, <2>9 DEF Queue
<1>7. ASSUME NEW p \in Proc, NEW s \in Subject, ReadRecord(p, s) \/ WriteRecord(p, s)
      PROVE  Queue'
  <2>1. UNCHANGED <<ingest, group, phase>>
      BY <1>7 DEF ReadRecord, WriteRecord
  <2>2. work'[p].rows = work[p].rows /\ work'[p].lost = work[p].lost
        /\ \A q \in Proc : q # p => work'[q] = work[q]
    <3>1. CASE ReadRecord(p, s)
      <4> DEFINE w == work[p]
                 scratch == [w.scratch EXCEPT ![s] = IF db[s] = Absent THEN Absent ELSE db[s].record]
                 full == [w EXCEPT !.load = {}, !.save = Touched(log[Min(w.rows)]),
                            !.scratch = ApplyPatches(log[Min(w.rows)], scratch, ServerFresh)]
                 some == [w EXCEPT !.load = @ \ {s}, !.scratch = scratch]
      <4>1. w \in WorkState
          BY <1>n
      <4>2. full.rows = w.rows /\ full.lost = w.lost /\ some.rows = w.rows /\ some.lost = w.lost
        <5> HIDE DEF scratch, w
        <5> QED
            BY <4>1 DEF WorkState
      <4>3. work' = [work EXCEPT ![p] = IF w.load = {s} THEN full ELSE some]
          BY <3>1 DEF ReadRecord
      <4> HIDE DEF full, some, w
      <4> QED
          BY <1>n, <4>2, <4>3 DEF w
    <3>2. CASE WriteRecord(p, s)
      <4> DEFINE w == work[p]
                 new == [w EXCEPT !.save = @ \ {s}]
      <4>1. w \in WorkState
          BY <1>n
      <4>2. new.rows = w.rows /\ new.lost = w.lost
          BY <4>1 DEF WorkState
      <4>3. work' = [work EXCEPT ![p] = new]
          BY <3>2, <4>1 DEF WriteRecord, WorkState
      <4> HIDE DEF new, w
      <4> QED
          BY <1>n, <4>2, <4>3 DEF w
    <3> QED
        BY <1>7, <3>1, <3>2
  <2>3. earliest' = 1 /\ Len(log') <= MaxLog
      BY <2>1 DEF ingest, Queue
  <2> QED
      BY <1>q, <2>1, <2>2, <2>3
<1>8. ASSUME NEW p \in Proc, Acknowledge(p)
      PROVE  Queue'
  <2> DEFINE k == Min(work[p].rows)
             R == work[p].rows \ {k}
             lost == work[p].lost \ {k}
  <2>1. /\ work[p].rows # {} /\ pending' = pending \ {k}
        /\ work' = [work EXCEPT ![p] = Holding(R, lost)]
        /\ UNCHANGED <<ingest, lastRead, phase>>
      BY <1>8 DEF Acknowledge
  <2>2. k \in Nat /\ k \in work[p].rows /\ \A j \in pending : k <= j
      BY <2>1, FirstInHand
  <2>3. work'[p].rows = R /\ work'[p].lost = {} /\ \A q \in Proc : q # p => work'[q] = work[q]
    <3>1. lost = {}
        BY DEF Queue
    <3> HIDE DEF R, lost
    <3>2. Holding(R, lost).rows = R /\ Holding(R, lost).lost = lost
        BY DEF Holding
    <3> QED
        BY <1>n, <2>1, <3>1, <3>2
  <2>4. \A q \in Proc : q # p => work[q].rows = {} /\ phase[q] # "live"
    <3>1. phase[p] \notin {"down", "halted"}
        BY <2>1 DEF Alone
    <3> QED
        BY <1>o, <3>1
  <2>5. ASSUME NEW i \in pending', NEW j \in 1 .. lastRead', i <= j
        PROVE  j \in pending'
    <3>1. i \in pending /\ i # k /\ k <= i /\ i \in Nat
        BY <1>n, <2>1, <2>2
    <3>2. j \in pending /\ j \in Nat
        BY <2>1, <2>5, <3>1 DEF Queue
    <3> QED
        BY <2>1, <2>2, <2>5, <3>1, <3>2
  <2>6. R \subseteq pending' /\ (\A i \in pending', r \in R : i <= r => i \in R)
        /\ (phase[p] = "live" => pending' \subseteq R)
    <3> HIDE DEF k
    <3> QED
        BY <2>1 DEF Queue
  <2>7. earliest' = 1 /\ Len(log') <= MaxLog
      BY <2>1 DEF ingest, Queue
  <2>8. \A q \in Proc : q # p => work[q].lost = {}
      BY DEF Queue
  <2> HIDE DEF R, lost, k
  <2> QED
      BY <2>1, <2>3, <2>4, <2>5, <2>6, <2>7, <2>8 DEF Queue
<1>9. ASSUME NEW p \in Proc, (\E cutoff \in 1 .. (Len(log) + 1) : SweepPurge(p, cutoff))
                             \/ SweepForget(p)
      PROVE  Queue'
  <2>1. UNCHANGED <<log, earliest, group, phase, work>>
      BY <1>9 DEF SweepPurge, SweepForget, ingest
  <2> QED
      BY <1>q, <2>1 DEF Queue
<1>10. CASE UNCHANGED vars
    BY <1>10, <1>q DEF vars, ingest, Queue
<1> QED
    BY <1>1, <1>2, <1>3, <1>4, <1>5, <1>6, <1>7, <1>8, <1>9, <1>10
    DEF Next, Handle

-----------------------------------------------------------------------------
(* The nodes are at the last acknowledged entry, or at the one after it. *)

\* What the process that holds w has made of the entry k.
Holds(w, k) ==
    /\ w.load \cup w.save \subseteq Touched(log[k])
    /\ w.load # {} =>
          /\ w.save = {}
          /\ \A s \in Touched(log[k]) \ w.load :
                Ready(w.scratch[s], s, k - 1) \/ Ready(w.scratch[s], s, k)
    /\ w.load = {} =>
          /\ \A s \in w.save : Outcome(w.scratch[s], s, k)
          /\ \A s \in Touched(log[k]) \ w.save : At(s, k)

InHand ==
    \A p \in Proc, w \in WorkState, k \in DOMAIN log :
        w = work[p] /\ w.rows # {} /\ k = Min(w.rows) => Holds(w, k)

Behind ==
    \A n \in 0 .. Len(log) : n = Done =>
        \A s \in Subject : At(s, n) \/ (pending # {} /\ At(s, n + 1))

Follows == InHand /\ Behind

\* The nodes do not move and the log at most grows, so what they stood for they
\* stand for.
LEMMA NodesKept ==
    ASSUME \A k \in DOMAIN log : log'[k] = log[k], Typed,
           NEW s \in Subject, db'[s] = db[s]
    PROVE  \A n \in 0 .. Len(log) : At(s, n) => At(s, n)'
<1>1. Len(log) \in Nat /\ DOMAIN log = 1 .. Len(log)
    BY LenProperties DEF Typed
<1>2. ReplayEquations'
    BY ReplayUnfolds, PTL
<1>3. \A n \in 0 .. Len(log) : /\ Replay'[n] = Replay[n]
                               /\ NeverDropped(s, n)' <=> NeverDropped(s, n)
    BY <1>1, <1>2, ReplayUnfolds, PrefixKept
<1> QED
    BY <1>3 DEF At, Live, Ready, Shown

\* A purged node stands for a record that is gone, as it did before.
LEMMA PurgedKept ==
    ASSUME Typed, UNCHANGED log, NEW s \in Subject, ~ Live(s), db'[s] = Absent
    PROVE  \A n \in 0 .. Len(log) : At(s, n) => At(s, n)'
<1>1. Len(log) \in Nat /\ DOMAIN log = 1 .. Len(log)
    BY LenProperties DEF Typed
<1>2. ReplayEquations'
    BY ReplayUnfolds, PTL
<1>3. \A n \in 0 .. Len(log) : /\ Replay'[n] = Replay[n]
                               /\ NeverDropped(s, n)' <=> NeverDropped(s, n)
    BY <1>1, <1>2, ReplayUnfolds, PrefixKept
<1> QED
    BY <1>3 DEF At, Live, Ready, Covers, Shown

LEMMA OutcomesKept ==
    ASSUME Typed, \A k \in DOMAIN log : log'[k] = log[k]
    PROVE  \A n \in 0 .. Len(log), s \in Subject, x \in NodeRecord \cup {Absent} :
              /\ Ready(x, s, n) => Ready(x, s, n)'
              /\ Outcome(x, s, n) => Outcome(x, s, n)'
<1>1. Len(log) \in Nat /\ DOMAIN log = 1 .. Len(log)
    BY LenProperties DEF Typed
<1>2. ReplayEquations'
    BY ReplayUnfolds, PTL
<1>3. \A n \in 0 .. Len(log), s \in Subject :
          /\ Replay'[n] = Replay[n]
          /\ NeverDropped(s, n)' <=> NeverDropped(s, n)
    BY <1>1, <1>2, ReplayUnfolds, PrefixKept
<1> QED
    BY <1>3 DEF Ready, Outcome

LEMMA HoldsKept ==
    ASSUME Typed, \A k \in DOMAIN log : log'[k] = log[k],
           \A s \in Subject : \A n \in 0 .. Len(log) : At(s, n) => At(s, n)'
    PROVE  \A w \in WorkState, k \in DOMAIN log : Holds(w, k) => Holds(w, k)'
<1> SUFFICES ASSUME NEW w \in WorkState, NEW k \in DOMAIN log, Holds(w, k)
             PROVE  Holds(w, k)'
    OBVIOUS
<1>1. k \in 0 .. Len(log) /\ k - 1 \in 0 .. Len(log)
    BY LenProperties DEF Typed
<1>2. Touched(log'[k]) = Touched(log[k]) /\ Touched(log[k]) \subseteq Subject
    BY DEF Typed, TypeOK
<1>3. \A s \in Subject : w.scratch[s] \in NodeRecord \cup {Absent}
    BY DEF WorkState, NodeStore
<1>4. \A s \in Touched(log[k]) :
          /\ Ready(w.scratch[s], s, k - 1) => Ready(w.scratch[s], s, k - 1)'
          /\ Ready(w.scratch[s], s, k) => Ready(w.scratch[s], s, k)'
          /\ Outcome(w.scratch[s], s, k) => Outcome(w.scratch[s], s, k)'
          /\ At(s, k) => At(s, k)'
    BY <1>1, <1>2, <1>3, OutcomesKept
<1> QED
    BY <1>2, <1>4 DEF Holds

\* A step that delivers and acknowledges nothing, and of the rows in hand at most
\* lets go of some.
LEMMA QuietFollows ==
    ASSUME Typed, Typed', Queue, Follows, UNCHANGED group,
           Len(log') >= Len(log), \A k \in DOMAIN log : log'[k] = log[k],
           \A s \in Subject : \A n \in 0 .. Len(log) : At(s, n) => At(s, n)',
           \A p \in Proc : work'[p] = work[p] \/ work'[p].rows = {}
    PROVE  Follows'
<1>1. Behind'
  <2> SUFFICES ASSUME NEW n \in 0 .. Len(log'), n = Done', NEW s \in Subject
               PROVE  At(s, n)' \/ (pending' # {} /\ At(s, n + 1)')
      BY DEF Behind
  <2>1. pending' = pending /\ Done' = Done
      BY DEF group, Done
  <2>2. n \in 0 .. Len(log) /\ (pending # {} => n + 1 \in 0 .. Len(log))
    <3>1. Done \in 0 .. Len(log) /\ (pending # {} => Done + 1 \in DOMAIN log)
        BY DoneType
    <3>2. DOMAIN log = 1 .. Len(log) /\ Len(log) \in Nat
        BY LenProperties DEF Typed
    <3> QED
        BY <2>1, <3>1, <3>2
  <2>3. At(s, n) \/ (pending # {} /\ At(s, n + 1))
      BY <2>1, <2>2 DEF Follows, Behind
  <2>4. At(s, n) => At(s, n)'
      BY <2>2
  <2>5. pending # {} /\ At(s, n + 1) => At(s, n + 1)'
      BY <2>2
  <2> QED
      BY <2>1, <2>3, <2>4, <2>5
<1>2. InHand'
  <2> SUFFICES ASSUME NEW p \in Proc, NEW w \in WorkState, NEW k \in DOMAIN log',
                      w = work'[p], w.rows # {}, k = Min(w.rows)
               PROVE  Holds(w, k)'
      BY DEF InHand
  <2>1. work[p] = w
      OBVIOUS
  <2>2. k \in DOMAIN log
      BY <2>1, FirstInHand
  <2>3. Holds(w, k)
      BY <2>1, <2>2 DEF Follows, InHand
  <2> QED
      BY <2>2, <2>3, HoldsKept
<1> QED
    BY <1>1, <1>2 DEF Follows

\* The step that takes rows R in hand, nothing of them being read.
LEMMA TakenFollows ==
    ASSUME Typed, Typed', Queue', UNCHANGED log, Behind', InHand,
           NEW p \in Proc, NEW R, work'[p] = Holding(R, {}),
           \A s \in Subject : \A n \in 0 .. Len(log) : At(s, n) => At(s, n)',
           \A q \in Proc : q # p => work'[q] = work[q]
    PROVE  Follows'
<1> SUFFICES ASSUME NEW q \in Proc, NEW w \in WorkState, NEW k \in DOMAIN log',
                    w = work'[q], w.rows # {}, k = Min(w.rows)
             PROVE  Holds(w, k)'
    BY DEF InHand, Follows
<1>1. CASE q = p
  <2>1. w.rows = R /\ w.save = {} /\ w.load = Touched(log'[k])
      BY <1>1 DEF Holding
  <2> QED
      BY <2>1 DEF Holds
<1>2. CASE q # p
  <2>1. w = work[q] /\ k \in DOMAIN log
      BY <1>2
  <2>2. Holds(w, k)
      BY <2>1 DEF InHand
  <2> QED
      BY <2>1, <2>2, HoldsKept
<1> QED
    BY <1>1, <1>2

\* A step of the process p with its rows: the others have none, so all depends on p.
LEMMA WorkingFollows ==
    ASSUME Typed', Behind', NEW p \in Proc,
           \A q \in Proc : q # p => work'[q].rows = {},
           NEW w \in WorkState, work'[p] = w,
           NEW k \in DOMAIN log', w.rows # {} => k = Min(w.rows) /\ Holds(w, k)'
    PROVE  Follows'
<1> SUFFICES ASSUME NEW q \in Proc, NEW v \in WorkState, NEW i \in DOMAIN log',
                    v = work'[q], v.rows # {}, i = Min(v.rows)
             PROVE  Holds(v, i)'
    BY DEF InHand, Follows
<1>1. q = p /\ v = w /\ i = k
    OBVIOUS
<1> QED
    BY <1>1

LEMMA InitFollows == Init => Queue /\ Follows
<1> SUFFICES ASSUME Init
             PROVE  Queue /\ Follows
    OBVIOUS
<1>1. /\ log = <<>> /\ Len(log) = 0 /\ DOMAIN log = {} /\ lastRead = 0 /\ pending = {}
      /\ earliest = 1 /\ \A p \in Proc : work[p].rows = {} /\ work[p].lost = {} /\ phase[p] = "down"
    BY EmptySeq DEF Init, NoRows
<1>2. Queue
    BY <1>1, BoundsAreNaturals DEF Queue
<1>3. InHand
    BY <1>1 DEF InHand
<1>4. ASSUME NEW s \in Subject
      PROVE  At(s, 0)
  <2>1. Replay[0][s] = Absent
      BY ReplayUnfolds DEF ReplayEquations, EmptyStore
  <2>2. db[s] = Absent
      BY DEF Init, EmptyStore
  <2> QED
      BY <2>1, <2>2 DEF At, Live, Ready, Covers, Shown
<1>5. Done = 0
    BY <1>1 DEF Done
<1>6. Behind
    BY <1>4, <1>5 DEF Behind
<1> QED
    BY <1>2, <1>3, <1>6 DEF Follows

\* The entries read are not acknowledged, whether they were delivered before or now.
LEMMA ReadFollows ==
    ASSUME Typed, Typed', Alone, Queue, Queue', Follows, NEW p \in Proc,
           ReadPending(p) \/ ReadLive(p)
    PROVE  Follows'
<1>n. /\ lastRead \in Nat /\ lastRead <= Len(log) /\ Len(log) \in Nat
      /\ DOMAIN log = 1 .. Len(log) /\ pending \subseteq 1 .. lastRead
      /\ work \in [Proc -> WorkState]
  <2>1. log \in Seq(Logged) /\ lastRead \in 0 .. Len(log) /\ pending \subseteq 1 .. lastRead
        /\ work \in [Proc -> WorkState]
      BY DEF Typed, TypeOK
  <2> QED
      BY <2>1, LenProperties
<1>1. UNCHANGED <<log, db>>
    BY DEF ReadPending, ReadLive, ingest
<1>2. \A s \in Subject : \A n \in 0 .. Len(log) : At(s, n) => At(s, n)'
    BY <1>1, NodesKept
<1>3. CASE ReadPending(p)
  <2> DEFINE R == Batch(pending)
             lost == {k \in R : k < earliest}
  <2>1. /\ pending # {} /\ UNCHANGED group /\ work' = [work EXCEPT ![p] = Holding(R, lost)]
      BY <1>3 DEF ReadPending
  <2>2. R \subseteq pending /\ R # {}
      BY <1>n, <2>1, BatchType
  <2> HIDE DEF R
  <2>3. lost = {}
    <3>1. work'[p].lost = lost
      <4>1. Holding(R, lost).lost = lost
          BY DEF Holding
      <4> QED
          BY <1>n, <2>1, <4>1
    <3> QED
        BY <3>1 DEF Queue
  <2>4. work'[p] = Holding(R, {}) /\ \A q \in Proc : q # p => work'[q] = work[q]
      BY <1>n, <2>1, <2>3
  <2>5. Behind'
    <3> SUFFICES ASSUME NEW n \in 0 .. Len(log'), n = Done', NEW s \in Subject
                 PROVE  At(s, n)' \/ (pending' # {} /\ At(s, n + 1)')
        BY DEF Behind
    <3>1. Done' = Done /\ pending' = pending /\ n \in 0 .. Len(log)
        BY <1>1, <2>1 DEF group, Done
    <3>2. n + 1 \in 0 .. Len(log)
      <4>1. Done + 1 \in DOMAIN log
          BY <2>1, DoneType
      <4> QED
          BY <1>n, <3>1, <4>1
    <3>3. At(s, n) \/ At(s, n + 1)
        BY <3>1 DEF Follows, Behind
    <3>4. (At(s, n) => At(s, n)') /\ (At(s, n + 1) => At(s, n + 1)')
        BY <1>2, <3>1, <3>2
    <3> QED
        BY <2>1, <3>1, <3>3, <3>4
  <2> QED
      BY <1>1, <1>2, <2>2, <2>4, <2>5, TakenFollows DEF Follows
<1>4. CASE ReadLive(p)
  <2> DEFINE R == Batch(Unread)
  <2>1. /\ phase[p] = "live" /\ work[p].rows = {} /\ Unread # {}
        /\ pending' = pending \cup R /\ work' = [work EXCEPT ![p] = Holding(R, {})]
      BY <1>4 DEF ReadLive
  <2>2. pending = {}
      BY <2>1 DEF Queue
  <2>3. Unread = (lastRead + 1) .. Len(log)
      BY <1>n DEF Unread, Queue
  <2>4. /\ R \subseteq Unread /\ R # {}
        /\ \A k \in Unread, r \in R : k <= r => k \in R
    <3>1. Unread \subseteq 1 .. Len(log)
        BY <1>n, <2>3
    <3> QED
        BY <1>n, <2>1, <3>1, BatchType
  <2> HIDE DEF R
  <2>5. work'[p] = Holding(R, {}) /\ \A q \in Proc : q # p => work'[q] = work[q]
      BY <1>n, <2>1
  <2>6. Done' = lastRead /\ Done = lastRead
    <3>1. lastRead + 1 \in R /\ \A r \in R : lastRead + 1 <= r /\ r \in Nat
      <4>1. \A r \in R : r \in Nat /\ lastRead + 1 <= r /\ r <= Len(log)
          BY <1>n, <2>3, <2>4
      <4>2. PICK r \in R : TRUE
          BY <2>4
      <4>3. lastRead + 1 \in Unread
          BY <1>n, <2>3, <4>1, <4>2
      <4> QED
          BY <2>4, <4>1, <4>2, <4>3
    <3>2. Min(R) = lastRead + 1
      <4>1. R \subseteq Nat
          BY <3>1
      <4> QED
          BY <3>1, <4>1, LeastIsMin
    <3>3. pending' = R
        BY <2>1, <2>2
    <3> QED
        BY <1>n, <2>2, <2>4, <3>2, <3>3 DEF Done
  <2>7. Behind'
    <3> SUFFICES ASSUME NEW n \in 0 .. Len(log'), n = Done', NEW s \in Subject
                 PROVE  At(s, n)'
        BY DEF Behind
    <3>1. n = lastRead /\ n \in 0 .. Len(log)
        BY <1>1, <2>6
    <3>2. At(s, n)
        BY <2>2, <2>6, <3>1 DEF Follows, Behind
    <3> QED
        BY <1>2, <3>1, <3>2
  <2> QED
      BY <1>1, <1>2, <2>4, <2>5, <2>7, TakenFollows DEF Follows
<1> QED
    BY <1>3, <1>4

\* The rows in hand are those of one process.
LEMMA OthersHaveNone ==
    ASSUME Alone, NEW p \in Proc, work[p].rows # {}
    PROVE  \A q \in Proc : q # p => work[q].rows = {}
    BY DEF Alone

\* A node is read at the entry before, or at this one if it is delivered again.
LEMMA LoadFollows ==
    ASSUME Typed, Typed', Alone, Queue, Follows,
           NEW p \in Proc, NEW s \in Subject, ReadRecord(p, s)
    PROVE  Follows'
<1>r. PICK w, k : w = work[p] /\ k = Min(work[p].rows)
    OBVIOUS
<1> DEFINE b == log[k]
           scratch == [w.scratch EXCEPT ![s] = IF db[s] = Absent THEN Absent ELSE db[s].record]
           full == [w EXCEPT !.load = {}, !.save = Touched(b),
                      !.scratch = ApplyPatches(b, scratch, ServerFresh)]
           some == [w EXCEPT !.load = @ \ {s}, !.scratch = scratch]
<1>1. /\ s \in w.load /\ UNCHANGED <<ingest, group, db>>
      /\ work' = [work EXCEPT ![p] = IF w.load = {s} THEN full ELSE some]
    BY <1>r DEF ReadRecord
<1>2. w \in WorkState /\ w.rows # {}
    BY <1>1, <1>r DEF Typed
<1>3. k \in DOMAIN log /\ k \in pending /\ k \in Nat \ {0} /\ Done = k - 1
    BY <1>2, <1>r, FirstInHand
<1>n. Len(log) \in Nat /\ DOMAIN log = 1 .. Len(log)
    BY LenProperties DEF Typed
<1>4. Holds(w, k)
    BY <1>2, <1>3, <1>r DEF Follows, InHand
<1>5. Touched(b) \subseteq Subject
    BY <1>3 DEF Typed, TypeOK
<1>6. /\ s \in Touched(b)
      /\ \A t \in Touched(b) \ w.load : Ready(w.scratch[t], t, k - 1) \/ Ready(w.scratch[t], t, k)
    BY <1>1, <1>4 DEF Holds
<1>k. \A t \in Subject : \A n \in 0 .. Len(log) : At(t, n) => At(t, n)'
    BY <1>1, NodesKept DEF ingest
<1>7. /\ scratch \in NodeStore /\ scratch[s] = Shown(db[s])
      /\ \A t \in Subject : t # s => scratch[t] = w.scratch[t]
  <2>1. w.scratch \in NodeStore
      BY <1>2 DEF WorkState
  <2>2. Shown(db[s]) \in NodeRecord \cup {Absent}
      BY DEF Shown, Typed, TypeOK, Node
  <2>3. scratch = [w.scratch EXCEPT ![s] = Shown(db[s])]
      BY DEF Shown
  <2> QED
      BY <2>1, <2>2, <2>3 DEF NodeStore
<1> HIDE DEF scratch
<1>8. \A t \in (Touched(b) \ w.load) \cup {s} : Ready(scratch[t], t, k - 1) \/ Ready(scratch[t], t, k)
  <2>1. k - 1 \in 0 .. Len(log) /\ (k - 1) + 1 = k
      BY <1>3, <1>n
  <2>2. At(s, k - 1) \/ At(s, k)
      BY <1>3, <2>1 DEF Follows, Behind
  <2>3. Ready(scratch[s], s, k - 1) \/ Ready(scratch[s], s, k)
      BY <1>7, <2>2 DEF At
  <2> QED
      BY <1>5, <1>6, <1>7, <2>3
<1>9. PICK n \in Nat : IsBatch(b, n)
    BY <1>3 DEF Typed
<1> HIDE DEF b
<1>10. \A t \in Touched(b) : scratch[t] \in NodeRecord \cup {Absent}
    BY <1>5, <1>7 DEF NodeStore
<1>11. full.rows = w.rows /\ full.load = {} /\ full.save = Touched(b)
       /\ full.scratch = ApplyPatches(b, scratch, ServerFresh)
    BY <1>2 DEF WorkState
<1>12. some.rows = w.rows /\ some.load = w.load \ {s} /\ some.save = w.save /\ some.scratch = scratch
    BY <1>2 DEF WorkState
<1> HIDE DEF full, some
<1>c. PICK new : new = IF w.load = {s} THEN full ELSE some
    OBVIOUS
<1>13. work'[p] = new /\ new.rows = w.rows /\ new \in WorkState
       /\ \A q \in Proc : q # p => work'[q] = work[q]
  <2>1. work \in [Proc -> WorkState] /\ work' \in [Proc -> WorkState]
      BY DEF Typed
  <2> QED
      BY <1>1, <1>11, <1>12, <1>c, <2>1
<1>14. Holds(new, k)
  <2>1. CASE w.load = {s}
    <3>1. ASSUME NEW t \in Touched(b)
          PROVE  Outcome(full.scratch[t], t, k)
      <4>1. t \in (Touched(b) \ w.load) \cup {s}
          BY <2>1
      <4>2. Ready(scratch[t], t, k - 1) \/ Ready(scratch[t], t, k)
          BY <1>8, <4>1
      <4>3. full.scratch[t] = After(b, t, scratch[t], ServerFresh)
          BY <1>5, <1>11 DEF ApplyPatches
      <4>4. Outcome(After(b, t, scratch[t], ServerFresh), t, k)
          BY <1>3, <1>10, <4>2, AppliedIsOutcome DEF b
      <4> QED
          BY <4>3, <4>4
    <3> QED
        BY <1>11, <1>c, <2>1, <3>1 DEF Holds, b
  <2>2. CASE w.load # {s}
    <3>1. w.load # {} /\ w.save = {} /\ w.load \subseteq Touched(b)
        BY <1>1, <1>4 DEF Holds, b
    <3>2. new.load # {} /\ new.save = {} /\ new.load \subseteq Touched(b)
        BY <1>1, <1>12, <1>c, <2>2, <3>1
    <3>3. \A t \in Touched(b) \ new.load :
             Ready(new.scratch[t], t, k - 1) \/ Ready(new.scratch[t], t, k)
      <4>1. Touched(b) \ new.load \subseteq (Touched(b) \ w.load) \cup {s}
          BY <1>12, <1>c, <2>2
      <4>2. new.scratch = scratch
          BY <1>12, <1>c, <2>2
      <4> QED
          BY <1>8, <4>1, <4>2
    <3> QED
        BY <3>2, <3>3 DEF Holds, b
  <2> QED
      BY <2>1, <2>2
<1>15. Holds(new, k)'
    BY <1>1, <1>3, <1>13, <1>14, <1>k, HoldsKept DEF ingest
<1>16. Behind'
  <2> SUFFICES ASSUME NEW i \in 0 .. Len(log'), i = Done', NEW t \in Subject
               PROVE  At(t, i)' \/ (pending' # {} /\ At(t, i + 1)')
      BY DEF Behind
  <2>1. Done' = Done /\ pending' = pending /\ i \in 0 .. Len(log)
      BY <1>1 DEF group, Done, ingest
  <2>2. i = k - 1 /\ i + 1 = k /\ k \in 0 .. Len(log) /\ pending # {}
      BY <1>3, <1>n, <2>1
  <2>3. At(t, i) \/ At(t, i + 1)
      BY <2>1 DEF Follows, Behind
  <2> QED
      BY <1>k, <2>1, <2>2, <2>3
<1>17. \A q \in Proc : q # p => work'[q].rows = {}
    BY <1>2, <1>13, <1>r, OthersHaveNone
<1>18. k \in DOMAIN log' /\ k = Min(new.rows)
    BY <1>1, <1>3, <1>13, <1>r DEF ingest
<1> QED
    BY <1>13, <1>15, <1>16, <1>17, <1>18, WorkingFollows

\* A node is written at the entry in hand.
LEMMA SaveFollows ==
    ASSUME Typed, Typed', Alone, Queue, Follows,
           NEW p \in Proc, NEW s \in Subject, WriteRecord(p, s)
    PROVE  Follows'
<1>r. PICK w, k : w = work[p] /\ k = Min(work[p].rows)
    OBVIOUS
<1>c. PICK new : new = [w EXCEPT !.save = @ \ {s}]
    OBVIOUS
<1> DEFINE b == log[k]
           d == IF w.scratch[s] = Absent THEN Tombstoned(s, k)
                ELSE [record |-> w.scratch[s], deletedAt |-> 0]
<1>1. /\ s \in w.save /\ UNCHANGED <<ingest, group>> /\ db' = [db EXCEPT ![s] = d]
      /\ work' = [work EXCEPT ![p].save = @ \ {s}]
    BY <1>r DEF WriteRecord
<1>2. w \in WorkState /\ w.rows # {}
    BY <1>1, <1>r DEF Typed
<1>3. k \in DOMAIN log /\ k \in pending /\ k \in Nat \ {0} /\ Done = k - 1
    BY <1>2, <1>r, FirstInHand
<1>n. Len(log) \in Nat /\ DOMAIN log = 1 .. Len(log)
    BY LenProperties DEF Typed
<1>4. Holds(w, k)
    BY <1>2, <1>3, <1>r DEF Follows, InHand
<1>5. Touched(b) \subseteq Subject
    BY <1>3 DEF Typed, TypeOK
<1>6. /\ w.load = {} /\ w.save \subseteq Touched(b)
      /\ \A t \in w.save : Outcome(w.scratch[t], t, k)
      /\ \A t \in Touched(b) \ w.save : At(t, k)
    BY <1>1, <1>4 DEF Holds
<1>7. /\ db'[s] = d /\ \A t \in Subject : t # s => db'[t] = db[t]
    BY <1>1 DEF Typed, TypeOK
<1>8. w.scratch[s] \in NodeRecord \cup {Absent}
    BY <1>2 DEF WorkState, NodeStore
<1>k. \A t \in Subject : t # s => \A n \in 0 .. Len(log) : At(t, n) => At(t, n)'
    BY <1>1, <1>7, NodesKept DEF ingest
<1>9. work'[p] = new /\ new \in WorkState /\ new.rows = w.rows /\ new.load = w.load
      /\ new.save = w.save \ {s} /\ new.scratch = w.scratch
      /\ \A q \in Proc : q # p => work'[q] = work[q]
  <2>1. work \in [Proc -> WorkState]
      BY DEF Typed
  <2>2. new \in WorkState /\ new.rows = w.rows /\ new.load = w.load
        /\ new.save = w.save \ {s} /\ new.scratch = w.scratch
      BY <1>2, <1>c DEF WorkState
  <2>3. work' = [work EXCEPT ![p] = new]
      BY <1>1, <1>2, <1>c, <1>r DEF WorkState
  <2> QED
      BY <2>1, <2>2, <2>3
<1> HIDE DEF b
<1>p. \A n \in 0 .. Len(log) : /\ Replay'[n] = Replay[n]
                               /\ NeverDropped(s, n)' <=> NeverDropped(s, n)
  <2>1. ReplayEquations'
      BY ReplayUnfolds, PTL
  <2>2. \A i \in 1 .. Len(log) : log'[i] = log[i]
      BY <1>1 DEF ingest
  <2> QED
      BY <1>n, <2>1, <2>2, ReplayUnfolds, PrefixKept
<1>10. At(s, k)'
  <2> DEFINE x == w.scratch[s]
             r == Replay[k][s]
  <2>1. k \in 0 .. Len(log)
      BY <1>3, <1>n
  <2>2. Replay'[k] = Replay[k] /\ (NeverDropped(s, k)' <=> NeverDropped(s, k))
      BY <1>p, <2>1
  <2>3. /\ Covers(x, r) /\ (NeverDropped(s, k) => x = r)
        /\ x = Absent <=> r = Absent
        /\ x = Absent => ~ NeverDropped(s, k)
      BY <1>1, <1>6 DEF Outcome, Ready
  <2>4. CASE x = Absent
    <3>1. d.deletedAt = k /\ d # Absent
      <4>1. d = Tombstoned(s, k)
          BY <2>4
      <4>2. Tombstoned(s, k) \in Node
        <5>1. Fresh("none") \in NodeRecord /\ (db[s] # Absent => db[s].record \in NodeRecord)
            BY FreshIsNodeRecord DEF Typed, TypeOK, Node
        <5> QED
            BY <1>3, <5>1 DEF Tombstoned, Node
      <4>3. Tombstoned(s, k).deletedAt = k
          BY DEF Tombstoned
      <4> QED
          BY <4>1, <4>2, <4>3, AbsentIsNoNode
    <3> HIDE DEF d
    <3>2. ~ (db'[s] # Absent /\ db'[s].deletedAt = 0)
        BY <1>3, <1>7, <3>1
    <3> QED
        BY <2>2, <2>3, <2>4, <3>2 DEF At, Live, Ready, Covers
  <2>5. CASE x # Absent
    <3>1. d.deletedAt = 0 /\ d.record = x /\ d # Absent
      <4>1. d = [record |-> x, deletedAt |-> 0]
          BY <2>5
      <4>2. d \in Node
          BY <1>8, <2>5, <4>1 DEF Node
      <4> QED
          BY <4>1, <4>2, AbsentIsNoNode
    <3> HIDE DEF d
    <3>2. Shown(db'[s]) = x /\ db'[s] # Absent /\ db'[s].deletedAt = 0
        BY <1>7, <3>1 DEF Shown
    <3> QED
        BY <2>2, <2>3, <2>5, <3>2 DEF At, Live, Ready
  <2> QED
      BY <2>4, <2>5
<1> HIDE DEF d
<1>11. Holds(new, k)'
  <2>1. log' = log
      BY <1>1 DEF ingest
  <2>2. \A t \in new.save : Outcome(new.scratch[t], t, k)'
    <3> SUFFICES ASSUME NEW t \in new.save
                 PROVE  Outcome(new.scratch[t], t, k)'
        OBVIOUS
    <3>1. t \in w.save /\ t \in Subject
        BY <1>5, <1>6, <1>9
    <3>2. w.scratch[t] \in NodeRecord \cup {Absent}
        BY <1>2, <3>1 DEF WorkState, NodeStore
    <3>3. k \in 0 .. Len(log) /\ \A i \in DOMAIN log : log'[i] = log[i]
        BY <1>3, <1>n, <2>1
    <3>4. ASSUME NEW x, x = w.scratch[t]
          PROVE  Outcome(x, t, k)'
      <4>1. Outcome(x, t, k)
          BY <1>6, <3>1, <3>4
      <4> QED
          BY <3>1, <3>2, <3>3, <3>4, <4>1, OutcomesKept
    <3> QED
        BY <1>9, <3>4
  <2>3. \A t \in Touched(b) \ new.save : At(t, k)'
    <3> SUFFICES ASSUME NEW t \in Touched(b) \ new.save
                 PROVE  At(t, k)'
        OBVIOUS
    <3>1. t = s \/ t \in Touched(b) \ w.save
        BY <1>9
    <3>2. t # s => At(t, k)
        BY <1>6, <3>1
    <3>3. k \in 0 .. Len(log) /\ t \in Subject
        BY <1>3, <1>5, <1>n
    <3> QED
        BY <1>10, <1>k, <3>2, <3>3
  <2>4. new.load = {} /\ new.save \subseteq Touched(b)
      BY <1>6, <1>9
  <2> QED
      BY <2>1, <2>2, <2>3, <2>4 DEF Holds, b
<1>12. Behind'
  <2> SUFFICES ASSUME NEW i \in 0 .. Len(log'), i = Done', NEW t \in Subject
               PROVE  At(t, i)' \/ (pending' # {} /\ At(t, i + 1)')
      BY DEF Behind
  <2>1. Done' = Done /\ pending' = pending /\ i \in 0 .. Len(log)
      BY <1>1 DEF group, Done, ingest
  <2>2. i = k - 1 /\ i + 1 = k /\ k \in 0 .. Len(log) /\ pending # {}
      BY <1>3, <1>n, <2>1
  <2>3. At(t, i) \/ At(t, i + 1)
      BY <2>1 DEF Follows, Behind
  <2> QED
      BY <1>10, <1>k, <2>1, <2>2, <2>3
<1>13. \A q \in Proc : q # p => work'[q].rows = {}
    BY <1>2, <1>9, <1>r, OthersHaveNone
<1>14. k \in DOMAIN log' /\ k = Min(new.rows)
    BY <1>1, <1>3, <1>9, <1>r DEF ingest
<1> QED
    BY <1>9, <1>11, <1>12, <1>13, <1>14, WorkingFollows

\* An entry without a patch on s leaves the record of s as it was.
LEMMA UntouchedKept ==
    ASSUME Typed, NEW k \in DOMAIN log, NEW s \in Subject, s \notin Touched(log[k]), At(s, k - 1)
    PROVE  At(s, k)
<1> DEFINE b == log[k]
<1>1. k \in Nat \ {0} /\ k - 1 \in Nat
    BY LenProperties DEF Typed
<1>2. PICK n \in Nat : IsBatch(b, n)
    BY DEF Typed
<1>3. \A i \in DOMAIN b : b[i].on # s
    BY DEF Touched
<1>4. LastDrop(b, s) = 0 /\ Surviving(b, s) = {}
  <2> HIDE DEF b
  <2>1. LastDrop(b, s) = 0
      BY <1>2, <1>3, LastDropType
  <2> QED
      BY <1>3, <2>1 DEF Surviving
<1>5. After(b, s, Replay[k - 1][s], ServerFresh) = Replay[k - 1][s]
    BY <1>4 DEF After
<1>6. Replay[k][s] = Replay[k - 1][s]
    BY <1>1, <1>5, ReplayUnfolds DEF ReplayEquations, ApplyPatches
<1>7. NeverDropped(s, k) => NeverDropped(s, k - 1)
  <2>1. 1 .. (k - 1) \subseteq 1 .. k
      BY <1>1
  <2> QED
      BY <2>1 DEF NeverDropped
<1> QED
    BY <1>6, <1>7 DEF At, Ready

\* An entry is acknowledged when all its nodes are at it.
LEMMA AcknowledgeFollows ==
    ASSUME Typed, Typed', Alone, Queue, Queue', Follows, NEW p \in Proc, Acknowledge(p)
    PROVE  Follows'
<1>r. PICK w, k : w = work[p] /\ k = Min(work[p].rows)
    OBVIOUS
<1> DEFINE R == w.rows \ {k}
           lost == w.lost \ {k}
<1>1. /\ w.rows # {} /\ w.load = {} /\ w.save = {} /\ pending' = pending \ {k}
      /\ work' = [work EXCEPT ![p] = Holding(R, lost)] /\ UNCHANGED <<ingest, lastRead, db>>
    BY <1>r DEF Acknowledge
<1>2. w \in WorkState
    BY <1>r DEF Typed
<1>3. /\ k \in DOMAIN log /\ k \in pending /\ k \in Nat \ {0} /\ Done = k - 1
      /\ \A j \in pending : k <= j
    BY <1>1, <1>r, FirstInHand
<1>n. /\ Len(log) \in Nat /\ DOMAIN log = 1 .. Len(log) /\ lastRead \in Nat
      /\ pending \subseteq 1 .. lastRead /\ work \in [Proc -> WorkState]
  <2>1. log \in Seq(Logged) /\ lastRead \in 0 .. Len(log) /\ pending \subseteq 1 .. lastRead
        /\ work \in [Proc -> WorkState]
      BY DEF Typed, TypeOK
  <2> QED
      BY <2>1, LenProperties
<1>4. Holds(w, k)
    BY <1>1, <1>2, <1>3, <1>r DEF Follows, InHand
<1>5. ASSUME NEW s \in Subject
      PROVE  At(s, k)
  <2>1. CASE s \in Touched(log[k])
      BY <1>1, <1>4, <2>1 DEF Holds
  <2>2. CASE s \notin Touched(log[k])
    <3>1. k - 1 \in 0 .. Len(log) /\ (k - 1) + 1 = k
        BY <1>3, <1>n
    <3>2. At(s, k - 1) \/ At(s, k)
        BY <1>3, <3>1 DEF Follows, Behind
    <3> QED
        BY <1>3, <2>2, <3>2, UntouchedKept
  <2> QED
      BY <2>1, <2>2
<1>k. \A s \in Subject : \A n \in 0 .. Len(log) : At(s, n) => At(s, n)'
    BY <1>1, NodesKept DEF ingest
<1>6. Done' = k
  <2>1. CASE pending' = {}
    <3>1. lastRead \in 1 .. lastRead /\ k <= lastRead
        BY <1>3, <1>n
    <3>2. lastRead \in pending
        BY <1>3, <3>1 DEF Queue
    <3>3. lastRead = k
        BY <1>1, <2>1, <3>2
    <3> QED
        BY <1>1, <2>1, <3>3 DEF Done
  <2>2. CASE pending' # {}
    <3>1. PICK j \in pending' : TRUE
        BY <2>2
    <3>2. \A i \in pending' : i \in pending /\ i # k /\ i \in Nat /\ k + 1 <= i /\ i <= lastRead
      <4>1. ASSUME NEW i \in pending'
            PROVE  i \in pending /\ i # k /\ i \in Nat /\ k <= i /\ i <= lastRead
        <5>1. i \in pending /\ i # k
            BY <1>1
        <5>2. i \in 1 .. lastRead
            BY <1>n, <5>1
        <5> QED
            BY <1>3, <5>1, <5>2
      <4> QED
          BY <1>3, <4>1
    <3>3. k + 1 \in 1 .. lastRead
        BY <1>3, <1>n, <3>1, <3>2
    <3>4. k + 1 \in pending
        BY <1>3, <3>3 DEF Queue
    <3>5. k + 1 \in pending' /\ pending' \subseteq Nat
        BY <1>1, <1>3, <3>2, <3>4
    <3>6. Min(pending') = k + 1
        BY <3>2, <3>5, LeastIsMin
    <3> QED
        BY <1>3, <2>2, <3>6 DEF Done
  <2> QED
      BY <2>1, <2>2
<1>7. Behind'
  <2> SUFFICES ASSUME NEW n \in 0 .. Len(log'), n = Done', NEW s \in Subject
               PROVE  At(s, n)'
      BY DEF Behind
  <2>1. n = k /\ k \in 0 .. Len(log)
      BY <1>3, <1>6, <1>n
  <2> QED
      BY <1>5, <1>k, <2>1
<1>8. lost = {}
    BY <1>r DEF Queue
<1>c. PICK r : r = R
    OBVIOUS
<1> HIDE DEF R, lost
<1>9. work'[p] = Holding(r, {}) /\ \A q \in Proc : q # p => work'[q] = work[q]
    BY <1>1, <1>8, <1>c, <1>n
<1> QED
    BY <1>1, <1>7, <1>9, <1>k, TakenFollows DEF Follows, ingest

LEMMA StepFollows ==
    ASSUME Typed, Typed', Alone, Queue, Queue', Follows, [Next]_vars
    PROVE  Follows'
<1>n. /\ Len(log) \in Nat /\ DOMAIN log = 1 .. Len(log) /\ log \in Seq(Logged)
      /\ work \in [Proc -> WorkState] /\ NoRows.rows = {}
    BY LenProperties DEF Typed, NoRows
\* The stream, the consumer group and the nodes stay, and no rows are taken.
<1>q. ASSUME UNCHANGED <<log, group, db>>,
             \A q \in Proc : work'[q] = work[q] \/ work'[q].rows = {}
      PROVE  Follows'
  <2>1. \A s \in Subject : \A n \in 0 .. Len(log) : At(s, n) => At(s, n)'
      BY <1>q, NodesKept
  <2> QED
      BY <1>n, <1>q, <2>1, QuietFollows
<1>1. ASSUME NEW e \in Edit, Accept(e)
      PROVE  Follows'
  <2>1. UNCHANGED <<group, db, work>>
      BY <1>1 DEF Accept
  <2>2. Len(log') >= Len(log) /\ \A k \in DOMAIN log : log'[k] = log[k]
    <3> DEFINE D == {i \in DOMAIN e : e[i].op \in {"create", "identify"}
                                        => Replay[Len(log)][e[i].on] = Absent}
               acc == Restrict(e, D)
    <3>1. log' = Append(log, acc)
        BY <1>1 DEF Accept
    <3>2. acc \in Logged
        BY AcceptedIsLogged
    <3> HIDE DEF acc
    <3>3. Len(log') = Len(log) + 1 /\ \A k \in 1 .. Len(log) : log'[k] = log[k]
        BY <1>n, <3>1, <3>2, AppendProperties
    <3> QED
        BY <1>n, <3>3
  <2>3. \A s \in Subject : \A n \in 0 .. Len(log) : At(s, n) => At(s, n)'
      BY <2>1, <2>2, NodesKept
  <2> QED
      BY <2>1, <2>2, <2>3, QuietFollows
<1>2. CASE Lapse \/ LapseEarly
    BY <1>2, <1>q DEF Lapse, LapseEarly, ingest
<1>3. ASSUME NEW p \in Proc,
             \/ Claim(p) \/ Discover(p) \/ HeartbeatLost(p) \/ HeartbeatFails(p)
             \/ Stop(p) \/ Stopped(p) \/ Recovered(p)
      PROVE  Follows'
  <2>1. UNCHANGED <<ingest, group, db, work>>
      BY <1>3 DEF Claim, Discover, HeartbeatLost, HeartbeatFails, Stop, Stopped, Recovered
  <2> QED
      BY <1>q, <2>1 DEF ingest
<1>4. ASSUME NEW p \in Proc, Crash(p) \/ FailBatch(p)
      PROVE  Follows'
  <2>1. UNCHANGED <<ingest, group, db>> /\ work' = [work EXCEPT ![p] = NoRows]
      BY <1>4 DEF Crash, FailBatch
  <2>2. \A q \in Proc : work'[q] = work[q] \/ work'[q].rows = {}
      BY <1>n, <2>1
  <2> QED
      BY <1>q, <2>1, <2>2 DEF ingest
<1>5. ASSUME NEW p \in Proc, NEW cutoff \in 1 .. (Len(log) + 1), SweepPurge(p, cutoff)
      PROVE  Follows'
  <2>1. UNCHANGED <<ingest, group, work>>
        /\ db' = [s \in Subject |-> IF s \in Expired(cutoff) THEN Absent ELSE db[s]]
      BY <1>5 DEF SweepPurge
  <2>2. ASSUME NEW s \in Subject
        PROVE  \A n \in 0 .. Len(log) : At(s, n) => At(s, n)'
    <3>1. CASE s \in Expired(cutoff)
      <4>1. db'[s] = Absent /\ ~ Live(s)
          BY <2>1, <3>1 DEF Expired, Live
      <4> QED
          BY <2>1, <4>1, PurgedKept DEF ingest
    <3>2. CASE s \notin Expired(cutoff)
      <4>1. db'[s] = db[s]
          BY <2>1, <3>2
      <4> QED
          BY <2>1, <4>1, NodesKept DEF ingest
    <3> QED
        BY <3>1, <3>2
  <2>3. Len(log') >= Len(log) /\ (\A k \in DOMAIN log : log'[k] = log[k]) /\ UNCHANGED <<group, work>>
      BY <1>n, <2>1 DEF ingest
  <2> QED
      BY <2>2, <2>3, QuietFollows
<1>6. ASSUME NEW p \in Proc, SweepForget(p)
      PROVE  Follows'
    BY <1>6, <1>q DEF SweepForget
<1>7. CASE UNCHANGED vars
    BY <1>7, <1>q DEF vars, ingest
<1> QED
    BY <1>1, <1>2, <1>3, <1>4, <1>5, <1>6, <1>7, ReadFollows, LoadFollows, SaveFollows,
       AcknowledgeFollows
    DEF Next, Handle

LEMMA FollowsMeansMirrors == Typed /\ Queue /\ Follows => MirrorFollowsStream
<1> SUFFICES ASSUME Typed, Queue, Follows, NEW s \in Subject
             PROVE  \/ Reflects(s, Done)
                    \/ Done < lastRead /\ Reflects(s, Done + 1)
    BY DEF MirrorFollowsStream
<1>1. Done \in 0 .. Len(log) /\ (pending # {} => Done < lastRead) /\ Len(log) \in Nat
    BY DoneType, LenProperties DEF Typed
<1>2. Done \in Nat /\ Done + 1 \in Nat
    BY <1>1
<1>3. At(s, Done) \/ (pending # {} /\ At(s, Done + 1))
    BY <1>1 DEF Follows, Behind
<1> QED
    BY <1>1, <1>2, <1>3, AtReflects

\* However often processes crash, fail over a batch, are stopped and take over from
\* each other, every node stays at the last acknowledged entry or the one after it,
\* for any number of processes, entries and faults, as long as nobody at work is
\* paused for a whole lease and no entry is trimmed before it is acknowledged.
THEOREM NodesFollowTheStream ==
    ASSUME Unpaused, Untrimmed
    PROVE  Spec => []MirrorFollowsStream
<1>1. Init => Alone
    BY DEF Init, Alone, NoRows
<1>2. Typed /\ Alone /\ [Next]_vars => Alone'
    BY StepAlone
<1>3. Typed /\ Typed' /\ Alone /\ Queue /\ [Next]_vars => Queue'
    BY StepQueue
<1>4. Typed /\ Typed' /\ Alone /\ Queue /\ Queue' /\ Follows /\ [Next]_vars => Follows'
    BY StepFollows
<1> QED
    BY <1>1, <1>2, <1>3, <1>4, InitTyped, StepTyped, InitFollows, FollowsMeansMirrors, PTL
    DEF Spec
=============================================================================
