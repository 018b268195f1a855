-------------------------- MODULE SyncSystem_proofs --------------------------
(***************************************************************************)
(* What the accept script promises, for any patch lists, stamps and number *)
(* of batches (the theorems about Spec, of VaultStore).  The composed      *)
(* system, SyncSpec, implements the vault, so all of it holds there; no    *)
(* edit leaves its node's queue without an answer; and a node nobody edits *)
(* on converges to the vault's records.                                    *)
(***************************************************************************)
EXTENDS SyncSystem, PatchAlgebra_proofs, SequenceTheorems, FiniteSetTheorems

-----------------------------------------------------------------------------
(* What the script computes from a batch. *)

LEMMA MaxOfTwo ==
    ASSUME NEW a \in Int, NEW c \in Int
    PROVE  Max({a, c}) \in Int
<1>1. \E x \in {a, c} : \A y \in {a, c} : x >= y
  <2>1. CASE a <= c
      BY <2>1
  <2>2. CASE c <= a
      BY <2>2
  <2> QED
      BY <2>1, <2>2
<1> QED
    BY <1>1 DEF Max

LEMMA AcceptedIsBatch ==
    ASSUME TypeOK, NEW b \in BatchId, batch[b] # Unminted
    PROVE  /\ Accepted(b) \in PatchList
           /\ IsBatch(Accepted(b), MaxBatch)
<1> DEFINE D == {i \in DOMAIN batch[b] : Take(batch[b][i], HlcOf[b])}
<1>1. batch[b] \in Seq(Patch) /\ Len(batch[b]) <= MaxBatch
    BY ShapesArePatchLists DEF TypeOK
<1>2. DOMAIN batch[b] \subseteq 1 .. MaxBatch
    BY <1>1, LenProperties, ShapesArePatchLists
<1>3. D \subseteq 1 .. MaxBatch
    BY <1>2
<1>4. \A i \in D : batch[b][i] \in Patch
    BY <1>1, ElementOfSeq, LenProperties
<1>5. Accepted(b) = [i \in D |-> batch[b][i]]
    BY DEF Accepted, Restrict
<1>6. Accepted(b) \in [D -> Patch]
    BY <1>4, <1>5
<1> QED
    BY <1>3, <1>4, <1>5, <1>6 DEF PatchList, IsBatch

LEMMA FieldHlcAfterType ==
    ASSUME NEW acc, NEW hlc \in Nat,
           fieldHlc \in [Subject -> [Field -> Nat]]
    PROVE  FieldHlcAfter(acc, hlc) \in [Subject -> [Field -> Nat]]
    BY DEF FieldHlcAfter

LEMMA TombstonesType ==
    ASSUME NEW acc, NEW hlc \in Nat, NEW old \in [Subject -> Nat]
    PROVE  Tombstones(acc, hlc, old) \in [Subject -> Nat]
    BY DEF Tombstones

LEMMA StoreBytesType ==
    ASSUME NEW st
    PROVE  StoreBytes(st) \in Nat
<1> DEFINE P == {s \in Subject : st[s] # Absent}
           A == {sf \in P \X Scalar : st[sf[1]].scalar[sf[2]] # Missing}
           B == {sfm \in P \X (SetField \X Member) :
                    sfm[2][2] \in st[sfm[1]].members[sfm[2][1]]}
<1>1. IsFiniteSet(P)
    BY PropertiesAreFinite, FS_Subset
<1>2. IsFiniteSet(P \X Scalar)
    BY <1>1, PropertiesAreFinite, FS_Product
<1>3. IsFiniteSet(P \X (SetField \X Member))
  <2>1. IsFiniteSet(SetField \X Member)
      BY PropertiesAreFinite, FS_Product
  <2> QED
      BY <1>1, <2>1, FS_Product
<1>4. IsFiniteSet(A) /\ IsFiniteSet(B)
    BY <1>2, <1>3, FS_Subset
<1>5. Cardinality(P) \in Nat /\ Cardinality(A) \in Nat /\ Cardinality(B) \in Nat
    BY <1>1, <1>4, FS_CardinalityType
<1>6. StoreBytes(st) = Cardinality(P) + Cardinality(A) + Cardinality(B)
    BY DEF StoreBytes
<1> QED
    BY <1>5, <1>6

LEMMA EmptyStoreBytes == StoreBytes(EmptyStore) = 0
<1> DEFINE P == {s \in Subject : EmptyStore[s] # Absent}
           A == {sf \in P \X Scalar :
                    EmptyStore[sf[1]].scalar[sf[2]] # Missing}
           B == {sfm \in P \X (SetField \X Member) :
                    sfm[2][2] \in EmptyStore[sfm[1]].members[sfm[2][1]]}
<1>1. P = {}
    BY DEF EmptyStore
<1>2. A = {} /\ B = {}
    BY <1>1
<1>3. StoreBytes(EmptyStore) = Cardinality(P) + Cardinality(A) + Cardinality(B)
    BY DEF StoreBytes
<1> QED
    BY <1>1, <1>2, <1>3, FS_EmptySet

-----------------------------------------------------------------------------
(* The type invariant. *)

LEMMA InitType == Init => TypeOK
<1> SUFFICES ASSUME Init PROVE TypeOK
    OBVIOUS
<1>1. stream \in Seq(Entry)
    BY EmptySeq DEF Init
<1>2. quota \in Quotas /\ bytes \in Int
    BY DEF Init, NoCount
<1> QED
    BY <1>1, <1>2 DEF Init, TypeOK, EmptyStore

LEMMA CommitType ==
    ASSUME TypeOK, NEW b \in BatchId, Commit(b)
    PROVE  TypeOK'
<1> DEFINE acc == Accepted(b)
           next == ApplyPatches(acc, store, ServerFresh)
<1>1. batch[b] # Unminted
    BY DEF Commit, Undecided
<1>2. acc \in PatchList /\ IsBatch(acc, MaxBatch)
    BY <1>1, AcceptedIsBatch
<1>3. HlcOf[b] \in Nat
    BY HlcUnique
<1>4. store' \in [Subject -> Record \cup {Absent}]
  <2>1. ServerFresh \in Record
      BY FreshIsRecordOf DEF ServerFresh
  <2>2. next \in [Subject -> Record \cup {Absent}]
      BY <1>2, <2>1, ApplyPatchesType, ShapesArePatchLists DEF TypeOK
  <2> QED
      BY <2>2 DEF Commit
<1>5. fieldHlc' \in [Subject -> [Field -> Nat]]
    BY <1>3, FieldHlcAfterType DEF Commit, TypeOK
<1>6. tombstone' \in [Subject -> Nat]
    BY <1>3, TombstonesType DEF Commit, TypeOK
<1>7. bytes' \in Int
  <2>1. StoreBytes(next) \in Nat /\ StoreBytes(store) \in Nat
      BY StoreBytesType
  <2>2. bytes' = ProjectedBytes(next)
      BY DEF Commit
  <2> QED
      BY <2>1, <2>2 DEF ProjectedBytes, CurrentBytes, TypeOK
<1>8. stream' \in Seq(Entry)
  <2>1. StreamEntry(b, acc) \in Entry
      BY <1>2 DEF StreamEntry, Entry
  <2>2. stream' = Append(stream, StreamEntry(b, acc))
      BY DEF Commit
  <2> QED
      BY <2>1, <2>2, AppendProperties DEF TypeOK
<1>9. earliest' \in Nat \ {0}
  <2>1. Max({earliest, seq + 2 - StreamMax}) \in Int
      BY MaxOfTwo, BoundsAreNaturals DEF TypeOK
  <2>2. earliest' \in earliest .. Max({earliest, seq + 2 - StreamMax})
      BY DEF Commit
  <2> QED
      BY <2>1, <2>2 DEF TypeOK
<1>10. dedup' \in [BatchId -> Nat] /\ seq' \in Nat
    BY DEF Commit, TypeOK
<1>11. answer' \in [BatchId -> {"none", "accepted", "rejected"}]
    BY DEF Commit, Respond, TypeOK
<1> QED
    BY <1>4, <1>5, <1>6, <1>7, <1>8, <1>9, <1>10, <1>11
       DEF TypeOK, Commit

LEMMA UnlinkType ==
    ASSUME TypeOK, NEW k \in Keys, Unlink(k)
    PROVE  TypeOK'
<1>1. meta' \in {"live", "deleting", "unlinking", "gone"} /\ seq' \in Nat
    BY DEF Unlink, TypeOK
<1>2. /\ store' \in [Subject -> Record \cup {Absent}]
      /\ fieldHlc' \in [Subject -> [Field -> Nat]]
      /\ tombstone' \in [Subject -> Nat]
    BY DEF Unlink, TypeOK, EmptyStore
<1>3. bytes' \in Int
    BY DEF Unlink, TypeOK, NoCount
<1>4. stream' \in Seq(Entry) /\ earliest' \in Nat \ {0}
    BY EmptySeq DEF Unlink, TypeOK
<1>5. dedup' \in [BatchId -> Nat]
    BY DEF Unlink, TypeOK
<1> QED
    BY <1>1, <1>2, <1>3, <1>4, <1>5 DEF Unlink, TypeOK

LEMMA StepType == TypeOK /\ [Next]_vars => TypeOK'
<1> SUFFICES ASSUME TypeOK, [Next]_vars
             PROVE  TypeOK'
    OBVIOUS
<1>1. ASSUME NEW b \in BatchId, NEW shape \in Shape, Mint(b, shape)
      PROVE  TypeOK'
    BY <1>1 DEF Mint, TypeOK
<1>2. ASSUME NEW b \in BatchId, Deliver(b)
      PROVE  TypeOK'
  <2>1. CASE Commit(b)
      BY <2>1, CommitType
  <2>2. CASE RejectDeleting(b) \/ RejectAll(b) \/ RejectQuota(b)
      BY <2>2 DEF RejectDeleting, RejectAll, RejectQuota, Reject, Respond,
                  TypeOK
  <2>3. CASE AnswerAgain(b)
      BY <2>3 DEF AnswerAgain, Respond, TypeOK
  <2> QED
      BY <1>2, <2>1, <2>2, <2>3 DEF Deliver
<1>3. ASSUME NEW b \in BatchId, Expire(b)
      PROVE  TypeOK'
    BY <1>3 DEF Expire, TypeOK
<1>4. ASSUME NEW q \in Quotas, LowerQuota(q)
      PROVE  TypeOK'
    BY <1>4 DEF LowerQuota, TypeOK
<1>5. CASE MarkDeleting \/ UnmarkDeleting \/ StartUnlinking
    BY <1>5 DEF MarkDeleting, UnmarkDeleting, StartUnlinking, TypeOK
<1>6. ASSUME NEW k \in Keys, Unlink(k)
      PROVE  TypeOK'
    BY <1>6, UnlinkType
<1>7. CASE UNCHANGED vars
    BY <1>7 DEF vars, TypeOK
<1> QED
    BY <1>1, <1>2, <1>3, <1>4, <1>5, <1>6, <1>7 DEF Next

\* Every variable keeps its type: what is applied, whatever the batches, makes
\* records of records, stamps of stamps and entries of the stream.
THEOREM TypeCorrect == Spec => []TypeOK
    BY InitType, StepType, PTL DEF Spec

-----------------------------------------------------------------------------
(* The byte counter and the quota. *)

\* Only a commit changes the records of a vault that is intact.
LEMMA OnlyCommitWrites ==
    ASSUME TypeOK, [Next]_vars, Intact'
    PROVE  \/ \E b \in BatchId : Commit(b)
           \/ UNCHANGED <<seq, store, fieldHlc, tombstone, bytes, stream>>
<1>1. ASSUME NEW b \in BatchId, Deliver(b), ~ Commit(b)
      PROVE  UNCHANGED <<seq, store, fieldHlc, tombstone, bytes, stream>>
    BY <1>1 DEF Deliver, RejectDeleting, AnswerAgain, RejectAll, RejectQuota,
                Reject
<1>2. ASSUME NEW k \in Keys
      PROVE  ~ Unlink(k)
    BY <1>2 DEF Unlink, Intact
<1>3. ASSUME NEW b \in BatchId, NEW shape \in Shape, Mint(b, shape)
      PROVE  UNCHANGED <<seq, store, fieldHlc, tombstone, bytes, stream>>
    BY <1>3 DEF Mint
<1>4. ASSUME NEW b \in BatchId, Expire(b)
      PROVE  UNCHANGED <<seq, store, fieldHlc, tombstone, bytes, stream>>
    BY <1>4 DEF Expire
<1>5. ASSUME NEW q \in Quotas, LowerQuota(q)
      PROVE  UNCHANGED <<seq, store, fieldHlc, tombstone, bytes, stream>>
    BY <1>5 DEF LowerQuota
<1>6. ASSUME MarkDeleting \/ UnmarkDeleting \/ StartUnlinking \/ UNCHANGED vars
      PROVE  UNCHANGED <<seq, store, fieldHlc, tombstone, bytes, stream>>
    BY <1>6 DEF MarkDeleting, UnmarkDeleting, StartUnlinking, vars
<1> QED
    BY <1>1, <1>2, <1>3, <1>4, <1>5, <1>6 DEF Next

\* A vault that is intact after a step was intact before it.
LEMMA IntactBefore ==
    ASSUME TypeOK, [Next]_vars, Intact'
    PROVE  Intact
    BY DEF Next, Deliver, Mint, RejectDeleting, AnswerAgain, RejectAll,
           RejectQuota, Reject, Commit, Undecided, Expire, LowerQuota,
           MarkDeleting, UnmarkDeleting, StartUnlinking, Unlink, vars, Intact

\* What a commit knows of the size it is about to write.
LEMMA CommitBytes ==
    ASSUME TypeOK, BytesExact, NEW b \in BatchId, Commit(b)
    PROVE  /\ bytes' = StoreBytes(store')
           /\ bytes' > quota => bytes' <= StoreBytes(store)
<1>1. StoreBytes(store) \in Nat /\ StoreBytes(store') \in Nat
    BY StoreBytesType
<1>2. CurrentBytes = StoreBytes(store)
    BY DEF BytesExact, Intact, CurrentBytes, Commit, Undecided
<1>3. bytes' = ProjectedBytes(store') /\ ~ OverQuota(store')
    BY DEF Commit
<1>4. ProjectedBytes(store') = StoreBytes(store')
    BY <1>1, <1>2 DEF ProjectedBytes
<1>5. quota \in Nat
    BY BoundsAreNaturals DEF TypeOK
<1> QED
    BY <1>1, <1>2, <1>3, <1>4, <1>5 DEF OverQuota

LEMMA StepBytes == TypeOK /\ BytesExact /\ [Next]_vars => BytesExact'
<1> SUFFICES ASSUME TypeOK, BytesExact, [Next]_vars, Intact', bytes' # NoCount
             PROVE  bytes' = StoreBytes(store')
    BY DEF BytesExact
<1>1. CASE \E b \in BatchId : Commit(b)
    BY <1>1, CommitBytes
<1>2. CASE UNCHANGED <<store, bytes>>
    BY <1>2, IntactBefore DEF BytesExact
<1> QED
    BY <1>1, <1>2, OnlyCommitWrites

\* The counter the quota is tested against is the size of the records, also on
\* a vault made before there was a counter and while batches are refused.
THEOREM BytesAreExact == Spec => []BytesExact
<1>1. Init => BytesExact
    BY EmptyStoreBytes DEF Init, BytesExact
<1> QED
    BY <1>1, StepBytes, TypeCorrect, PTL DEF Spec

\* No batch takes the records above the quota, though the quota may be lowered
\* below what they already take.
THEOREM QuotaBoundsGrowth == Spec => GrowthWithinQuota
<1>1. ASSUME TypeOK, BytesExact, [Next]_vars,
             StoreBytes(store') > StoreBytes(store)
      PROVE  StoreBytes(store') <= quota
  <2>1. StoreBytes(store) \in Nat /\ StoreBytes(store') \in Nat
      BY StoreBytesType
  <2>2. quota \in Nat
      BY <1>1, BoundsAreNaturals DEF TypeOK
  <2>3. CASE \E b \in BatchId : Commit(b)
      BY <1>1, <2>1, <2>2, <2>3, CommitBytes
  <2>4. CASE ~ Intact'
    <3>1. store' \in {store, EmptyStore}
        BY <1>1, <2>4
           DEF Next, Deliver, Mint, RejectDeleting, AnswerAgain, RejectAll,
               RejectQuota, Reject, Commit, Undecided, Expire, LowerQuota,
               MarkDeleting, UnmarkDeleting, StartUnlinking, Unlink, vars,
               Intact
    <3> QED
        BY <1>1, <2>1, <3>1, EmptyStoreBytes
  <2>5. CASE store' = store
      BY <1>1, <2>1, <2>5
  <2> QED
      BY <1>1, <2>3, <2>4, <2>5, OnlyCommitWrites
<1>2. TypeOK /\ BytesExact /\ [Next]_vars
        => [StoreBytes(store') > StoreBytes(store)
              => StoreBytes(store') <= quota]_vars
    BY <1>1
<1> QED
    BY <1>2, TypeCorrect, BytesAreExact, PTL DEF Spec, GrowthWithinQuota

-----------------------------------------------------------------------------
(* A batch is applied once, and what was acknowledged is in the stream. *)

\* An entry of the stream whose batch keeps its idempotency record is the one
\* the record points at: the strengthening that makes AppliedOnce inductive.
EntriesOnRecord ==
    Intact =>
        /\ seq = Len(stream)
        /\ \A i \in DOMAIN stream :
              \/ stream[i].batch \in Expirable
              \/ dedup[stream[i].batch] = i
        /\ \A b \in BatchId : dedup[b] # 0 =>
              dedup[b] \in DOMAIN stream /\ stream[dedup[b]].batch = b

LEMMA AppendEntry ==
    ASSUME TypeOK, NEW b \in BatchId, Commit(b)
    PROVE  /\ DOMAIN stream = 1 .. Len(stream) /\ Len(stream) \in Nat
           /\ DOMAIN stream' = 1 .. (Len(stream) + 1)
           /\ Len(stream') = Len(stream) + 1
           /\ \A i \in 1 .. Len(stream) : stream'[i] = stream[i]
           /\ stream'[Len(stream) + 1].batch = b
           /\ stream'[Len(stream) + 1].patches = Accepted(b)
           /\ \A i \in 1 .. Len(stream) : stream[i] \in Entry
<1>1. batch[b] # Unminted
    BY DEF Commit, Undecided
<1>2. StreamEntry(b, Accepted(b)) \in Entry
    BY <1>1, AcceptedIsBatch DEF StreamEntry, Entry
<1>3. stream \in Seq(Entry)
      /\ stream' = Append(stream, StreamEntry(b, Accepted(b)))
    BY DEF Commit, TypeOK
<1>4. stream' \in Seq(Entry)
    BY <1>2, <1>3, AppendProperties
<1> QED
    BY <1>2, <1>3, <1>4, AppendProperties, LenProperties, ElementOfSeq
       DEF StreamEntry

LEMMA StepOnRecord ==
    TypeOK /\ EntriesOnRecord /\ [Next]_vars => EntriesOnRecord'
<1> SUFFICES ASSUME TypeOK, EntriesOnRecord, [Next]_vars, Intact'
             PROVE  EntriesOnRecord'
    BY DEF EntriesOnRecord
<1> DEFINE n == Len(stream)
<1>1. Intact
    BY IntactBefore
<1>2. /\ seq = n
      /\ \A i \in 1 .. n : \/ stream[i].batch \in Expirable
                           \/ dedup[stream[i].batch] = i
      /\ \A c \in BatchId : dedup[c] # 0 =>
            dedup[c] \in 1 .. n /\ stream[dedup[c]].batch = c
      /\ \A i \in 1 .. n : stream[i] \in Entry
      /\ DOMAIN stream = 1 .. n /\ n \in Nat
    BY <1>1, LenProperties, ElementOfSeq DEF EntriesOnRecord, TypeOK
<1>3. \A i \in 1 .. n : stream[i].batch \in BatchId
    BY <1>2 DEF Entry
<1>4. ASSUME NEW b \in BatchId, Commit(b)
      PROVE  EntriesOnRecord'
  <2>1. /\ DOMAIN stream' = 1 .. (n + 1) /\ Len(stream') = n + 1
        /\ \A i \in 1 .. n : stream'[i] = stream[i]
        /\ stream'[n + 1].batch = b
      BY <1>4, AppendEntry
  <2>2. /\ dedup[b] = 0 /\ seq' = n + 1
        /\ \A c \in BatchId : dedup'[c] = IF c = b THEN n + 1 ELSE dedup[c]
      BY <1>2, <1>4 DEF Commit, Undecided, TypeOK
  <2>3. ASSUME NEW i \in 1 .. (n + 1)
        PROVE  stream'[i].batch \in Expirable \/ dedup'[stream'[i].batch] = i
    <3>1. CASE i = n + 1
        BY <2>1, <2>2, <3>1
    <3>2. CASE i # n + 1
      <4>1. i \in 1 .. n /\ i # 0
          BY <1>2, <3>2
      <4> QED
          BY <1>2, <1>3, <2>1, <2>2, <4>1
    <3> QED
        BY <3>1, <3>2
  <2>4. ASSUME NEW c \in BatchId, dedup'[c] # 0
        PROVE  dedup'[c] \in 1 .. (n + 1) /\ stream'[dedup'[c]].batch = c
    <3>1. CASE c = b
        BY <1>2, <2>1, <2>2, <3>1
    <3>2. CASE c # b
      <4>1. dedup'[c] = dedup[c] /\ dedup[c] \in 1 .. n
          BY <1>2, <2>2, <2>4, <3>2
      <4> QED
          BY <1>2, <2>1, <2>4, <4>1
    <3> QED
        BY <3>1, <3>2
  <2> QED
      BY <2>1, <2>2, <2>3, <2>4 DEF EntriesOnRecord
<1>5. ASSUME UNCHANGED <<seq, stream>>, \A b \in BatchId : ~ Commit(b)
      PROVE  EntriesOnRecord'
  <2>1. \A c \in BatchId : \/ dedup'[c] = dedup[c]
                           \/ c \in Expirable /\ dedup'[c] = 0
      BY <1>5
         DEF Next, Deliver, Mint, RejectDeleting, AnswerAgain, RejectAll,
             RejectQuota, Reject, Expire, LowerQuota, MarkDeleting,
             UnmarkDeleting, StartUnlinking, Unlink, vars, Intact, TypeOK
  <2> QED
      BY <1>2, <1>3, <1>5, <2>1 DEF EntriesOnRecord
<1> QED
    BY <1>4, <1>5, OnlyCommitWrites

LEMMA OnRecordAlways == Spec => []EntriesOnRecord
<1>1. Init => EntriesOnRecord
    BY EmptySeq, LenProperties DEF Init, EntriesOnRecord
<1> QED
    BY <1>1, StepOnRecord, TypeCorrect, PTL DEF Spec

\* However often a batch is delivered, it is in the stream once; only one
\* retried after its idempotency record ran out can be there twice.
THEOREM AppliedOnceAlways == Spec => []AppliedOnce
<1>1. EntriesOnRecord => AppliedOnce
    BY DEF EntriesOnRecord, AppliedOnce
<1> QED
    BY <1>1, OnRecordAlways, PTL

\* An answer given by a step is one the script gives with its batch on record.
LEMMA AnswersOnRecord ==
    ASSUME TypeOK, [Next]_vars, NEW b \in BatchId
    PROVE  \/ answer'[b] = answer[b]
           \/ answer'[b] = "rejected" /\ ~ (meta = "live" /\ dedup[b] # 0)
           \/ answer'[b] = "accepted" /\ dedup'[b] # 0 /\ Intact'
<1>1. ASSUME NEW c \in BatchId, Deliver(c)
      PROVE  \/ answer'[b] = answer[b]
             \/ answer'[b] = "rejected" /\ ~ (meta = "live" /\ dedup[b] # 0)
             \/ answer'[b] = "accepted" /\ dedup'[b] # 0 /\ Intact'
  <2>1. CASE RejectDeleting(c) \/ RejectAll(c) \/ RejectQuota(c)
      BY <2>1 DEF RejectDeleting, RejectAll, RejectQuota, Undecided, Reject,
                  Respond, TypeOK
  <2>2. CASE AnswerAgain(c)
      BY <2>2 DEF AnswerAgain, Respond, TypeOK, Intact
  <2>3. CASE Commit(c)
      BY <2>3 DEF Commit, Undecided, Respond, TypeOK, Intact
  <2> QED
      BY <1>1, <2>1, <2>2, <2>3 DEF Deliver
<1> QED
    BY <1>1 DEF Next, Mint, Expire, LowerQuota, MarkDeleting, UnmarkDeleting,
                StartUnlinking, Unlink, vars

LEMMA StepAcknowledged ==
    /\ TypeOK /\ EntriesOnRecord /\ EntriesOnRecord' /\ AcknowledgedIsInStream
    /\ [Next]_vars
    => AcknowledgedIsInStream'
<1> SUFFICES ASSUME TypeOK, EntriesOnRecord, EntriesOnRecord',
                    AcknowledgedIsInStream, [Next]_vars, Intact',
                    NEW b \in BatchId, answer'[b] = "accepted"
             PROVE  \E k \in DOMAIN stream' : stream'[k].batch = b
    BY DEF AcknowledgedIsInStream
<1>1. CASE dedup'[b] # 0
    BY <1>1 DEF EntriesOnRecord
<1>2. CASE answer'[b] = answer[b]
  <2>1. PICK k \in DOMAIN stream : stream[k].batch = b
      BY <1>2, IntactBefore DEF AcknowledgedIsInStream
  <2>2. k \in DOMAIN stream' /\ stream'[k] = stream[k]
    <3>1. ASSUME NEW c \in BatchId, Commit(c)
          PROVE  k \in DOMAIN stream' /\ stream'[k] = stream[k]
      <4>1. /\ DOMAIN stream = 1 .. Len(stream) /\ Len(stream) \in Nat
            /\ DOMAIN stream' = 1 .. (Len(stream) + 1)
            /\ \A i \in 1 .. Len(stream) : stream'[i] = stream[i]
          BY <3>1, AppendEntry
      <4> QED
          BY <4>1
    <3> QED
        BY <3>1, OnlyCommitWrites
  <2> QED
      BY <2>1, <2>2
<1> QED
    BY <1>1, <1>2, AnswersOnRecord

\* A node that was told its batch is accepted finds it in the stream, and so
\* does every other node, until the vault's keys are being unlinked.
THEOREM AcknowledgedAlways == Spec => []AcknowledgedIsInStream
<1>1. Init => AcknowledgedIsInStream
    BY DEF Init, AcknowledgedIsInStream
<1> QED
    BY <1>1, StepAcknowledged, TypeCorrect, OnRecordAlways, PTL DEF Spec

\* Within the TTL a retry of an accepted batch is answered as the first time.
THEOREM AcceptedStays == Spec => AcceptedStaysAccepted
<1>1. ASSUME TypeOK, EntriesOnRecord, AcknowledgedIsInStream, [Next]_vars,
             NEW b \in BatchId \ Expirable, answer[b] = "accepted", meta = "live"
      PROVE  answer'[b] = "accepted"
  <2>1. Intact
      BY <1>1 DEF Intact
  <2>2. PICK k \in DOMAIN stream : stream[k].batch = b
      BY <1>1, <2>1 DEF AcknowledgedIsInStream
  <2>3. k \in Nat \ {0}
      BY <1>1, LenProperties DEF TypeOK
  <2>4. dedup[b] = k
      BY <1>1, <2>1, <2>2 DEF EntriesOnRecord
  <2> QED
      BY <1>1, <2>3, <2>4, AnswersOnRecord
<1>2. TypeOK /\ EntriesOnRecord /\ AcknowledgedIsInStream /\ [Next]_vars
        => [\A b \in BatchId \ Expirable :
              answer[b] = "accepted" /\ meta = "live"
                => answer'[b] = "accepted"]_vars
    BY <1>1
<1> QED
    BY <1>2, TypeCorrect, OnRecordAlways, AcknowledgedAlways, PTL
       DEF Spec, AcceptedStaysAccepted

\* Once the vault is marked for deletion nothing is added to it any more, in
\* whatever order its keys are unlinked.
THEOREM DeletionFreezesAlways == Spec => DeletionFreezes
<1>1. ASSUME TypeOK, [Next]_vars, meta # "live"
      PROVE  /\ \A s \in Subject : store'[s] \in {store[s], Absent}
             /\ stream' \in {stream, <<>>}
             /\ \A s \in Subject : tombstone'[s] \in {tombstone[s], 0}
  <2>1. CASE \E k \in Keys : Unlink(k)
      BY <2>1 DEF Unlink, EmptyStore
  <2>2. ASSUME ~ \E k \in Keys : Unlink(k)
        PROVE  UNCHANGED <<store, stream, tombstone>>
      BY <1>1, <2>2
         DEF Next, Deliver, Mint, RejectDeleting, AnswerAgain, RejectAll,
             RejectQuota, Reject, Commit, Undecided, Expire, LowerQuota,
             MarkDeleting, UnmarkDeleting, StartUnlinking, vars
  <2> QED
      BY <2>1, <2>2
<1>2. TypeOK /\ [Next]_vars
        => [meta # "live" =>
              /\ \A s \in Subject : store'[s] \in {store[s], Absent}
              /\ stream' \in {stream, <<>>}
              /\ \A s \in Subject : tombstone'[s] \in {tombstone[s], 0}]_vars
    BY <1>1
<1> QED
    BY <1>2, TypeCorrect, PTL DEF Spec, DeletionFreezes

-----------------------------------------------------------------------------
(* The stamps kept for properties and for deleted subjects. *)

\* The history of a property or a subject grows by the entry of a batch whose
\* accepted patches bear on it.
LEMMA EditHistory ==
    ASSUME TypeOK, NEW b \in BatchId, Commit(b),
           NEW s \in Subject, NEW f \in Field
    PROVE  LET n == Len(stream)
               acc == Accepted(b)
               edited == \E i \in DOMAIN acc :
                            Stamped(acc[i]) /\ acc[i].on = s /\ acc[i].prop = f
           IN  /\ Edits(s, f) \subseteq 1 .. n
               /\ Edits(s, f)' = Edits(s, f) \cup (IF edited THEN {n + 1} ELSE {})
               /\ \A k \in 1 .. n : HlcAt(k)' = HlcAt(k)
               /\ \A k \in Nat : k = n + 1 => HlcAt(k)' = HlcOf[b]
<1> DEFINE n == Len(stream)
           acc == Accepted(b)
<1>1. /\ DOMAIN stream = 1 .. n /\ n \in Nat
      /\ DOMAIN stream' = 1 .. (n + 1)
      /\ \A i \in 1 .. n : stream'[i] = stream[i]
      /\ stream'[n + 1].batch = b /\ stream'[n + 1].patches = acc
    BY AppendEntry
<1>2. \A k \in 1 .. n : HlcAt(k)' = HlcAt(k)
    BY <1>1 DEF HlcAt
<1>3. \A k \in Nat : k = n + 1 => HlcAt(k)' = HlcOf[b]
    BY <1>1 DEF HlcAt
<1>4. Edits(s, f) \subseteq 1 .. n
    BY <1>1 DEF Edits
<1>5. \A k \in 1 .. n : k \in Edits(s, f)' <=> k \in Edits(s, f)
    BY <1>1 DEF Edits
<1>6. n + 1 \in Edits(s, f)' <=> \E i \in DOMAIN acc :
            Stamped(acc[i]) /\ acc[i].on = s /\ acc[i].prop = f
    BY <1>1 DEF Edits, Stamped
<1>7. Edits(s, f)' \subseteq 1 .. (n + 1)
    BY <1>1 DEF Edits
<1>8. 1 .. (n + 1) = (1 .. n) \cup {n + 1}
    BY <1>1
<1> HIDE DEF n, acc
<1>9. Edits(s, f)' = Edits(s, f)
          \cup (IF \E i \in DOMAIN acc :
                     Stamped(acc[i]) /\ acc[i].on = s /\ acc[i].prop = f
               THEN {n + 1} ELSE {})
    BY <1>4, <1>5, <1>6, <1>7, <1>8
<1> QED
    BY <1>2, <1>3, <1>4, <1>9 DEF n, acc

LEMMA DropHistory ==
    ASSUME TypeOK, NEW b \in BatchId, Commit(b), NEW s \in Subject
    PROVE  LET n == Len(stream)
               acc == Accepted(b)
               dropped == \E i \in DOMAIN acc : acc[i] = Drop(s)
           IN  /\ Drops(s) \subseteq 1 .. n
               /\ Drops(s)' = Drops(s) \cup (IF dropped THEN {n + 1} ELSE {})
<1> DEFINE n == Len(stream)
           acc == Accepted(b)
<1>1. /\ DOMAIN stream = 1 .. n /\ n \in Nat
      /\ DOMAIN stream' = 1 .. (n + 1)
      /\ \A i \in 1 .. n : stream'[i] = stream[i]
      /\ stream'[n + 1].patches = acc
    BY AppendEntry
<1>2. Drops(s) \subseteq 1 .. n
    BY <1>1 DEF Drops
<1>3. \A k \in 1 .. n : k \in Drops(s)' <=> k \in Drops(s)
    BY <1>1 DEF Drops
<1>4. n + 1 \in Drops(s)' <=> \E i \in DOMAIN acc : acc[i] = Drop(s)
    BY <1>1 DEF Drops, Drop
<1>5. Drops(s)' \subseteq 1 .. (n + 1)
    BY <1>1 DEF Drops
<1>6. 1 .. (n + 1) = (1 .. n) \cup {n + 1}
    BY <1>1
<1> HIDE DEF n, acc
<1>7. Drops(s)' = Drops(s)
          \cup (IF \E i \in DOMAIN acc : acc[i] = Drop(s) THEN {n + 1} ELSE {})
    BY <1>2, <1>3, <1>4, <1>5, <1>6
<1> QED
    BY <1>2, <1>7 DEF n, acc

\* The stamp kept for a property is the stamp of an accepted edit of it, and
\* none of them is newer.
NewestStamp ==
    Intact => \A s \in Subject, f \in Field :
        LET T == {0} \cup {HlcAt(k) : k \in Edits(s, f)}
        IN  /\ T \subseteq Nat
            /\ fieldHlc[s][f] \in T
            /\ \A y \in T : y <= fieldHlc[s][f]

LEMMA StepNewestStamp ==
    TypeOK /\ NewestStamp /\ [Next]_vars => NewestStamp'
<1> SUFFICES ASSUME TypeOK, NewestStamp, [Next]_vars, Intact',
                    NEW s \in Subject, NEW f \in Field
             PROVE  /\ \A k \in Edits(s, f)' : HlcAt(k)' \in Nat
                    /\ \/ fieldHlc'[s][f] = 0
                       \/ \E k \in Edits(s, f)' : fieldHlc'[s][f] = HlcAt(k)'
                    /\ 0 <= fieldHlc'[s][f]
                    /\ \A k \in Edits(s, f)' : HlcAt(k)' <= fieldHlc'[s][f]
    BY DEF NewestStamp
<1> DEFINE old == fieldHlc[s][f]
<1>1. /\ \A k \in Edits(s, f) : HlcAt(k) \in Nat /\ HlcAt(k) <= old
      /\ old = 0 \/ \E k \in Edits(s, f) : old = HlcAt(k)
      /\ old \in Nat
    BY IntactBefore DEF NewestStamp, TypeOK
<1>2. ASSUME NEW b \in BatchId, Commit(b)
      PROVE  /\ \A k \in Edits(s, f)' : HlcAt(k)' \in Nat
             /\ \/ fieldHlc'[s][f] = 0
                \/ \E k \in Edits(s, f)' : fieldHlc'[s][f] = HlcAt(k)'
             /\ 0 <= fieldHlc'[s][f]
             /\ \A k \in Edits(s, f)' : HlcAt(k)' <= fieldHlc'[s][f]
  <2> DEFINE n == Len(stream)
             acc == Accepted(b)
             edited == \E i \in DOMAIN acc :
                          Stamped(acc[i]) /\ acc[i].on = s /\ acc[i].prop = f
  <2>1. /\ Edits(s, f) \subseteq 1 .. n
        /\ Edits(s, f)' = Edits(s, f) \cup (IF edited THEN {n + 1} ELSE {})
        /\ \A k \in 1 .. n : HlcAt(k)' = HlcAt(k)
        /\ \A k \in Nat : k = n + 1 => HlcAt(k)' = HlcOf[b]
        /\ n \in Nat
      BY <1>2, EditHistory, AppendEntry
  <2>2. fieldHlc'[s][f] = IF edited THEN HlcOf[b] ELSE old
      BY <1>2 DEF Commit, FieldHlcAfter
  <2>3. edited => old < HlcOf[b]
      BY DEF Accepted, Restrict, Take
  <2>4. HlcOf[b] \in Nat
      BY HlcUnique
  <2> HIDE DEF edited, n, acc
  <2>5. CASE edited
    <3>1. Edits(s, f)' = Edits(s, f) \cup {n + 1}
        BY <2>1, <2>5
    <3>2. \A k \in Edits(s, f) : HlcAt(k)' = HlcAt(k)
        BY <2>1
    <3>3. n + 1 \in Nat /\ (\A k \in {n + 1} : HlcAt(k)' = HlcOf[b])
        BY <2>1
    <3>4. \A k \in Edits(s, f)' : HlcAt(k)' \in Nat /\ HlcAt(k)' <= HlcOf[b]
        BY <1>1, <2>3, <2>4, <2>5, <3>1, <3>2, <3>3
    <3>5. \E k \in Edits(s, f)' : HlcOf[b] = HlcAt(k)'
        BY <3>1, <3>3
    <3> QED
        BY <2>2, <2>4, <2>5, <3>4, <3>5
  <2>6. CASE ~ edited
    <3>1. Edits(s, f)' = Edits(s, f)
        BY <2>1, <2>6
    <3>2. \A k \in Edits(s, f) : HlcAt(k)' = HlcAt(k)
        BY <2>1
    <3> QED
        BY <1>1, <2>2, <2>6, <3>1, <3>2
  <2> QED
      BY <2>5, <2>6
<1>3. CASE UNCHANGED <<fieldHlc, stream>>
  <2>1. Edits(s, f)' = Edits(s, f) /\ \A k : HlcAt(k)' = HlcAt(k)
      BY <1>3 DEF Edits, HlcAt
  <2> QED
      BY <1>1, <1>3, <2>1
<1> QED
    BY <1>2, <1>3, OnlyCommitWrites

\* A batch that loses leaves no stamp behind, and no accepted edit is ever
\* counted older than one before it: the comparison the script makes is
\* against the newest accepted edit of the property.
THEOREM FieldHlcIsNewest == Spec => []FieldHlcIsNewestAccepted
<1>1. Init => NewestStamp
    BY EmptySeq, LenProperties DEF Init, NewestStamp, Edits
<1>2. NewestStamp => FieldHlcIsNewestAccepted
  <2> SUFFICES ASSUME NewestStamp, Intact, NEW s \in Subject, NEW f \in Field
               PROVE  fieldHlc[s][f]
                        = Max({0} \cup {HlcAt(k) : k \in Edits(s, f)})
      BY DEF FieldHlcIsNewestAccepted
  <2> DEFINE T == {0} \cup {HlcAt(k) : k \in Edits(s, f)}
  <2>1. /\ T \subseteq Nat /\ fieldHlc[s][f] \in T
        /\ \A y \in T : y <= fieldHlc[s][f]
      BY DEF NewestStamp
  <2> HIDE DEF T
  <2>2. fieldHlc[s][f] = Max(T)
      BY <2>1, GreatestIsMax
  <2> QED
      BY <2>2 DEF T
<1> QED
    BY <1>1, <1>2, StepNewestStamp, TypeCorrect, PTL DEF Spec

LEMMA StepRemembered ==
    TypeOK /\ DeletionRemembered /\ [Next]_vars => DeletionRemembered'
<1> SUFFICES ASSUME TypeOK, DeletionRemembered, [Next]_vars, Intact',
                    NEW s \in Subject, store'[s] = Absent, Drops(s)' # {}
             PROVE  tombstone'[s] = HlcAt(Max(Drops(s)))'
    BY DEF DeletionRemembered
<1>1. ASSUME NEW b \in BatchId, Commit(b)
      PROVE  tombstone'[s] = HlcOf[stream'[Max(Drops(s)')].batch]
  <2> DEFINE n == Len(stream)
             acc == Accepted(b)
             dropped == \E i \in DOMAIN acc : acc[i] = Drop(s)
  <2>1. /\ Drops(s) \subseteq 1 .. n /\ n \in Nat
        /\ Drops(s)' = Drops(s) \cup (IF dropped THEN {n + 1} ELSE {})
        /\ \A k \in 1 .. n : stream'[k] = stream[k]
        /\ stream'[n + 1].batch = b
      BY <1>1, AppendEntry, DropHistory
  <2>2. \/ /\ s \notin Touched(acc)
           /\ store[s] = Absent
           /\ tombstone'[s] = tombstone[s]
        \/ dropped /\ tombstone'[s] = HlcOf[b]
    <3>1. IsBatch(acc, MaxBatch) /\ MaxBatch \in Nat
        BY <1>1, AcceptedIsBatch, ShapesArePatchLists DEF Commit, Undecided
    <3>2. ServerFresh \in Record
        BY FreshIsRecordOf DEF ServerFresh
    <3>3. store[s] \in Record \cup {Absent}
        BY DEF TypeOK
    <3>4. /\ After(acc, s, store[s], ServerFresh) = Absent
          /\ tombstone' = Tombstones(acc, HlcOf[b], tombstone)
        BY <1>1 DEF Commit, ApplyPatches
    <3> HIDE DEF acc
    <3> QED
        BY <3>1, <3>2, <3>3, <3>4, AbsentIsBuried
  <2>3. s \notin Touched(acc) => ~ dropped
      BY DEF Touched, Drop
  <2> HIDE DEF dropped, n, acc
  <2>4. CASE dropped
    <3>1. Drops(s)' \subseteq Nat /\ n + 1 \in Drops(s)'
        BY <2>1, <2>4
    <3>2. \A y \in Drops(s)' : y <= n + 1
        BY <2>1
    <3>3. Max(Drops(s)') = n + 1
        BY <3>1, <3>2, GreatestIsMax
    <3> QED
        BY <2>1, <2>2, <2>3, <2>4, <3>3
  <2>5. CASE ~ dropped
    <3>1. /\ Drops(s)' = Drops(s) /\ Drops(s) # {}
          /\ store[s] = Absent /\ tombstone'[s] = tombstone[s]
        BY <2>1, <2>2, <2>5
    <3>2. tombstone[s] = HlcOf[stream[Max(Drops(s))].batch]
        BY <3>1, IntactBefore DEF DeletionRemembered, HlcAt
    <3>3. Drops(s) \subseteq 0 .. n
        BY <2>1
    <3>4. Max(Drops(s)) \in 1 .. n
        BY <2>1, <3>1, <3>3, MaxIsLast
    <3> QED
        BY <2>1, <3>1, <3>2, <3>4
  <2> QED
      BY <2>4, <2>5
<1>2. CASE UNCHANGED <<store, tombstone, stream>>
  <2>1. Drops(s)' = Drops(s)
      BY <1>2 DEF Drops
  <2> QED
      BY <1>2, <2>1, IntactBefore DEF DeletionRemembered, HlcAt
<1>3. HlcAt(Max(Drops(s)))' = HlcOf[stream'[Max(Drops(s)')].batch]
    BY DEF HlcAt
<1> QED
    BY <1>1, <1>2, <1>3, OnlyCommitWrites

\* A dropped subject that has no record keeps the stamp of its last drop, so
\* a node that was offline across the deletion cannot bring it back with an
\* older edit.
THEOREM DeletionIsRemembered == Spec => []DeletionRemembered
<1>1. Init => DeletionRemembered
    BY EmptySeq, LenProperties DEF Init, DeletionRemembered, Drops
<1> QED
    BY <1>1, StepRemembered, TypeCorrect, PTL DEF Spec

-----------------------------------------------------------------------------
(* The stream and the records. *)

\* Replay applies the entries one after another.
ReplayEquations ==
    /\ Replay[0] = EmptyStore
    /\ \A n \in Nat \ {0} :
          Replay[n] = ApplyPatches(stream[n].patches, Replay[n - 1], ServerFresh)

LEMMA ReplayUnfolds == ReplayEquations
<1> DEFINE L == [n \in Nat |-> stream[n].patches]
<1>1. PICK R : Applies(R, L, EmptyStore, ServerFresh)
    BY ReplayExists
<1>2. R = [n \in Nat |-> IF n = 0 THEN EmptyStore
              ELSE ApplyPatches(stream[n].patches, R[n - 1], ServerFresh)]
    BY <1>1 DEF Applies
<1>3. Replay = [n \in Nat |-> IF n = 0 THEN EmptyStore
              ELSE ApplyPatches(stream[n].patches, Replay[n - 1], ServerFresh)]
    BY <1>2 DEF Replay
<1> QED
    BY <1>3 DEF ReplayEquations

\* Entries that come later do not change what the first m amount to.
LEMMA SamePrefixReplays ==
    ASSUME ReplayEquations, ReplayEquations',
           NEW m \in Nat, \A k \in 1 .. m : stream'[k] = stream[k]
    PROVE  \A n \in 0 .. m : Replay'[n] = Replay[n]
<1> DEFINE T == {n \in Nat : n <= m /\ Replay'[n] # Replay[n]}
<1> SUFFICES ASSUME T # {}
             PROVE  FALSE
    OBVIOUS
<1>1. PICK t \in T : \A n \in T : t <= n
    BY LeastNat
<1>2. t # 0
    BY <1>1 DEF ReplayEquations, EmptyStore
<1>3. t - 1 \in Nat /\ t - 1 \notin T /\ t - 1 <= m /\ t \in 1 .. m
    BY <1>1, <1>2
<1>4. Replay'[t - 1] = Replay[t - 1]
    BY <1>3
<1>5. stream'[t] = stream[t]
    BY <1>3
<1>6. Replay[t] = ApplyPatches(stream[t].patches, Replay[t - 1], ServerFresh)
    BY <1>3 DEF ReplayEquations
<1>7. Replay'[t] = ApplyPatches(stream'[t].patches, Replay'[t - 1], ServerFresh)
    BY <1>3 DEF ReplayEquations
<1> QED
    BY <1>1, <1>4, <1>5, <1>6, <1>7

LEMMA StepReplays ==
    ASSUME TypeOK, ReplayEquations, ReplayEquations', StreamReplaysStore, [Next]_vars
    PROVE  StreamReplaysStore'
<1> SUFFICES ASSUME Intact'
             PROVE  seq' = Len(stream') /\ store' = Replay'[seq']
    BY DEF StreamReplaysStore
<1>0. seq = Len(stream) /\ store = Replay[seq]
    BY IntactBefore DEF StreamReplaysStore
<1>t. seq \in Nat /\ stream \in Seq(Entry)
    BY DEF TypeOK
<1>1. CASE UNCHANGED <<seq, store, fieldHlc, tombstone, bytes, stream>>
  <2>1. \A k \in 1 .. seq : stream'[k] = stream[k]
      BY <1>1
  <2>2. Replay'[seq] = Replay[seq]
      BY <1>t, <2>1, ReplayUnfolds, SamePrefixReplays
  <2> QED
      BY <1>0, <1>1, <2>2
<1>2. ASSUME NEW b \in BatchId, Commit(b)
      PROVE  seq' = Len(stream') /\ store' = Replay'[seq']
  <2> DEFINE e == StreamEntry(b, Accepted(b))
  <2>1. stream' = Append(stream, e) /\ seq' = seq + 1
        /\ store' = ApplyPatches(Accepted(b), store, ServerFresh)
      BY <1>2 DEF Commit
  <2>2. e \in Entry /\ e.patches = Accepted(b)
      BY <1>2, AcceptedIsBatch DEF StreamEntry, Entry, Commit, Undecided
  <2>3. /\ Len(stream') = seq + 1 /\ stream'[seq + 1] = e
        /\ \A k \in 1 .. seq : stream'[k] = stream[k]
    <3> HIDE DEF e
    <3> QED
        BY <1>0, <1>t, <2>1, <2>2, AppendProperties
  <2>4. Replay'[seq] = Replay[seq]
    <3> HIDE DEF e
    <3>1. PICK m : m = seq
        OBVIOUS
    <3>2. m \in Nat /\ (\A k \in 1 .. m : stream'[k] = stream[k])
        BY <1>t, <2>3, <3>1
    <3>3. \A n \in 0 .. m : Replay'[n] = Replay[n]
        BY <3>2, SamePrefixReplays
    <3>4. Replay'[m] = Replay[m]
        BY <3>2, <3>3
    <3> QED
        BY <3>1, <3>4
  <2>5. Replay'[seq + 1] = ApplyPatches(stream'[seq + 1].patches, Replay'[seq], ServerFresh)
    <3>1. seq + 1 \in Nat \ {0} /\ (seq + 1) - 1 = seq
        BY <1>t
    <3> QED
        BY <3>1 DEF ReplayEquations
  <2> QED
      BY <1>0, <2>1, <2>2, <2>3, <2>4, <2>5
<1> QED
    BY <1>1, <1>2, OnlyCommitWrites

\* Applying the stream from its beginning gives the records of the vault, for any
\* number of batches in any order of arrival: what an edit lost by, or what was
\* rejected of its batch, is nowhere in it.
THEOREM StreamReplaysTheStore == Spec => []StreamReplaysStore
<1>1. Init => StreamReplaysStore
  <2>1. Init => seq = 0 /\ stream = <<>> /\ store = EmptyStore
      BY DEF Init
  <2>2. Len(<<>>) = 0
      BY EmptySeq
  <2>3. Replay[0] = EmptyStore
      BY ReplayUnfolds DEF ReplayEquations
  <2> QED
      BY <2>1, <2>2, <2>3 DEF StreamReplaysStore
<1>2. TypeOK /\ ReplayEquations /\ ReplayEquations' /\ StreamReplaysStore /\ [Next]_vars
        => StreamReplaysStore'
    BY StepReplays
<1> QED
    BY <1>1, <1>2, TypeCorrect, ReplayUnfolds, PTL DEF Spec

-----------------------------------------------------------------------------
(* The last writer wins. *)

\* The record of a subject shows its newest standing edit of each scalar.
NewestShows ==
    Intact => \A s \in Subject, f \in Scalar : \A w \in StandingEdits(s, f) :
        (\A k \in StandingEdits(s, f) : HlcAt(k) <= HlcAt(w)) =>
            /\ store[s] # Absent
            /\ store[s].scalar[f] = ScalarAfter(stream[w].patches, s, f, Missing)

\* A batch without a write of s.f, and without a drop of s, leaves s.f as it was.
LEMMA OtherWritesLeave ==
    ASSUME NEW n \in Nat, NEW b, IsBatch(b, n), NEW s, NEW f \in Scalar,
           NEW r \in Record, ScalarWrites(b, s, f) = {},
           \A i \in DOMAIN b : b[i] # Drop(s)
    PROVE  /\ After(b, s, r, ServerFresh) # Absent
           /\ After(b, s, r, ServerFresh).scalar[f] = r.scalar[f]
<1>1. LastDrop(b, s) = 0
  <2>1. LastDrop(b, s) # 0 => b[LastDrop(b, s)] \in Patch /\ b[LastDrop(b, s)].op = "drop"
                              /\ b[LastDrop(b, s)].on = s /\ LastDrop(b, s) \in DOMAIN b
      BY LastDropType DEF IsBatch
  <2> QED
      BY <2>1, DropIsPatch
<1>2. r # Absent /\ RecordAfter(b, s, r) # Absent
    BY AbsentIsNoRecord, RecordAfterType
<1>3. RecordAfter(b, s, r).scalar[f] = r.scalar[f]
    BY DEF RecordAfter, ScalarAfter
<1> QED
    BY <1>1, <1>2, <1>3 DEF After

\* One with such a write determines s.f alone.
LEMMA WriteShows ==
    ASSUME NEW n \in Nat, NEW b, IsBatch(b, n), NEW s, NEW f \in Scalar,
           NEW r \in Record \cup {Absent}, ScalarWrites(b, s, f) # {}
    PROVE  /\ After(b, s, r, ServerFresh) # Absent
           /\ After(b, s, r, ServerFresh).scalar[f] = ScalarAfter(b, s, f, Missing)
<1> DEFINE base == IF r = Absent \/ LastDrop(b, s) > 0 THEN ServerFresh ELSE r
<1>1. Surviving(b, s) # {}
    BY DEF ScalarWrites
<1>2. After(b, s, r, ServerFresh) = RecordAfter(b, s, base)
    BY <1>1 DEF After
<1>3. base \in Record
    BY FreshIsRecordOf DEF ServerFresh
<1>4. RecordAfter(b, s, base) # Absent
    BY <1>3, AbsentIsNoRecord, RecordAfterType
<1>5. RecordAfter(b, s, base).scalar[f] = ScalarAfter(b, s, f, base.scalar[f])
    BY DEF RecordAfter
<1>6. ScalarAfter(b, s, f, base.scalar[f]) = ScalarAfter(b, s, f, Missing)
    BY DEF ScalarAfter
<1> QED
    BY <1>2, <1>4, <1>5, <1>6

\* Writes of a scalar are stamped edits of it.
LEMMA WritesAreEdits ==
    ASSUME NEW b, NEW s, NEW f
    PROVE  \A i \in ScalarWrites(b, s, f) :
              i \in DOMAIN b /\ Stamped(b[i]) /\ b[i].on = s /\ b[i].prop = f
    BY DEF ScalarWrites, Surviving, Stamped

LEMMA StepShows ==
    ASSUME TypeOK, NewestStamp, NewestShows, [Next]_vars
    PROVE  NewestShows'
<1> SUFFICES ASSUME Intact', NEW s \in Subject, NEW f \in Scalar,
                    NEW w \in StandingEdits(s, f)',
                    \A k \in StandingEdits(s, f)' : HlcAt(k)' <= HlcAt(w)'
             PROVE  /\ store'[s] # Absent
                    /\ store'[s].scalar[f] = ScalarAfter(stream'[w].patches, s, f, Missing)
    BY DEF NewestShows
<1>0. Intact
    BY IntactBefore
<1>1. CASE UNCHANGED <<store, stream>>
  <2>1. StandingEdits(s, f)' = StandingEdits(s, f) /\ \A k : HlcAt(k)' = HlcAt(k)
      BY <1>1 DEF StandingEdits, Edits, Drops, HlcAt
  <2> QED
      BY <1>0, <1>1, <2>1 DEF NewestShows
<1>2. ASSUME NEW b \in BatchId, Commit(b)
      PROVE  /\ store'[s] # Absent
             /\ store'[s].scalar[f] = ScalarAfter(stream'[w].patches, s, f, Missing)
  <2> DEFINE n == Len(stream)
             acc == Accepted(b)
             W == ScalarWrites(acc, s, f)
             dropped == \E i \in DOMAIN acc : acc[i] = Drop(s)
             edited == \E i \in DOMAIN acc :
                          Stamped(acc[i]) /\ acc[i].on = s /\ acc[i].prop = f
  <2>1. /\ Edits(s, f) \subseteq 1 .. n
        /\ Edits(s, f)' = Edits(s, f) \cup (IF edited THEN {n + 1} ELSE {})
        /\ \A k \in 1 .. n : HlcAt(k)' = HlcAt(k)
        /\ \A k \in Nat : k = n + 1 => HlcAt(k)' = HlcOf[b]
        /\ n \in Nat
      BY <1>2, EditHistory, AppendEntry DEF Field
  <2>2. /\ Drops(s) \subseteq 1 .. n
        /\ Drops(s)' = Drops(s) \cup (IF dropped THEN {n + 1} ELSE {})
      BY <1>2, DropHistory
  <2>3. /\ \A k \in 1 .. n : stream'[k] = stream[k]
        /\ stream'[n + 1].patches = acc
      BY <1>2, AppendEntry
  <2>4. /\ IsBatch(acc, MaxBatch) /\ MaxBatch \in Nat
        /\ store[s] \in Record \cup {Absent}
        /\ store'[s] = After(acc, s, store[s], ServerFresh)
      BY <1>2, AcceptedIsBatch, ShapesArePatchLists DEF Commit, Undecided, TypeOK, ApplyPatches
  <2>5. edited => fieldHlc[s][f] < HlcOf[b]
      BY DEF Accepted, Restrict, Take
  <2>6. W # {} => edited
      BY WritesAreEdits
  <2>7. \A k \in Edits(s, f) : HlcAt(k) \in Nat /\ HlcAt(k) <= fieldHlc[s][f]
      BY <1>0 DEF NewestStamp, Field
  <2>8. fieldHlc[s][f] \in Nat /\ HlcOf[b] \in Nat
      BY HlcUnique DEF TypeOK, Field
  <2> HIDE DEF n, acc, W, dropped, edited
  \* Older entries stand unless the batch drops the subject.
  <2>9. \A k \in 1 .. n : k \in StandingEdits(s, f)' <=> k \in StandingEdits(s, f) /\ ~ dropped
    <3> SUFFICES ASSUME NEW k \in 1 .. n
                 PROVE  k \in StandingEdits(s, f)' <=> k \in StandingEdits(s, f) /\ ~ dropped
        OBVIOUS
    <3>1. k \in Edits(s, f)' <=> k \in Edits(s, f)
        BY <2>1
    <3>2. (\A d \in Drops(s)' : d <= k) <=> (\A d \in Drops(s) : d <= k) /\ ~ dropped
        BY <2>1, <2>2
    <3>3. ScalarWrites(stream'[k].patches, s, f) = ScalarWrites(stream[k].patches, s, f)
        BY <2>3
    <3> QED
        BY <3>1, <3>2, <3>3 DEF StandingEdits
  <2>10. n + 1 \in StandingEdits(s, f)' <=> W # {}
    <3>1. n + 1 \in Edits(s, f)' <=> edited
        BY <2>1
    <3>2. \A d \in Drops(s)' : d <= n + 1
        BY <2>1, <2>2
    <3>3. ScalarWrites(stream'[n + 1].patches, s, f) = W
        BY <2>3 DEF W
    <3> QED
        BY <2>6, <3>1, <3>2, <3>3 DEF StandingEdits
  <2>11. StandingEdits(s, f)' \subseteq 1 .. n + 1
      BY <2>1 DEF StandingEdits
  <2>12. CASE W # {}
    <3>1. w = n + 1
      <4>1. SUFFICES ASSUME w \in 1 .. n
                     PROVE  FALSE
          BY <2>1, <2>11
      <4>2. w \in Edits(s, f) /\ HlcAt(w)' = HlcAt(w)
          BY <2>1, <2>9, <4>1 DEF StandingEdits
      <4>3. HlcOf[b] <= HlcAt(w)
        <5>1. PICK k \in Nat : k = n + 1
            BY <2>1
        <5>2. k \in StandingEdits(s, f)'
            BY <2>10, <2>12, <5>1
        <5>3. HlcAt(k)' = HlcOf[b] /\ HlcAt(k)' <= HlcAt(w)'
            BY <2>1, <5>1, <5>2
        <5> QED
            BY <4>2, <5>3
      <4> QED
          BY <2>5, <2>6, <2>7, <2>8, <2>12, <4>2, <4>3
    <3>2. ScalarWrites(acc, s, f) # {}
        BY <2>12 DEF W
    <3>3. /\ store'[s] # Absent
          /\ store'[s].scalar[f] = ScalarAfter(acc, s, f, Missing)
        BY <2>4, <3>2, WriteShows
    <3> QED
        BY <2>3, <3>1, <3>3
  <2>13. CASE W = {}
    <3>1. w \in 1 .. n /\ w \in StandingEdits(s, f) /\ ~ dropped
        BY <2>1, <2>9, <2>10, <2>11, <2>13
    <3>2. \A k \in StandingEdits(s, f) : HlcAt(k) <= HlcAt(w)
      <4> SUFFICES ASSUME NEW k \in StandingEdits(s, f)
                   PROVE  HlcAt(k) <= HlcAt(w)
          OBVIOUS
      <4>1. k \in 1 .. n
          BY <2>1 DEF StandingEdits
      <4> QED
          BY <2>1, <2>9, <3>1, <4>1
    <3>3. /\ store[s] # Absent
          /\ store[s].scalar[f] = ScalarAfter(stream[w].patches, s, f, Missing)
        BY <1>0, <3>1, <3>2 DEF NewestShows
    <3>4. store[s] \in Record /\ ScalarWrites(acc, s, f) = {}
          /\ \A i \in DOMAIN acc : acc[i] # Drop(s)
        BY <2>4, <2>13, <3>1, <3>3 DEF W, dropped
    <3>5. store'[s] # Absent /\ store'[s].scalar[f] = store[s].scalar[f]
        BY <2>4, <3>4, OtherWritesLeave
    <3> QED
        BY <2>3, <3>1, <3>3, <3>5
  <2> QED
      BY <2>12, <2>13
<1> QED
    BY <1>1, <1>2, OnlyCommitWrites

\* Where the entries of the stream come from: each carries a choice of its batch's
\* patches, all or none of the batch's edits of one property.
Provenance ==
    Intact => \A k \in DOMAIN stream :
        LET part == stream[k].patches
            whole == batch[stream[k].batch]
        IN  /\ whole # Unminted
            /\ \A i \in DOMAIN part : i \in DOMAIN whole /\ part[i] = whole[i]
            /\ \A i \in DOMAIN part, j \in DOMAIN whole :
                  /\ Stamped(whole[i]) /\ Stamped(whole[j])
                  /\ whole[i].on = whole[j].on /\ whole[i].prop = whole[j].prop
                  => j \in DOMAIN part

\* Why an edit of an accepted batch may have been left out: a newer one had been
\* accepted, or the subject was dropped.
LeftOut ==
    Intact =>
        /\ \A k \in DOMAIN stream, s \in Subject, f \in Field :
              (\E j \in DOMAIN batch[stream[k].batch] :
                  LET p == batch[stream[k].batch][j]
                  IN  Stamped(p) /\ p.on = s /\ p.prop = f)
              => Drops(s) # {} \/ HlcAt(k) <= fieldHlc[s][f]
        /\ \A s \in Subject : tombstone[s] # 0 => Drops(s) # {}

\* A batch keeps its patches once it is minted.
LEMMA MintedOnce ==
    ASSUME TypeOK, [Next]_vars, NEW b \in BatchId, batch[b] # Unminted
    PROVE  batch'[b] = batch[b]
    BY DEF Next, Deliver, Mint, RejectDeleting, AnswerAgain, RejectAll, RejectQuota,
           Reject, Commit, Expire, LowerQuota, MarkDeleting, UnmarkDeleting,
           StartUnlinking, Unlink, vars, TypeOK

LEMMA StepProvenance ==
    ASSUME TypeOK, Provenance, [Next]_vars
    PROVE  Provenance'
<1> DEFINE Of(part, whole) ==
        /\ whole # Unminted
        /\ \A i \in DOMAIN part : i \in DOMAIN whole /\ part[i] = whole[i]
        /\ \A i \in DOMAIN part, j \in DOMAIN whole :
              /\ Stamped(whole[i]) /\ Stamped(whole[j])
              /\ whole[i].on = whole[j].on /\ whole[i].prop = whole[j].prop
              => j \in DOMAIN part
<1> SUFFICES ASSUME Intact', NEW k \in DOMAIN stream'
             PROVE  Of(stream'[k].patches, batch'[stream'[k].batch])
    BY DEF Provenance
<1>0. \A i \in DOMAIN stream : Of(stream[i].patches, batch[stream[i].batch])
    BY IntactBefore DEF Provenance
<1>1. \A i \in DOMAIN stream : stream[i].batch \in BatchId
  <2>1. stream \in Seq(Entry)
      BY DEF TypeOK
  <2>2. \A i \in DOMAIN stream : stream[i] \in Entry
      BY <2>1, LenProperties, ElementOfSeq
  <2> QED
      BY <2>2 DEF Entry
<1>2. ASSUME k \in DOMAIN stream, stream'[k] = stream[k]
      PROVE  Of(stream'[k].patches, batch'[stream'[k].batch])
  <2>1. Of(stream[k].patches, batch[stream[k].batch])
      BY <1>0, <1>2
  <2>2. batch'[stream[k].batch] = batch[stream[k].batch]
      BY <1>1, <1>2, <2>1, MintedOnce
  <2> HIDE DEF Of
  <2> QED
      BY <1>2, <2>1, <2>2
<1>3. CASE UNCHANGED stream
    BY <1>2, <1>3
<1>4. ASSUME NEW b \in BatchId, Commit(b)
      PROVE  Of(stream'[k].patches, batch'[stream'[k].batch])
  <2>1. /\ k \in 1 .. Len(stream) \/ k = Len(stream) + 1
        /\ k \in 1 .. Len(stream) => k \in DOMAIN stream /\ stream'[k] = stream[k]
        /\ k = Len(stream) + 1 => stream'[k].batch = b /\ stream'[k].patches = Accepted(b)
      BY <1>4, AppendEntry
  <2>2. Of(Accepted(b), batch[b])
    <3>1. batch[b] # Unminted
        BY <1>4 DEF Commit, Undecided
    <3>2. /\ DOMAIN Accepted(b) = {i \in DOMAIN batch[b] : Take(batch[b][i], HlcOf[b])}
          /\ \A i \in DOMAIN Accepted(b) : Accepted(b)[i] = batch[b][i]
        BY DEF Accepted, Restrict
    <3>3. ASSUME NEW p, NEW q, Stamped(p), Stamped(q), p.on = q.on, p.prop = q.prop,
                 Take(p, HlcOf[b])
          PROVE  Take(q, HlcOf[b])
        BY <3>3 DEF Take, Buried, Stamped
    <3> QED
        BY <3>1, <3>2, <3>3
  <2>3. batch'[b] = batch[b]
      BY <1>4 DEF Commit
  <2> HIDE DEF Of
  <2> QED
      BY <1>2, <2>1, <2>2, <2>3
<1> QED
    BY <1>3, <1>4, OnlyCommitWrites

LEMMA StepLeftOut ==
    ASSUME TypeOK, Provenance, LeftOut, [Next]_vars
    PROVE  LeftOut'
<1>0. ASSUME Intact'
      PROVE  Intact
    BY <1>0, IntactBefore
<1>t. \A i \in DOMAIN stream : stream[i].batch \in BatchId
  <2>1. stream \in Seq(Entry)
      BY DEF TypeOK
  <2>2. \A i \in DOMAIN stream : stream[i] \in Entry
      BY <2>1, LenProperties, ElementOfSeq
  <2> QED
      BY <2>2 DEF Entry
<1>1. ASSUME Intact', UNCHANGED <<fieldHlc, tombstone, stream>>
      PROVE  LeftOut'
  <2>1. \A i \in DOMAIN stream : batch'[stream[i].batch] = batch[stream[i].batch]
      BY <1>0, <1>1, <1>t, MintedOnce DEF Provenance
  <2>2. \A s : Drops(s)' = Drops(s)
      BY <1>1 DEF Drops
  <2> QED
      BY <1>0, <1>1, <2>1, <2>2 DEF LeftOut, HlcAt
<1>2. ASSUME Intact', NEW b \in BatchId, Commit(b)
      PROVE  LeftOut'
  <2> DEFINE n == Len(stream)
             acc == Accepted(b)
  <2>n. /\ DOMAIN stream = 1 .. n /\ n \in Nat
        /\ DOMAIN stream' = 1 .. (n + 1)
        /\ \A i \in 1 .. n : stream'[i] = stream[i]
        /\ stream'[n + 1].batch = b /\ stream'[n + 1].patches = acc
      BY <1>2, AppendEntry
  <2>b. batch' = batch /\ batch[b] # Unminted /\ fieldHlc' = FieldHlcAfter(acc, HlcOf[b])
        /\ tombstone' = Tombstones(acc, HlcOf[b], tombstone)
      BY <1>2 DEF Commit, Undecided
  <2>a. /\ DOMAIN acc = {i \in DOMAIN batch[b] : Take(batch[b][i], HlcOf[b])}
        /\ \A i \in DOMAIN acc : acc[i] = batch[b][i] /\ acc[i] \in Patch
        /\ \A i \in DOMAIN batch[b] : batch[b][i] \in Patch
    <3>1. batch[b] \in Seq(Patch)
        BY <2>b, ShapesArePatchLists DEF TypeOK
    <3> QED
        BY <3>1, LenProperties, ElementOfSeq DEF Accepted, Restrict
  <2>h. HlcOf[b] \in Nat /\ \A s \in Subject, f \in Field : fieldHlc[s][f] \in Nat
      BY HlcUnique DEF TypeOK
  <2>1. \A s \in Subject, f \in Field : fieldHlc[s][f] <= fieldHlc'[s][f]
    <3> SUFFICES ASSUME NEW s \in Subject, NEW f \in Field
                 PROVE  fieldHlc[s][f] <= fieldHlc'[s][f]
        OBVIOUS
    <3>1. \A i \in DOMAIN acc : Stamped(acc[i]) /\ acc[i].on = s /\ acc[i].prop = f
             => fieldHlc[s][f] < HlcOf[b]
        BY <2>a DEF Take
    <3> QED
        BY <2>b, <2>h, <3>1 DEF FieldHlcAfter
  <2>2. \A s \in Subject : Drops(s) # {} => Drops(s)' # {}
      BY <1>2, DropHistory
  <2>3. ASSUME NEW s \in Subject, tombstone'[s] # 0
        PROVE  Drops(s)' # {}
    <3>1. CASE RootWrites(acc, s) = {}
      <4>1. tombstone[s] # 0
          BY <2>b, <2>3, <3>1 DEF Tombstones
      <4> QED
          BY <1>0, <1>2, <2>2, <4>1 DEF LeftOut
    <3>2. CASE RootWrites(acc, s) # {}
      <4> DEFINE i == Max(RootWrites(acc, s))
      <4>1. acc[i].op = "drop"
          BY <2>b, <2>3, <3>2 DEF Tombstones
      <4>2. RootWrites(acc, s) \subseteq 0 .. MaxBatch
          BY <2>b, AcceptedIsBatch, ShapesArePatchLists DEF RootWrites, IsBatch
      <4>3. i \in RootWrites(acc, s)
          BY <3>2, <4>2, MaxIsLast, ShapesArePatchLists
      <4>4. i \in DOMAIN acc /\ acc[i] = Drop(s)
          BY <2>a, <4>1, <4>3, DropIsPatch DEF RootWrites
      <4>5. n + 1 \in Drops(s)'
        <5> HIDE DEF i
        <5> QED
            BY <2>n, <4>4 DEF Drops
      <4> QED
          BY <4>5
    <3> QED
        BY <3>1, <3>2
  <2> DEFINE Carries(c, s, f) == \E j \in DOMAIN batch[c] :
                 Stamped(batch[c][j]) /\ batch[c][j].on = s /\ batch[c][j].prop = f
  <2>4. ASSUME NEW k \in 1 .. n, NEW s \in Subject, NEW f \in Field, Carries(stream[k].batch, s, f)
        PROVE  Drops(s)' # {} \/ HlcOf[stream[k].batch] <= fieldHlc'[s][f]
    <3>1. stream[k].batch \in BatchId
        BY <1>t, <2>n
    <3>3. Drops(s) # {} \/ HlcOf[stream[k].batch] <= fieldHlc[s][f]
        BY <1>0, <1>2, <2>4, <2>n DEF LeftOut, HlcAt
    <3>5. HlcOf[stream[k].batch] \in Nat /\ fieldHlc[s][f] \in Nat /\ fieldHlc'[s][f] \in Nat
        BY <3>1, <2>h, <2>b, HlcUnique DEF FieldHlcAfter
    <3> QED
        BY <2>1, <2>2, <3>3, <3>5
  <2>5. ASSUME NEW s \in Subject, NEW f \in Field, Carries(b, s, f)
        PROVE  Drops(s)' # {} \/ HlcOf[b] <= fieldHlc'[s][f]
    <3>1. PICK j \in DOMAIN batch[b] :
              Stamped(batch[b][j]) /\ batch[b][j].on = s /\ batch[b][j].prop = f
        BY <2>5
    <3>2. CASE Take(batch[b][j], HlcOf[b])
      <4>1. j \in DOMAIN acc /\ acc[j] = batch[b][j]
          BY <2>a, <3>2
      <4>2. fieldHlc'[s][f] = HlcOf[b]
          BY <2>b, <3>1, <4>1 DEF FieldHlcAfter
      <4> QED
          BY <2>h, <4>2
    <3>3. CASE Buried(batch[b][j], HlcOf[b])
      <4>1. Drops(s) # {}
          BY <1>0, <1>2, <3>1, <3>3 DEF Buried, LeftOut
      <4> QED
          BY <2>2, <4>1
    <3>4. CASE ~ Take(batch[b][j], HlcOf[b]) /\ ~ Buried(batch[b][j], HlcOf[b])
      <4>1. ~ (fieldHlc[s][f] < HlcOf[b])
          BY <3>1, <3>4 DEF Take, Stamped
      <4>2. fieldHlc[s][f] <= fieldHlc'[s][f] /\ fieldHlc[s][f] \in Nat /\ fieldHlc'[s][f] \in Nat
          BY <2>1, <2>h, <2>b DEF FieldHlcAfter
      <4> QED
          BY <2>h, <4>1, <4>2
    <3> QED
        BY <3>2, <3>3, <3>4
  <2>6. ASSUME NEW k \in DOMAIN stream', NEW s \in Subject, NEW f \in Field,
               Carries(stream'[k].batch, s, f)
        PROVE  Drops(s)' # {} \/ HlcOf[stream'[k].batch] <= fieldHlc'[s][f]
    <3>1. CASE k \in 1 .. n
      <4>1. stream'[k].batch = stream[k].batch
          BY <2>n, <3>1
      <4> HIDE DEF Carries
      <4> QED
          BY <2>4, <2>6, <3>1, <4>1
    <3>2. CASE k = n + 1
      <4>1. stream'[k].batch = b
          BY <2>n, <3>2
      <4> HIDE DEF Bears
      <4> QED
          BY <2>5, <2>6, <4>1
    <3>3. k \in 1 .. n \/ k = n + 1
        BY <2>n
    <3> QED
        BY <3>1, <3>2, <3>3
  <2> QED
      BY <2>3, <2>6, <2>b DEF LeftOut, HlcAt, Stamped
<1>3. ~ Intact' => LeftOut'
    BY DEF LeftOut
<1> QED
    BY <1>1, <1>2, <1>3, OnlyCommitWrites

\* Of a batch that drops nobody, the part that has all its edits of s.f writes what
\* the whole writes.
LEMMA PartWritesWhole ==
    ASSUME NEW n \in Nat, NEW part, NEW whole, IsBatch(part, n), IsBatch(whole, n),
           NEW s, NEW f \in Scalar,
           \A i \in DOMAIN whole : whole[i] # Drop(s),
           \A i \in DOMAIN part : i \in DOMAIN whole /\ part[i] = whole[i],
           \A j \in DOMAIN whole :
              Stamped(whole[j]) /\ whole[j].on = s /\ whole[j].prop = f => j \in DOMAIN part
    PROVE  /\ ScalarWrites(part, s, f) = ScalarWrites(whole, s, f)
           /\ ScalarAfter(part, s, f, Missing) = ScalarAfter(whole, s, f, Missing)
<1>1. LastDrop(whole, s) = 0 /\ LastDrop(part, s) = 0
  <2>1. ASSUME NEW b, IsBatch(b, n), LastDrop(b, s) # 0
        PROVE  \E i \in DOMAIN b : b[i] = Drop(s)
      BY <2>1, LastDropType, DropIsPatch DEF IsBatch
  <2> QED
      BY <2>1
<1>2. ScalarWrites(part, s, f) = ScalarWrites(whole, s, f)
  <2>1. \A i : i \in ScalarWrites(whole, s, f) <=>
            i \in DOMAIN whole /\ whole[i].on = s /\ i > 0
              /\ whole[i].op \in {"assign", "erase"} /\ whole[i].prop = f
      BY <1>1 DEF ScalarWrites, Surviving
  <2>2. \A i : i \in ScalarWrites(part, s, f) <=>
            i \in DOMAIN part /\ part[i].on = s /\ i > 0
              /\ part[i].op \in {"assign", "erase"} /\ part[i].prop = f
      BY <1>1 DEF ScalarWrites, Surviving
  <2>3. \A i : i \in ScalarWrites(part, s, f) => i \in ScalarWrites(whole, s, f)
      BY <2>1, <2>2
  <2>4. \A i : i \in ScalarWrites(whole, s, f) => i \in ScalarWrites(part, s, f)
      BY <2>1, <2>2 DEF Stamped
  <2> QED
      BY <2>3, <2>4
<1>3. ScalarWrites(whole, s, f) # {} => Max(ScalarWrites(whole, s, f)) \in DOMAIN part
  <2> DEFINE W == ScalarWrites(whole, s, f)
  <2>1. W \subseteq 0 .. n /\ W \subseteq DOMAIN part
      BY <1>2, WritesAreEdits DEF IsBatch
  <2> HIDE DEF W
  <2>2. W # {} => Max(W) \in DOMAIN part
      BY <2>1, MaxIsLast
  <2> QED
      BY <2>2 DEF W
<1> QED
    BY <1>2, <1>3 DEF ScalarAfter

\* An edit of a scalar in a batch that drops nobody is a write.
LEMMA EditsAreWrites ==
    ASSUME NEW n \in Nat, NEW b, IsBatch(b, n), NEW s, NEW f \in Scalar,
           \A i \in DOMAIN b : b[i] # Drop(s),
           NEW i \in DOMAIN b, Stamped(b[i]), b[i].on = s, b[i].prop = f
    PROVE  ScalarWrites(b, s, f) # {}
<1>1. LastDrop(b, s) = 0
    BY LastDropType, DropIsPatch DEF IsBatch
<1>2. b[i] \in Patch /\ i > 0
    BY DEF IsBatch
<1>3. b[i].op \in {"assign", "erase"}
    BY <1>2, PropertyKindsDisjoint
    DEF Patch, RootPatch, AssignPatch, ErasePatch, HoldPatch, MemberPatch, Stamped
<1> QED
    BY <1>1, <1>2, <1>3 DEF ScalarWrites, Surviving

LEMMA NewestStands ==
    ASSUME TypeOK, Intact, NewestStamp, NewestShows, Provenance, LeftOut, AcknowledgedIsInStream
    PROVE  NewestAcknowledgedStands
<1> SUFFICES ASSUME NEW s \in Subject, NEW f \in Scalar,
                    \A c \in BatchId : batch[c] # Unminted =>
                        \A i \in DOMAIN batch[c] : batch[c][i] # Drop(s),
                    NEW w \in BatchId, batch[w] # Unminted, ScalarWrites(batch[w], s, f) # {},
                    answer[w] = "accepted",
                    \A c \in BatchId : batch[c] # Unminted /\ ScalarWrites(batch[c], s, f) # {}
                        => HlcOf[c] <= HlcOf[w]
             PROVE  store[s].scalar[f] = ScalarAfter(batch[w], s, f, Missing)
    BY DEF NewestAcknowledgedStands
<1>s. \A k \in DOMAIN stream : stream[k].batch \in BatchId /\ stream[k].patches \in PatchList
  <2>1. stream \in Seq(Entry)
      BY DEF TypeOK
  <2>2. \A k \in DOMAIN stream : stream[k] \in Entry
      BY <2>1, LenProperties, ElementOfSeq
  <2> QED
      BY <2>2 DEF Entry
<1>b. \A c \in BatchId : batch[c] # Unminted => IsBatch(batch[c], MaxBatch)
  <2>1. \A c \in BatchId : batch[c] # Unminted => batch[c] \in Seq(Patch) /\ Len(batch[c]) <= MaxBatch
      BY ShapesArePatchLists DEF TypeOK
  <2>2. \A c \in BatchId : batch[c] # Unminted =>
            DOMAIN batch[c] \subseteq 1 .. MaxBatch /\ \A i \in DOMAIN batch[c] : batch[c][i] \in Patch
      BY <2>1, ShapesArePatchLists, LenProperties, ElementOfSeq
  <2> QED
      BY <2>2 DEF IsBatch
<1>p. \A k \in DOMAIN stream :
          /\ batch[stream[k].batch] # Unminted
          /\ IsBatch(stream[k].patches, MaxBatch)
          /\ \A i \in DOMAIN stream[k].patches :
                /\ i \in DOMAIN batch[stream[k].batch]
                /\ stream[k].patches[i] = batch[stream[k].batch][i]
  <2>1. \A k \in DOMAIN stream : IsBatch(stream[k].patches, MaxBatch)
      BY <1>s DEF PatchList, IsBatch
  <2> QED
      BY <2>1 DEF Provenance
<1>1. Drops(s) = {}
    BY <1>s, <1>p DEF Drops
\* Whoever edited s.f is not newer than w.
<1>2. ASSUME NEW k \in Edits(s, f)
      PROVE  /\ k \in DOMAIN stream /\ ScalarWrites(stream[k].patches, s, f) # {}
             /\ HlcAt(k) <= HlcOf[w] /\ HlcAt(k) \in Nat
  <2>1. k \in DOMAIN stream
      BY DEF Edits
  <2>2. PICK i \in DOMAIN stream[k].patches :
            /\ Stamped(stream[k].patches[i])
            /\ stream[k].patches[i].on = s /\ stream[k].patches[i].prop = f
      BY DEF Edits
  <2>3. ScalarWrites(stream[k].patches, s, f) # {}
    <3> DEFINE part == stream[k].patches
    <3>1. /\ IsBatch(part, MaxBatch) /\ MaxBatch \in Nat /\ i \in DOMAIN part
          /\ Stamped(part[i]) /\ part[i].on = s /\ part[i].prop = f
        BY <1>p, <2>1, <2>2, ShapesArePatchLists
    <3>2. \A j \in DOMAIN part : part[j] # Drop(s)
        BY <1>p, <1>s, <2>1
    <3> HIDE DEF part
    <3>3. ScalarWrites(part, s, f) # {}
        BY <3>1, <3>2, EditsAreWrites
    <3> QED
        BY <3>3 DEF part
  <2>4. ScalarWrites(batch[stream[k].batch], s, f) # {}
    <3> DEFINE whole == batch[stream[k].batch]
    <3>1. stream[k].batch \in BatchId /\ whole # Unminted /\ MaxBatch \in Nat
        BY <1>p, <1>s, <2>1, ShapesArePatchLists
    <3>2. /\ IsBatch(whole, MaxBatch) /\ i \in DOMAIN whole
          /\ Stamped(whole[i]) /\ whole[i].on = s /\ whole[i].prop = f
          /\ \A j \in DOMAIN whole : whole[j] # Drop(s)
        BY <1>p, <1>b, <2>1, <2>2, <3>1
    <3> HIDE DEF whole
    <3>3. ScalarWrites(whole, s, f) # {}
        BY <3>1, <3>2, EditsAreWrites
    <3> QED
        BY <3>3 DEF whole
  <2> QED
      BY <1>p, <1>s, <2>1, <2>3, <2>4, HlcUnique DEF HlcAt
<1>3. PICK a \in DOMAIN stream : stream[a].batch = w
    BY DEF AcknowledgedIsInStream
<1>4. HlcOf[w] <= fieldHlc[s][f]
  <2>1. PICK j \in ScalarWrites(batch[w], s, f) : TRUE
      OBVIOUS
  <2>2. j \in DOMAIN batch[w] /\ Stamped(batch[w][j]) /\ batch[w][j].on = s /\ batch[w][j].prop = f
      BY WritesAreEdits
  <2>3. f \in Field
      BY DEF Field
  <2>4. \E i \in DOMAIN batch[stream[a].batch] :
            LET p == batch[stream[a].batch][i]
            IN  Stamped(p) /\ p.on = s /\ p.prop = f
      BY <1>3, <2>2
  <2>5. HlcAt(a) <= fieldHlc[s][f]
      BY <1>1, <2>3, <2>4 DEF LeftOut
  <2> QED
      BY <1>3, <2>5 DEF HlcAt
<1>5. PICK e \in Edits(s, f) : fieldHlc[s][f] = HlcAt(e)
  <2>1. HlcOf[w] \in Nat \ {0}
      BY HlcUnique
  <2>2. f \in Field /\ fieldHlc[s][f] \in Nat
      BY DEF Field, TypeOK
  <2>3. fieldHlc[s][f] \in {0} \cup {HlcAt(k) : k \in Edits(s, f)}
      BY <2>2 DEF NewestStamp
  <2> QED
      BY <1>4, <2>1, <2>2, <2>3
<1>6. e \in DOMAIN stream /\ stream[e].batch = w
  <2>1. HlcAt(e) = HlcOf[w]
      BY <1>2, <1>4, <1>5, HlcUnique
  <2> QED
      BY <1>2, <1>s, <2>1, HlcUnique DEF HlcAt
<1>7. e \in StandingEdits(s, f) /\ \A k \in StandingEdits(s, f) : HlcAt(k) <= HlcAt(e)
  <2>1. e \in StandingEdits(s, f)
      BY <1>1, <1>2 DEF StandingEdits
  <2>2. StandingEdits(s, f) \subseteq Edits(s, f) /\ HlcAt(e) = HlcOf[w]
      BY <1>6 DEF StandingEdits, HlcAt
  <2> QED
      BY <1>2, <2>1, <2>2
<1>8. store[s].scalar[f] = ScalarAfter(stream[e].patches, s, f, Missing)
    BY <1>7 DEF NewestShows
<1>9. ScalarAfter(stream[e].patches, s, f, Missing) = ScalarAfter(batch[w], s, f, Missing)
  <2> DEFINE part == stream[e].patches
             whole == batch[w]
  <2>1. PICK i \in DOMAIN part : Stamped(part[i]) /\ part[i].on = s /\ part[i].prop = f
      BY DEF Edits
  <2>2. \A j \in DOMAIN part : j \in DOMAIN whole /\ part[j] = whole[j]
      BY <1>6, <1>p
  <2>3. \A j \in DOMAIN whole :
            Stamped(whole[j]) /\ whole[j].on = s /\ whole[j].prop = f => j \in DOMAIN part
      BY <1>6, <2>1, <2>2 DEF Provenance
  <2>4. IsBatch(part, MaxBatch) /\ IsBatch(whole, MaxBatch) /\ MaxBatch \in Nat
      BY <1>6, <1>p, <1>b, ShapesArePatchLists
  <2>5. \A j \in DOMAIN whole : whole[j] # Drop(s)
      OBVIOUS
  <2> HIDE DEF part, whole
  <2>6. ScalarAfter(part, s, f, Missing) = ScalarAfter(whole, s, f, Missing)
      BY <2>2, <2>3, <2>4, <2>5, PartWritesWhole
  <2> QED
      BY <2>6 DEF part, whole
<1> QED
    BY <1>8, <1>9

\* Whatever the order in which batches arrive, and however often, a scalar shows the
\* newest accepted edit since the record's last deletion, and of a record nobody
\* deletes the newest edit of all once its node was told that it is accepted: newest
\* by stamp, where the script only ever compares with the stamp of the property.
THEOREM LastWriterAlwaysWins == Spec => []LastWriterWins
<1>1. Init => NewestStamp /\ NewestShows /\ Provenance /\ LeftOut
    BY EmptySeq, LenProperties
    DEF Init, NewestStamp, NewestShows, Provenance, LeftOut, StandingEdits, Edits
<1>2. TypeOK /\ NewestStamp /\ NewestShows /\ Provenance /\ LeftOut /\ [Next]_vars
        => NewestStamp' /\ NewestShows' /\ Provenance' /\ LeftOut'
    BY StepNewestStamp, StepShows, StepProvenance, StepLeftOut
<1>3. TypeOK /\ NewestStamp /\ NewestShows /\ Provenance /\ LeftOut /\ AcknowledgedIsInStream
        => LastWriterWins
  <2>1. NewestShows /\ Intact => StreamOrderedByHlc
      BY DEF NewestShows, StreamOrderedByHlc
  <2> QED
      BY <2>1, NewestStands DEF LastWriterWins
<1> QED
    BY <1>1, <1>2, <1>3, TypeCorrect, AcknowledgedAlways, PTL DEF Spec

-----------------------------------------------------------------------------
(* The vault of the system is VaultStore. *)

LEMMA SyncStepsAreVaultSteps == [SyncNext]_syncVars => [Next]_vars
<1> SUFFICES ASSUME [SyncNext]_syncVars PROVE [Next]_vars
    OBVIOUS
<1>1. ASSUME NEW b \in BatchId, NEW shape \in Shape, Enqueue(b, shape)
      PROVE  Next
    BY <1>1 DEF Enqueue, Next
<1>2. ASSUME NEW r \in Request, Arrive(r)
      PROVE  Next
    BY <1>2 DEF Arrive, Rejecting, Accepting, Deliver, Next, Request
<1>3. ASSUME NEW n \in Node,
             \/ Persist(n) \/ Flush(n) \/ Cut(n) \/ Connect(n) \/ Break(n)
             \/ NativeRetry(n) \/ Receive(n) \/ ReceiveSnapshot(n)
             \/ LoseSnapshot(n) \/ AdoptSnapshot(n) \/ Reload(n) \/ Kill(n)
      PROVE  UNCHANGED vars
    BY <1>3 DEF Persist, Flush, Send, Answered, Unanswered, Cut, Connect,
                Break, NativeRetry, Receive, ReceiveSnapshot, LoseSnapshot, AdoptSnapshot,
                Reload, Kill, Restart, vault
<1>4. UNCHANGED syncVars => UNCHANGED vars
    BY DEF syncVars, vault
<1> QED
    BY <1>1, <1>2, <1>3, <1>4 DEF SyncNext

\* Every step of the system is a step of the vault or leaves it alone, so
\* what is proved above of Spec holds among nodes that queue, lose,
\* repeat and restart as the sync engine does.
THEOREM SyncImplementsVault == SyncSpec => Spec
<1>1. SyncInit => Init
    BY DEF SyncInit
<1> QED
    BY <1>1, SyncStepsAreVaultSteps, PTL DEF SyncSpec, Spec

-----------------------------------------------------------------------------
(* Queues. *)

\* Removing an element of a queue leaves the others in it, in their order.
LEMMA WithoutKeepsOthers ==
    ASSUME NEW S, NEW q \in Seq(S), NEW e
    PROVE  LET w == Without(q, e)
           IN  /\ w \in Seq(S)
               /\ Range(w) \subseteq Range(q)
               /\ \A c \in Range(q) : c # e => c \in Range(w)
               /\ \A i, j \in DOMAIN w : i < j =>
                     \E k, l \in DOMAIN q : k < l /\ q[k] = w[i] /\ q[l] = w[j]
<1> DEFINE w == Without(q, e)
<1>0. DOMAIN q = 1 .. Len(q) /\ Len(q) \in Nat
    BY LenProperties
<1>1. CASE e \notin Range(q)
  <2>1. w = q
      BY <1>1 DEF Without
  <2> QED
      BY <2>1
<1>2. CASE e \in Range(q)
  <2> DEFINE at == CHOOSE i \in DOMAIN q : q[i] = e
             front == SubSeq(q, 1, at - 1)
             back == SubSeq(q, at + 1, Len(q))
  <2>1. at \in 1 .. Len(q) /\ q[at] = e
      BY <1>0, <1>2 DEF Range
  <2>2. w = front \o back
      BY <1>2 DEF Without, RemoveAt
  <2>3. /\ front \in Seq(S) /\ Len(front) = at - 1
        /\ \A i \in 1 .. at - 1 : front[i] = q[i]
    <3> HIDE DEF at
    <3>1. \A i \in 1 .. at - 1 : q[i] \in S
        BY <2>1
    <3> QED
        BY <2>1, <3>1, SubSeqProperties
  <2>4. /\ back \in Seq(S) /\ Len(back) = Len(q) - at
        /\ \A i \in 1 .. Len(q) - at : back[i] = q[at + i]
    <3> HIDE DEF at
    <3>1. \A i \in at + 1 .. Len(q) : q[i] \in S
        BY <2>1
    <3> QED
        BY <2>1, <3>1, SubSeqProperties
  <2> HIDE DEF at, front, back, w
  <2>5. /\ w \in Seq(S) /\ Len(w) = Len(front) + Len(back)
        /\ \A i \in 1 .. Len(front) + Len(back) : w[i] =
              IF i <= Len(front) THEN front[i] ELSE back[i - Len(front)]
      BY <2>2, <2>3, <2>4, ConcatProperties
  <2>6. Len(front) + Len(back) = Len(q) - 1
      BY <2>1, <2>3, <2>4
  <2>7. DOMAIN w = 1 .. Len(q) - 1
      BY <2>5, <2>6, LenProperties
  <2>8. \A i \in 1 .. Len(q) - 1 : i < at => w[i] = q[i]
      BY <2>1, <2>3, <2>5, <2>6
  <2>9. ASSUME NEW i \in 1 .. Len(q) - 1, i >= at
        PROVE  w[i] = q[i + 1]
    <3>1. /\ ~(i <= at - 1) /\ i - (at - 1) \in 1 .. Len(q) - at
          /\ at + (i - (at - 1)) = i + 1
        BY <2>1, <2>9
    <3>2. w[i] = back[i - (at - 1)]
        BY <2>3, <2>5, <2>6, <3>1
    <3> QED
        BY <2>4, <3>1, <3>2
  <2>10. Range(w) \subseteq Range(q)
    <3>1. ASSUME NEW i \in 1 .. Len(q) - 1
          PROVE  w[i] \in Range(q)
      <4>1. i \in 1 .. Len(q) /\ i + 1 \in 1 .. Len(q)
          BY <1>0
      <4> QED
          BY <1>0, <2>1, <2>8, <2>9, <4>1 DEF Range
    <3> QED
        BY <2>7, <3>1 DEF Range
  <2>11. ASSUME NEW c \in Range(q), c # e
         PROVE  c \in Range(w)
    <3>1. PICK k \in 1 .. Len(q) : q[k] = c
        BY <1>0 DEF Range
    <3>2. CASE k < at
      <4>1. k \in DOMAIN w /\ w[k] = c
          BY <2>1, <2>7, <2>8, <3>1, <3>2
      <4> QED
          BY <4>1 DEF Range
    <3>3. CASE k > at
      <4>1. k - 1 \in 1 .. Len(q) - 1 /\ k - 1 >= at /\ (k - 1) + 1 = k
          BY <2>1, <3>1, <3>3
      <4>2. k - 1 \in DOMAIN w /\ w[k - 1] = c
          BY <2>7, <2>9, <3>1, <4>1
      <4> QED
          BY <4>2 DEF Range
    <3> QED
        BY <2>1, <2>11, <3>1, <3>2, <3>3
  <2>12. ASSUME NEW i \in 1 .. Len(q) - 1, NEW j \in 1 .. Len(q) - 1, i < j
         PROVE  \E k, l \in 1 .. Len(q) : k < l /\ q[k] = w[i] /\ q[l] = w[j]
    <3>1. /\ i \in 1 .. Len(q) /\ i + 1 \in 1 .. Len(q)
          /\ j \in 1 .. Len(q) /\ j + 1 \in 1 .. Len(q)
          /\ i < j + 1 /\ i + 1 < j + 1
        BY <1>0, <2>12
    <3>2. CASE j < at
        BY <2>1, <2>8, <2>12, <3>1, <3>2
    <3>3. CASE i < at /\ j >= at
        BY <2>8, <2>9, <3>1, <3>3
    <3>4. CASE i >= at
      <4>1. j >= at
          BY <2>1, <2>12, <3>4
      <4> QED
          BY <2>9, <3>1, <3>4, <4>1
    <3> QED
        BY <2>1, <3>2, <3>3, <3>4
  <2>13. ASSUME NEW i \in DOMAIN w, NEW j \in DOMAIN w, i < j
         PROVE  \E k, l \in DOMAIN q : k < l /\ q[k] = w[i] /\ q[l] = w[j]
    <3>1. i \in 1 .. Len(q) - 1 /\ j \in 1 .. Len(q) - 1
        BY <2>7
    <3>2. PICK k \in 1 .. Len(q), l \in 1 .. Len(q) :
             k < l /\ q[k] = w[i] /\ q[l] = w[j]
        BY <2>12, <2>13, <3>1
    <3>3. k \in DOMAIN q /\ l \in DOMAIN q
        BY <1>0
    <3> QED
        BY <3>2, <3>3
  <2> QED
      BY <2>5, <2>10, <2>11, <2>13 DEF w
<1> QED
    BY <1>1, <1>2

LEMMA AppendedIsLast ==
    ASSUME NEW S, NEW q \in Seq(S), NEW e \in S
    PROVE  LET w == Append(q, e)
           IN  /\ w \in Seq(S)
               /\ Range(w) = Range(q) \cup {e}
               /\ \A i, j \in DOMAIN w : i < j =>
                     /\ i \in DOMAIN q /\ w[i] = q[i]
                     /\ \/ j \in DOMAIN q /\ w[j] = q[j]
                        \/ w[j] = e
<1> DEFINE w == Append(q, e)
<1>1. DOMAIN q = 1 .. Len(q) /\ Len(q) \in Nat
    BY LenProperties
<1>2. /\ w \in Seq(S) /\ Len(w) = Len(q) + 1
      /\ \A i \in 1 .. Len(q) : w[i] = q[i]
      /\ w[Len(q) + 1] = e
    BY AppendProperties
<1>3. DOMAIN w = 1 .. Len(q) + 1
    BY <1>2, LenProperties
<1> HIDE DEF w
<1>4. Range(w) = Range(q) \cup {e}
  <2>1. ASSUME NEW i \in 1 .. Len(q) + 1
        PROVE  w[i] \in Range(q) \cup {e}
    <3>1. CASE i = Len(q) + 1
        BY <1>2, <3>1
    <3>2. CASE i # Len(q) + 1
      <4>1. i \in 1 .. Len(q)
          BY <1>1, <3>2
      <4> QED
          BY <1>1, <1>2, <4>1 DEF Range
    <3> QED
        BY <3>1, <3>2
  <2>2. \A i \in 1 .. Len(q) : i \in 1 .. Len(q) + 1
      BY <1>1
  <2>3. Len(q) + 1 \in 1 .. Len(q) + 1
      BY <1>1
  <2>4. Range(q) \subseteq Range(w)
      BY <1>1, <1>2, <1>3, <2>2 DEF Range
  <2>5. e \in Range(w)
      BY <1>2, <1>3, <2>3 DEF Range
  <2> QED
      BY <1>3, <2>1, <2>4, <2>5 DEF Range
<1>5. ASSUME NEW i \in 1 .. Len(q) + 1, NEW j \in 1 .. Len(q) + 1, i < j
      PROVE  /\ i \in 1 .. Len(q) /\ w[i] = q[i]
             /\ \/ j \in 1 .. Len(q) /\ w[j] = q[j]
                \/ w[j] = e
  <2>1. i \in 1 .. Len(q)
      BY <1>1, <1>5
  <2>2. j \in 1 .. Len(q) \/ j = Len(q) + 1
      BY <1>1
  <2> QED
      BY <1>2, <2>1, <2>2
<1> QED
    BY <1>1, <1>2, <1>3, <1>4, <1>5 DEF w

-----------------------------------------------------------------------------
(* What becomes of an edit on its way to the vault. *)

\* A batch that is done has left its node's queue.
Done(b) == batch[b] # Unminted /\ b \notin Range(outbox[NodeOf[b]])

\* A batch whose node's earlier ones are all done.
IsNext(b) ==
    /\ batch[b] # Unminted
    /\ \A c \in BatchId : NodeOf[c] = NodeOf[b] /\ HlcOf[c] < HlcOf[b] => Done(c)

FlowTypes ==
    /\ outbox \in [Node -> Seq(BatchId)]
    /\ awaiting \in [Node -> Request \cup {Idle}]
    /\ reply \in [Node -> {"none", "accepted", "rejected", "lost"}]
    /\ wire \subseteq Request
    /\ mishaps \in 0 .. MaxMishaps

\* A queue holds its node's batches in the order of their stamps.
QueuesInOrder ==
    \A n \in Node :
        /\ \A b \in Range(outbox[n]) : NodeOf[b] = n /\ batch[b] # Unminted
        /\ \A i, j \in DOMAIN outbox[n] :
              i < j => HlcOf[outbox[n][i]] < HlcOf[outbox[n][j]]

\* Stamps grow: a batch is minted after the ones with lower stamps.
MintedInOrder ==
    \A b, c \in BatchId :
        /\ NodeOf[c] = NodeOf[b] /\ HlcOf[c] < HlcOf[b]
        /\ batch[b] # Unminted
        => batch[c] # Unminted

\* The flush loop waits for a batch of the queue and has heard what it says.
AwaitedIsQueued ==
    \A n \in Node :
        /\ awaiting[n] # Idle => awaiting[n].batch \in Range(outbox[n])
        /\ reply[n] \in {"accepted", "rejected"} =>
              awaiting[n] # Idle /\ answer[awaiting[n].batch] # "none"

\* Requests and entries of the stream come when the earlier batches are done.
SentInOrder ==
    /\ \A r \in wire : IsNext(r.batch)
    /\ \A k \in DOMAIN stream : IsNext(stream[k].batch)

\* The script has a record of every entry and of every acceptance it tells,
\* and no batch is there twice.
RecordKept ==
    /\ meta = "live"
    /\ \A b \in BatchId : answer[b] = "accepted" => dedup[b] # 0
    /\ \A k \in DOMAIN stream : dedup[stream[k].batch] # 0
    /\ \A i, j \in DOMAIN stream : i # j => stream[i].batch # stream[j].batch

Delivery ==
    /\ FlowTypes
    /\ QueuesInOrder
    /\ MintedInOrder
    /\ AwaitedIsQueued
    /\ SentInOrder
    /\ RecordKept
    /\ UnansweredIsQueued
    /\ OwnBatchesInOrder

LEMMA InitDelivery == SyncInit => Delivery
<1> SUFFICES ASSUME SyncInit PROVE Delivery
    OBVIOUS
<1>1. /\ batch = [b \in BatchId |-> Unminted]
      /\ answer = [b \in BatchId |-> "none"]
      /\ meta = "live" /\ stream = <<>>
    BY DEF SyncInit, Init
<1>2. /\ outbox = [n \in Node |-> <<>>] /\ awaiting = [n \in Node |-> Idle]
      /\ reply = [n \in Node |-> "none"] /\ wire = {} /\ mishaps = 0
    BY DEF SyncInit
<1>3. <<>> \in Seq(BatchId) /\ DOMAIN <<>> = {}
    BY EmptySeq, LenProperties
<1>4. FlowTypes
    BY <1>2, <1>3, SyncBounds DEF FlowTypes
<1>5. QueuesInOrder /\ AwaitedIsQueued
    BY <1>2, <1>3 DEF QueuesInOrder, AwaitedIsQueued, Range
<1>6. MintedInOrder /\ UnansweredIsQueued
    BY <1>1 DEF MintedInOrder, UnansweredIsQueued
<1>7. SentInOrder /\ RecordKept /\ OwnBatchesInOrder
  <2>1. DOMAIN stream = {}
      BY <1>1, <1>3
  <2> QED
      BY <1>1, <1>2, <2>1 DEF SentInOrder, RecordKept, OwnBatchesInOrder
<1> QED
    BY <1>4, <1>5, <1>6, <1>7 DEF Delivery

\* What a request does when it gets to the vault.
LEMMA ArriveFacts ==
    ASSUME TypeOK, FlowTypes, meta = "live", NEW r \in Request, Arrive(r)
    PROVE  /\ r \in wire /\ wire' = wire \ {r}
           /\ UNCHANGED <<outbox, awaiting, batch, meta>>
           /\ \A c \in BatchId : dedup[c] # 0 => dedup'[c] # 0
           /\ \/ UNCHANGED <<answer, reply>>
              \/ /\ awaiting[NodeOf[r.batch]] = r
                 /\ \E verdict \in {"accepted", "rejected"} :
                       /\ reply' = [reply EXCEPT ![NodeOf[r.batch]] = verdict]
                       /\ answer' = [answer EXCEPT ![r.batch] = verdict]
                       /\ verdict = "accepted" => dedup'[r.batch] # 0
                       /\ verdict = "rejected" => dedup[r.batch] = 0
           /\ \/ Commit(r.batch) /\ dedup[r.batch] = 0 /\ dedup'[r.batch] # 0
              \/ UNCHANGED <<stream, dedup>>
<1> DEFINE b == r.batch
<1>1. b \in BatchId
    BY DEF Request
<1>2. r \in wire /\ wire' = wire \ {r} /\ UNCHANGED <<outbox, awaiting>>
    BY DEF Arrive, disk
<1>3. CASE Rejecting(b) /\ Hear(r, "rejected")
  <2>1. dedup[b] = 0 /\ UNCHANGED <<batch, meta, stream, dedup>>
      BY <1>3 DEF Rejecting, RejectDeleting, RejectAll, RejectQuota, Reject,
                  Undecided
  <2> QED
      BY <1>1, <1>2, <1>3, <2>1 DEF Hear
<1>4. CASE Accepting(b) /\ Hear(r, "accepted")
  <2>1. CASE AnswerAgain(b)
    <3>1. dedup[b] # 0 /\ UNCHANGED <<batch, meta, stream, dedup>>
        BY <2>1 DEF AnswerAgain
    <3> QED
        BY <1>1, <1>2, <1>4, <3>1 DEF Hear
  <2>2. CASE Commit(b)
    <3>1. /\ UNCHANGED <<batch, meta>>
          /\ dedup[b] = 0
          /\ \A c \in BatchId : c # b => dedup'[c] = dedup[c]
          /\ dedup'[b] # 0
        BY <1>1, <2>2 DEF Commit, Undecided, TypeOK
    <3> QED
        BY <1>1, <1>2, <1>4, <2>2, <3>1 DEF Hear
  <2> QED
      BY <1>4, <2>1, <2>2 DEF Accepting
<1> QED
    BY <1>3, <1>4 DEF Arrive

\* What the steps change that neither edit, send, deliver nor take an answer.
LEMMA OtherSteps ==
    ASSUME FlowTypes, NEW n \in Node,
           \/ Persist(n) \/ Unanswered(n) \/ Cut(n) \/ Connect(n) \/ Break(n)
           \/ NativeRetry(n) \/ Receive(n) \/ ReceiveSnapshot(n)
           \/ LoseSnapshot(n) \/ AdoptSnapshot(n) \/ Reload(n) \/ Kill(n)
    PROVE  /\ UNCHANGED <<vars, outbox>>
           /\ wire' \subseteq wire
           /\ mishaps' \in 0 .. MaxMishaps
           /\ awaiting' \in [Node -> Request \cup {Idle}]
           /\ reply' \in [Node -> {"none", "accepted", "rejected", "lost"}]
           /\ \A m \in Node :
                 \/ awaiting'[m] = awaiting[m] /\ reply'[m] \in {reply[m], "lost"}
                 \/ awaiting'[m] = Idle /\ reply'[m] = "none"
<1>1. CASE \/ Persist(n) \/ Connect(n) \/ Break(n) \/ NativeRetry(n) \/ Receive(n)
           \/ ReceiveSnapshot(n) \/ LoseSnapshot(n) \/ AdoptSnapshot(n)
  <2>0. mishaps' \in 0 .. MaxMishaps
    <3>1. mishaps' = mishaps \/ Mishap
        BY <1>1 DEF Persist, Connect, Break, NativeRetry, Receive,
                    ReceiveSnapshot, LoseSnapshot, AdoptSnapshot
    <3> QED
        BY <3>1, SyncBounds DEF Mishap, FlowTypes
  <2>1. UNCHANGED <<vars, outbox, wire, awaiting, reply>>
      BY <1>1 DEF Persist, Connect, Break, NativeRetry, Receive,
                  ReceiveSnapshot, LoseSnapshot, AdoptSnapshot, vault, flow, disk
  <2> QED
      BY <2>0, <2>1 DEF FlowTypes
<1>2. CASE Unanswered(n)
    BY <1>2 DEF Unanswered, FlowTypes, vault, disk
<1>3. CASE Cut(n)
    BY <1>3, SyncBounds DEF Cut, Mishap, FlowTypes, vault, disk
<1>4. CASE Reload(n) \/ Kill(n)
  <2>1. \E records : Restart(n, records)
      BY <1>4 DEF Reload, Kill
  <2>2. /\ UNCHANGED <<vars, outbox, wire>>
        /\ mishaps < MaxMishaps /\ mishaps' = mishaps + 1
        /\ awaiting' = [awaiting EXCEPT ![n] = Idle]
        /\ reply' = [reply EXCEPT ![n] = "none"]
      BY <2>1 DEF Restart, Mishap, vault
  <2>3. mishaps' \in 0 .. MaxMishaps
      BY <2>2, SyncBounds DEF FlowTypes
  <2> QED
      BY <2>2, <2>3 DEF FlowTypes
<1> QED
    BY <1>1, <1>2, <1>3, <1>4

LEMMA StepDelivery == TypeOK /\ Delivery /\ [SyncNext]_syncVars => Delivery'
<1> SUFFICES ASSUME TypeOK, Delivery, [SyncNext]_syncVars
             PROVE  Delivery'
    OBVIOUS
<1>0. /\ FlowTypes /\ QueuesInOrder /\ MintedInOrder /\ AwaitedIsQueued
      /\ SentInOrder /\ RecordKept /\ UnansweredIsQueued /\ OwnBatchesInOrder
    BY DEF Delivery
<1>t. /\ \A n \in Node : outbox[n] \in Seq(BatchId)
      /\ \A n \in Node : Range(outbox[n]) \subseteq BatchId
      /\ \A k \in DOMAIN stream : stream[k].batch \in BatchId
      /\ NodeOf \in [BatchId -> Node]
      /\ \A b \in BatchId : HlcOf[b] \in Nat
  <2>1. \A n \in Node : outbox[n] \in Seq(BatchId)
      BY <1>0 DEF FlowTypes
  <2>2. \A n \in Node : Range(outbox[n]) \subseteq BatchId
      BY <2>1, ElementOfSeq, LenProperties DEF Range
  <2>3. \A k \in DOMAIN stream : stream[k].batch \in BatchId
    <3>1. stream \in Seq(Entry)
        BY DEF TypeOK
    <3>2. \A k \in DOMAIN stream : stream[k] \in Entry
        BY <3>1, ElementOfSeq, LenProperties
    <3> QED
        BY <3>2 DEF Entry
  <2> QED
      BY <2>1, <2>2, <2>3, NodesOfBatches, HlcUnique
<1>5. ASSUME UNCHANGED <<vars, outbox>>,
             wire' \subseteq wire,
             mishaps' \in 0 .. MaxMishaps,
             awaiting' \in [Node -> Request \cup {Idle}],
             reply' \in [Node -> {"none", "accepted", "rejected", "lost"}],
             \A m \in Node :
                \/ awaiting'[m] = awaiting[m] /\ reply'[m] \in {reply[m], "lost"}
                \/ awaiting'[m] = Idle /\ reply'[m] = "none"
      PROVE  Delivery'
  <2>1. FlowTypes'
      BY <1>0, <1>5 DEF FlowTypes
  <2>2. QueuesInOrder' /\ MintedInOrder' /\ RecordKept' /\ UnansweredIsQueued'
      BY <1>0, <1>5 DEF QueuesInOrder, MintedInOrder, RecordKept,
                        UnansweredIsQueued, vars
  <2>3. AwaitedIsQueued'
      BY <1>0, <1>5 DEF AwaitedIsQueued, vars
  <2>4. SentInOrder'
      BY <1>0, <1>5 DEF SentInOrder, IsNext, Done, vars
  <2>5. OwnBatchesInOrder'
      BY <1>0, <1>5 DEF OwnBatchesInOrder, HlcAt, vars
  <2> QED
      BY <2>1, <2>2, <2>3, <2>4, <2>5 DEF Delivery
<1>6. ASSUME NEW n \in Node, Send(n)
      PROVE  Delivery'
  <2> DEFINE b == Head(outbox[n])
             r == [batch |-> b, try |-> mishaps]
  <2>1. /\ 1 \in DOMAIN outbox[n] /\ b = outbox[n][1]
        /\ DOMAIN outbox[n] = 1 .. Len(outbox[n]) /\ Len(outbox[n]) \in Nat
    <3>1. outbox[n] # <<>>
        BY <1>6 DEF Send
    <3> QED
        BY <1>t, <3>1, EmptySeq, LenProperties
  <2>2. b \in Range(outbox[n]) /\ b \in BatchId
      BY <1>t, <2>1 DEF Range
  <2>3. r \in Request /\ r.batch = b
      BY <1>0, <2>2 DEF Request, FlowTypes
  <2> HIDE DEF b
  <2>4. /\ UNCHANGED <<vars, outbox, mishaps>>
        /\ awaiting' = [awaiting EXCEPT ![n] = r]
        /\ reply' = [reply EXCEPT ![n] = "none"]
        /\ wire' = wire \cup {r}
      BY <1>6 DEF Send, vault, disk, b
  <2> HIDE DEF r
  <2>5. FlowTypes'
      BY <1>0, <2>3, <2>4 DEF FlowTypes
  <2>6. QueuesInOrder' /\ MintedInOrder' /\ RecordKept' /\ UnansweredIsQueued'
      BY <1>0, <2>4 DEF QueuesInOrder, MintedInOrder, RecordKept,
                        UnansweredIsQueued, vars
  <2>7. AwaitedIsQueued'
    <3>1. answer' = answer /\ outbox' = outbox
        BY <2>4 DEF vars
    <3> QED
        BY <1>0, <2>2, <2>3, <2>4, <3>1 DEF AwaitedIsQueued, FlowTypes
  <2>8. IsNext(b)
    <3>1. NodeOf[b] = n /\ batch[b] # Unminted
        BY <1>0, <2>2 DEF QueuesInOrder
    <3>2. ASSUME NEW c \in BatchId, NodeOf[c] = n, HlcOf[c] < HlcOf[b]
          PROVE  Done(c)
      <4>1. batch[c] # Unminted
          BY <1>0, <2>2, <3>1, <3>2 DEF MintedInOrder
      <4>2. ASSUME c \in Range(outbox[n]) PROVE FALSE
        <5>1. PICK i \in DOMAIN outbox[n] : outbox[n][i] = c
            BY <4>2 DEF Range
        <5>2. i = 1 \/ 1 < i
            BY <2>1
        <5>3. CASE i = 1
            BY <1>t, <2>1, <2>2, <3>2, <5>1, <5>3
        <5>4. CASE 1 < i
          <6>1. HlcOf[b] < HlcOf[c]
              BY <1>0, <2>1, <5>1, <5>4 DEF QueuesInOrder
          <6> QED
              BY <1>t, <2>2, <3>2, <6>1
        <5> QED
            BY <5>2, <5>3, <5>4
      <4> QED
          BY <3>2, <4>1, <4>2 DEF Done
    <3> QED
        BY <3>1, <3>2 DEF IsNext
  <2>9. SentInOrder'
    <3>1. \A q \in wire' : IsNext(q.batch)
        BY <1>0, <2>3, <2>4, <2>8 DEF SentInOrder
    <3> QED
        BY <1>0, <2>4, <3>1 DEF SentInOrder, IsNext, Done, vars
  <2>10. OwnBatchesInOrder'
      BY <1>0, <2>4 DEF OwnBatchesInOrder, HlcAt, vars
  <2> QED
      BY <2>5, <2>6, <2>7, <2>9, <2>10 DEF Delivery
<1>7. ASSUME NEW n \in Node, Answered(n)
      PROVE  Delivery'
  <2> DEFINE b == awaiting[n].batch
             w == Without(outbox[n], b)
  <2>1. /\ UNCHANGED <<vars, wire, mishaps>>
        /\ outbox' = [outbox EXCEPT ![n] = w]
        /\ awaiting' = [awaiting EXCEPT ![n] = Idle]
        /\ reply' = [reply EXCEPT ![n] = "none"]
        /\ reply[n] \in {"accepted", "rejected"}
      BY <1>7 DEF Answered, vault
  <2>2. /\ w \in Seq(BatchId)
        /\ Range(w) \subseteq Range(outbox[n])
        /\ \A c \in Range(outbox[n]) : c # b => c \in Range(w)
        /\ \A i, j \in DOMAIN w : i < j =>
              \E k, l \in DOMAIN outbox[n] :
                  k < l /\ outbox[n][k] = w[i] /\ outbox[n][l] = w[j]
      BY <1>t, WithoutKeepsOthers
  <2>3. b \in Range(outbox[n]) /\ answer[b] # "none"
      BY <1>0, <2>1 DEF AwaitedIsQueued
  <2> HIDE DEF b, w
  <2>4. \A m \in Node : outbox'[m] = IF m = n THEN w ELSE outbox[m]
      BY <1>0, <2>1 DEF FlowTypes
  <2>5. FlowTypes'
      BY <1>0, <2>1, <2>2 DEF FlowTypes
  <2>6. QueuesInOrder'
    <3>1. batch' = batch
        BY <2>1 DEF vars
    <3>2. ASSUME NEW i \in DOMAIN w, NEW j \in DOMAIN w, i < j
          PROVE  HlcOf[w[i]] < HlcOf[w[j]]
        BY <1>0, <2>2, <3>2 DEF QueuesInOrder
    <3>3. \A c \in Range(w) : NodeOf[c] = n /\ batch[c] # Unminted
        BY <1>0, <2>2 DEF QueuesInOrder
    <3>4. ASSUME NEW m \in Node
          PROVE  /\ \A c \in Range(outbox'[m]) : NodeOf[c] = m /\ batch[c] # Unminted
                 /\ \A i, j \in DOMAIN outbox'[m] :
                       i < j => HlcOf[outbox'[m][i]] < HlcOf[outbox'[m][j]]
      <4>1. CASE m = n
          BY <2>4, <3>2, <3>3, <4>1
      <4>2. CASE m # n
          BY <1>0, <2>4, <4>2 DEF QueuesInOrder
      <4> QED
          BY <4>1, <4>2
    <3> QED
        BY <3>1, <3>4 DEF QueuesInOrder
  <2>7. MintedInOrder' /\ RecordKept'
      BY <1>0, <2>1 DEF MintedInOrder, RecordKept, vars
  <2>8. UnansweredIsQueued'
    <3>1. ASSUME NEW c \in BatchId, batch[c] # Unminted, answer[c] = "none"
          PROVE  c \in Range(outbox'[NodeOf[c]])
      <4>1. c \in Range(outbox[NodeOf[c]]) /\ c # b /\ NodeOf[c] \in Node
          BY <1>0, <1>t, <2>3, <3>1 DEF UnansweredIsQueued
      <4> QED
          BY <2>2, <2>4, <4>1
    <3> QED
        BY <2>1, <3>1 DEF UnansweredIsQueued, vars
  <2>9. AwaitedIsQueued'
    <3>1. ASSUME NEW m \in Node
          PROVE  /\ awaiting'[m] # Idle => awaiting'[m].batch \in Range(outbox'[m])
                 /\ reply'[m] \in {"accepted", "rejected"} =>
                       awaiting'[m] # Idle /\ answer[awaiting'[m].batch] # "none"
      <4>1. CASE m = n
          BY <1>0, <2>1, <4>1 DEF FlowTypes
      <4>2. CASE m # n
          BY <1>0, <2>1, <2>4, <4>2 DEF FlowTypes, AwaitedIsQueued
      <4> QED
          BY <4>1, <4>2
    <3> QED
        BY <2>1, <3>1 DEF AwaitedIsQueued, vars
  <2>10. ASSUME NEW x \in BatchId, IsNext(x)
         PROVE  IsNext(x)'
    <3>1. ASSUME NEW c \in BatchId, Done(c)
          PROVE  batch[c] # Unminted /\ c \notin Range(outbox'[NodeOf[c]])
        BY <1>t, <2>2, <2>4, <3>1 DEF Done
    <3>2. \A c \in BatchId : Done(c) => Done(c)'
        BY <2>1, <3>1 DEF Done, vars
    <3> QED
        BY <2>1, <2>10, <3>2 DEF IsNext, vars
  <2>11. SentInOrder'
    <3>1. \A q \in wire : q.batch \in BatchId
        BY <1>0 DEF FlowTypes, Request
    <3> QED
        BY <1>0, <1>t, <2>1, <2>10, <3>1 DEF SentInOrder, vars
  <2>12. OwnBatchesInOrder'
      BY <1>0, <2>1 DEF OwnBatchesInOrder, HlcAt, vars
  <2> QED
      BY <2>5, <2>6, <2>7, <2>8, <2>9, <2>11, <2>12 DEF Delivery
<1>8. ASSUME NEW b \in BatchId, NEW shape \in Shape, Enqueue(b, shape)
      PROVE  Delivery'
  <2> DEFINE n == NodeOf[b]
             w == Append(outbox[n], b)
  <2>1. /\ batch[b] = Unminted /\ batch' = [batch EXCEPT ![b] = shape]
        /\ UNCHANGED <<answer, meta, stream, dedup, awaiting, reply, wire, mishaps>>
        /\ outbox' = [outbox EXCEPT ![n] = w]
        /\ Stampable(b)
      BY <1>8 DEF Enqueue, Mint, flow
  <2>2. n \in Node /\ outbox[n] \in Seq(BatchId)
      BY <1>t
  <2>3. /\ w \in Seq(BatchId)
        /\ Range(w) = Range(outbox[n]) \cup {b}
        /\ \A i, j \in DOMAIN w : i < j =>
              /\ i \in DOMAIN outbox[n] /\ w[i] = outbox[n][i]
              /\ \/ j \in DOMAIN outbox[n] /\ w[j] = outbox[n][j]
                 \/ w[j] = b
      BY <2>2, AppendedIsLast
  <2> HIDE DEF w
  <2>4. /\ \A m \in Node : outbox'[m] = IF m = n THEN w ELSE outbox[m]
        /\ \A c \in BatchId : batch'[c] = IF c = b THEN shape ELSE batch[c]
        /\ shape # Unminted
      BY <1>0, <2>1, UnmintedIsNoShape DEF FlowTypes, TypeOK
  <2>5. \A c \in BatchId : NodeOf[c] = n => (batch[c] # Unminted <=> HlcOf[c] < HlcOf[b])
      BY <1>t, <2>1 DEF Stampable
  <2>6. FlowTypes'
      BY <1>0, <2>1, <2>3 DEF FlowTypes
  <2>7. QueuesInOrder'
    <3>1. \A c \in Range(outbox[n]) : NodeOf[c] = n /\ batch[c] # Unminted
        BY <1>0, <2>2 DEF QueuesInOrder
    <3>2. \A c \in Range(w) : NodeOf[c] = n /\ batch'[c] # Unminted
        BY <1>t, <2>2, <2>3, <2>4, <3>1
    <3>3. ASSUME NEW i \in DOMAIN w, NEW j \in DOMAIN w, i < j
          PROVE  HlcOf[w[i]] < HlcOf[w[j]]
      <4>1. w[i] = outbox[n][i] /\ i \in DOMAIN outbox[n]
          BY <2>3, <3>3
      <4>2. CASE j \in DOMAIN outbox[n] /\ w[j] = outbox[n][j]
          BY <1>0, <2>2, <3>3, <4>1, <4>2 DEF QueuesInOrder
      <4>3. CASE w[j] = b
        <5>1. w[i] \in Range(outbox[n])
            BY <4>1 DEF Range
        <5>2. w[i] \in BatchId
            BY <1>t, <2>2, <5>1
        <5> QED
            BY <2>5, <3>1, <4>3, <5>1, <5>2
      <4> QED
          BY <2>3, <3>3, <4>2, <4>3
    <3>4. ASSUME NEW m \in Node
          PROVE  /\ \A c \in Range(outbox'[m]) : NodeOf[c] = m /\ batch'[c] # Unminted
                 /\ \A i, j \in DOMAIN outbox'[m] :
                       i < j => HlcOf[outbox'[m][i]] < HlcOf[outbox'[m][j]]
      <4>1. CASE m = n
          BY <2>4, <3>2, <3>3, <4>1
      <4>2. CASE m # n
          BY <1>0, <1>t, <2>4, <4>2 DEF QueuesInOrder
      <4> QED
          BY <4>1, <4>2
    <3> QED
        BY <3>4 DEF QueuesInOrder
  <2>8. MintedInOrder'
    <3>1. ASSUME NEW x \in BatchId, NEW c \in BatchId,
                 NodeOf[c] = NodeOf[x], HlcOf[c] < HlcOf[x], batch'[x] # Unminted
          PROVE  batch'[c] # Unminted
      <4>1. CASE x = b
          BY <2>4, <2>5, <3>1, <4>1
      <4>2. CASE x # b
          BY <1>0, <2>4, <3>1, <4>2 DEF MintedInOrder
      <4> QED
          BY <4>1, <4>2
    <3> QED
        BY <3>1 DEF MintedInOrder
  <2>9. UnansweredIsQueued'
    <3>1. ASSUME NEW c \in BatchId, batch'[c] # Unminted, answer[c] = "none"
          PROVE  c \in Range(outbox'[NodeOf[c]])
      <4>1. CASE c = b
          BY <2>2, <2>3, <2>4, <4>1
      <4>2. CASE c # b
        <5>1. c \in Range(outbox[NodeOf[c]]) /\ NodeOf[c] \in Node
            BY <1>0, <1>t, <2>4, <3>1, <4>2 DEF UnansweredIsQueued
        <5> QED
            BY <2>3, <2>4, <5>1
      <4> QED
          BY <4>1, <4>2
    <3> QED
        BY <2>1, <3>1 DEF UnansweredIsQueued
  <2>10. AwaitedIsQueued'
    <3>1. \A m \in Node : Range(outbox[m]) \subseteq Range(outbox'[m])
        BY <2>3, <2>4
    <3> QED
        BY <1>0, <2>1, <3>1 DEF AwaitedIsQueued
  <2>11. RecordKept' /\ OwnBatchesInOrder'
      BY <1>0, <2>1 DEF RecordKept, OwnBatchesInOrder, HlcAt
  <2>12. ASSUME NEW x \in BatchId, IsNext(x)
         PROVE  IsNext(x)'
    <3>1. ASSUME NEW c \in BatchId, Done(c)
          PROVE  batch'[c] # Unminted /\ c \notin Range(outbox'[NodeOf[c]])
        BY <1>t, <2>1, <2>3, <2>4, <3>1 DEF Done
    <3>2. \A c \in BatchId : Done(c) => Done(c)'
        BY <3>1 DEF Done
    <3> QED
        BY <2>4, <2>12, <3>2 DEF IsNext
  <2>13. SentInOrder'
    <3>1. \A q \in wire : q.batch \in BatchId
        BY <1>0 DEF FlowTypes, Request
    <3> QED
        BY <1>0, <1>t, <2>1, <2>12, <3>1 DEF SentInOrder
  <2> QED
      BY <2>6, <2>7, <2>8, <2>9, <2>10, <2>11, <2>13 DEF Delivery
<1>9. ASSUME NEW r \in Request, Arrive(r)
      PROVE  Delivery'
  <2> DEFINE b == r.batch
             n == NodeOf[b]
  <2>1. b \in BatchId /\ n \in Node
      BY <1>t DEF Request
  <2>2. /\ r \in wire /\ wire' = wire \ {r}
        /\ UNCHANGED <<outbox, awaiting, batch, meta>>
        /\ \A c \in BatchId : dedup[c] # 0 => dedup'[c] # 0
      BY <1>0, <1>9, ArriveFacts DEF RecordKept
  <2>3. mishaps' = mishaps
      BY <1>9 DEF Arrive
  <2>4. \/ UNCHANGED <<answer, reply>>
        \/ /\ awaiting[n] = r
           /\ \E verdict \in {"accepted", "rejected"} :
                 /\ reply' = [reply EXCEPT ![n] = verdict]
                 /\ answer' = [answer EXCEPT ![b] = verdict]
                 /\ verdict = "accepted" => dedup'[b] # 0
                 /\ verdict = "rejected" => dedup[b] = 0
      BY <1>0, <1>9, ArriveFacts DEF RecordKept
  <2>5. \/ Commit(b) /\ dedup[b] = 0 /\ dedup'[b] # 0
        \/ UNCHANGED <<stream, dedup>>
      BY <1>0, <1>9, ArriveFacts DEF RecordKept
  <2> HIDE DEF b, n
  <2>6. /\ answer \in [BatchId -> {"none", "accepted", "rejected"}]
        /\ answer' \in [BatchId -> {"none", "accepted", "rejected"}]
        /\ \A c \in BatchId : answer[c] # "none" => answer'[c] # "none"
        /\ \A c \in BatchId : c # b => answer'[c] = answer[c]
        /\ b \notin Range(outbox[n]) => answer'[b] = answer[b]
        /\ answer'[b] = "accepted" => answer[b] = "accepted" \/ dedup'[b] # 0
    <3>1. answer \in [BatchId -> {"none", "accepted", "rejected"}]
        BY DEF TypeOK
    <3>2. awaiting[n] = r => b \in Range(outbox[n])
        BY <1>0, <2>1, IdleIsNoRequest DEF AwaitedIsQueued, b
    <3> QED
        BY <2>1, <2>4, <3>1, <3>2
  <2>7. FlowTypes'
      BY <1>0, <2>1, <2>2, <2>3, <2>4 DEF FlowTypes
  <2>8. QueuesInOrder' /\ MintedInOrder'
      BY <1>0, <2>2 DEF QueuesInOrder, MintedInOrder
  <2>9. UnansweredIsQueued'
      BY <1>0, <2>2, <2>6 DEF UnansweredIsQueued
  <2>10. AwaitedIsQueued'
    <3>1. ASSUME NEW m \in Node, reply'[m] \in {"accepted", "rejected"}
          PROVE  awaiting[m] # Idle /\ answer'[awaiting[m].batch] # "none"
      <4>1. CASE reply'[m] = reply[m]
        <5>1. awaiting[m] # Idle /\ answer[awaiting[m].batch] # "none"
            BY <1>0, <3>1, <4>1 DEF AwaitedIsQueued
        <5>2. awaiting[m].batch \in BatchId
            BY <1>0, <5>1 DEF FlowTypes, Request
        <5> QED
            BY <2>6, <5>1, <5>2
      <4>2. CASE reply'[m] # reply[m]
        <5>1. m = n /\ awaiting[n] = r /\ answer'[b] \in {"accepted", "rejected"}
            BY <1>0, <2>1, <2>4, <2>6, <4>2 DEF FlowTypes
        <5> QED
            BY <5>1, IdleIsNoRequest DEF b
      <4> QED
          BY <4>1, <4>2
    <3> QED
        BY <1>0, <2>2, <3>1 DEF AwaitedIsQueued
  <2>11. \A x \in BatchId : IsNext(x) <=> IsNext(x)'
      BY <2>2 DEF IsNext, Done
  <2>12. \A q \in wire' : IsNext(q.batch)'
    <3>1. \A q \in wire : q.batch \in BatchId /\ IsNext(q.batch)
        BY <1>0 DEF FlowTypes, Request, SentInOrder
    <3> QED
        BY <2>2, <2>11, <3>1
  <2>13. IsNext(b)
      BY <1>0, <2>2 DEF SentInOrder, b
  <2>14. ASSUME NEW i \in DOMAIN stream, NEW j \in DOMAIN stream, i < j,
                NodeOf[stream[i].batch] = NodeOf[stream[j].batch],
                answer'[stream[j].batch] # "rejected"
         PROVE  HlcAt(i) < HlcAt(j)
    <3> DEFINE x == stream[i].batch
               y == stream[j].batch
    <3>1. x \in BatchId /\ y \in BatchId
        BY <1>t
    <3>2. HlcOf[x] # HlcOf[y]
      <4>1. i # j
        <5>1. DOMAIN stream \subseteq Nat
            BY LenProperties DEF TypeOK
        <5> QED
            BY <2>14, <5>1
      <4>2. x # y
          BY <1>0, <4>1 DEF RecordKept
      <4> QED
          BY <3>1, <4>2, HlcUnique
    <3>3. CASE answer[y] # "rejected"
        BY <1>0, <2>14, <3>3 DEF OwnBatchesInOrder
    <3>4. CASE answer[y] = "rejected" /\ HlcOf[y] < HlcOf[x]
      <4>1. Done(y)
          BY <1>0, <2>14, <3>1, <3>4 DEF SentInOrder, IsNext
      <4>2. answer'[y] = answer[y]
          BY <2>6, <3>1, <4>1 DEF Done, n
      <4> QED
          BY <2>14, <3>4, <4>2
    <3> HIDE DEF x, y
    <3>5. HlcOf[x] < HlcOf[y] \/ HlcOf[y] < HlcOf[x]
        BY <1>t, <3>1, <3>2
    <3> QED
        BY <3>3, <3>4, <3>5 DEF HlcAt, x, y
  <2>15. ASSUME UNCHANGED <<stream, dedup>>
         PROVE  SentInOrder' /\ RecordKept' /\ OwnBatchesInOrder'
    <3>1. SentInOrder'
        BY <1>0, <1>t, <2>11, <2>12, <2>15 DEF SentInOrder
    <3>2. RecordKept'
        BY <1>0, <1>t, <2>2, <2>6, <2>15 DEF RecordKept
    <3>3. OwnBatchesInOrder'
        BY <2>14, <2>15 DEF OwnBatchesInOrder, HlcAt
    <3> QED
        BY <3>1, <3>2, <3>3
  <2>16. ASSUME Commit(b), dedup[b] = 0, dedup'[b] # 0
         PROVE  SentInOrder' /\ RecordKept' /\ OwnBatchesInOrder'
    <3> DEFINE N == Len(stream) + 1
    <3>1. /\ DOMAIN stream = 1 .. Len(stream) /\ Len(stream) \in Nat
          /\ DOMAIN stream' = 1 .. N
          /\ \A i \in 1 .. Len(stream) : stream'[i] = stream[i]
          /\ stream'[N].batch = b
        BY <2>1, <2>16, AppendEntry
    <3>2. \A i \in 1 .. N : i \in 1 .. Len(stream) \/ i = N
        BY <3>1
    <3>3. \A i \in 1 .. Len(stream) : stream[i].batch # b
        BY <1>0, <2>16, <3>1 DEF RecordKept
    <3> HIDE DEF N
    <3>4. SentInOrder'
      <4>1. \A k \in 1 .. N : IsNext(stream'[k].batch)
          BY <1>0, <2>13, <3>1, <3>2 DEF SentInOrder
      <4>2. \A k \in 1 .. N : stream'[k].batch \in BatchId
          BY <1>t, <2>1, <3>1, <3>2
      <4> QED
          BY <2>11, <2>12, <3>1, <4>1, <4>2 DEF SentInOrder
    <3>5. RecordKept'
      <4>1. \A c \in BatchId : answer'[c] = "accepted" => dedup'[c] # 0
          BY <1>0, <2>2, <2>6 DEF RecordKept
      <4>2. \A k \in 1 .. N : dedup'[stream'[k].batch] # 0
          BY <1>0, <1>t, <2>2, <2>16, <3>1, <3>2 DEF RecordKept
      <4>3. \A i, j \in 1 .. N : i # j => stream'[i].batch # stream'[j].batch
          BY <1>0, <3>1, <3>2, <3>3 DEF RecordKept
      <4> QED
          BY <1>0, <2>2, <3>1, <4>1, <4>2, <4>3 DEF RecordKept
    <3>6. ASSUME NEW i \in 1 .. Len(stream), NodeOf[stream[i].batch] = n,
                 answer'[b] # "rejected"
          PROVE  HlcOf[stream[i].batch] < HlcOf[b]
      <4> DEFINE x == stream[i].batch
      <4>1. x \in BatchId /\ HlcOf[x] # HlcOf[b]
          BY <1>t, <2>1, <3>1, <3>3, HlcUnique
      <4>2. CASE HlcOf[b] < HlcOf[x]
        <5>1. Done(b)
            BY <1>0, <2>1, <3>1, <3>6, <4>2 DEF SentInOrder, IsNext, n
        <5>2. answer'[b] = answer[b] /\ answer[b] # "none"
            BY <1>0, <2>1, <2>6, <5>1 DEF Done, UnansweredIsQueued, n
        <5>3. answer[b] # "accepted"
            BY <1>0, <2>1, <2>16 DEF RecordKept
        <5> QED
            BY <2>1, <2>6, <3>6, <5>2, <5>3
      <4> HIDE DEF x
      <4>3. HlcOf[x] < HlcOf[b] \/ HlcOf[b] < HlcOf[x]
          BY <1>t, <2>1, <4>1
      <4> QED
          BY <4>2, <4>3 DEF x
    <3>7. OwnBatchesInOrder'
      <4>1. ASSUME NEW i \in 1 .. N, NEW j \in 1 .. N, i < j,
                   NodeOf[stream'[i].batch] = NodeOf[stream'[j].batch],
                   answer'[stream'[j].batch] # "rejected"
            PROVE  HlcOf[stream'[i].batch] < HlcOf[stream'[j].batch]
        <5>1. i \in 1 .. Len(stream)
            BY <3>1, <4>1 DEF N
        <5>2. CASE j = N
            BY <3>1, <3>6, <4>1, <5>1, <5>2 DEF n
        <5>3. CASE j \in 1 .. Len(stream)
            BY <2>14, <3>1, <4>1, <5>1, <5>3 DEF HlcAt
        <5> QED
            BY <3>2, <5>2, <5>3
      <4> QED
          BY <3>1, <4>1 DEF OwnBatchesInOrder, HlcAt
    <3> QED
        BY <3>4, <3>5, <3>7
  <2> QED
      BY <2>5, <2>7, <2>8, <2>9, <2>10, <2>15, <2>16 DEF Delivery
<1>10. ASSUME NEW n \in Node,
              \/ Persist(n) \/ Unanswered(n) \/ Cut(n) \/ Connect(n) \/ Break(n)
              \/ NativeRetry(n) \/ Receive(n) \/ ReceiveSnapshot(n)
              \/ LoseSnapshot(n) \/ AdoptSnapshot(n) \/ Reload(n) \/ Kill(n)
       PROVE  Delivery'
  <2>1. /\ UNCHANGED <<vars, outbox>>
        /\ wire' \subseteq wire
        /\ mishaps' \in 0 .. MaxMishaps
        /\ awaiting' \in [Node -> Request \cup {Idle}]
        /\ reply' \in [Node -> {"none", "accepted", "rejected", "lost"}]
        /\ \A m \in Node :
              \/ awaiting'[m] = awaiting[m] /\ reply'[m] \in {reply[m], "lost"}
              \/ awaiting'[m] = Idle /\ reply'[m] = "none"
      BY <1>0, <1>10, OtherSteps
  <2> QED
      BY <1>5, <2>1
<1>11. CASE UNCHANGED syncVars
  <2>1. UNCHANGED <<vars, outbox, wire, mishaps, awaiting, reply>>
      BY <1>11 DEF syncVars, vault, disk, flow
  <2> QED
      BY <1>0, <1>5, <2>1 DEF FlowTypes
<1> QED
    BY <1>6, <1>7, <1>8, <1>9, <1>10, <1>11 DEF SyncNext, Flush

LEMMA DeliveryAlways == SyncSpec => []Delivery
<1> QED
    BY InitDelivery, StepDelivery, SyncImplementsVault, TypeCorrect, PTL
       DEF SyncSpec

\* No edit is lost on its way: until the vault has answered it, it is in its
\* node's queue on disk, for any number of nodes, edits, failures and reloads.
THEOREM NoEditLost == SyncSpec => []UnansweredIsQueued
<1>1. Delivery => UnansweredIsQueued
    BY DEF Delivery
<1> QED
    BY <1>1, DeliveryAlways, PTL

\* Repeated and overtaken requests do not reorder what one node did.
THEOREM OrderKept == SyncSpec => []OwnBatchesInOrder
<1>1. Delivery => OwnBatchesInOrder
    BY DEF Delivery
<1> QED
    BY <1>1, DeliveryAlways, PTL

\* A retry is never rejected because of its own first copy.
THEOREM RejectionIsTrue == SyncSpec => RejectedIsNowhere
<1>1. ASSUME TypeOK, Delivery, [SyncNext]_syncVars,
             NEW b \in BatchId, answer[b] # "rejected", answer'[b] = "rejected",
             NEW k \in DOMAIN stream, stream[k].batch = b
      PROVE  FALSE
  <2>1. dedup[b] # 0 /\ meta = "live" /\ FlowTypes
      BY <1>1 DEF Delivery, RecordKept
  <2>2. [Next]_vars
      BY <1>1, SyncStepsAreVaultSteps
  <2> QED
      BY <1>1, <2>1, <2>2, AnswersOnRecord
<1>2. TypeOK /\ Delivery /\ [SyncNext]_syncVars
        => [\A b \in BatchId : answer[b] # "rejected" /\ answer'[b] = "rejected" =>
               \A k \in DOMAIN stream : stream[k].batch # b]_syncVars
    BY <1>1
<1> QED
    BY <1>2, DeliveryAlways, SyncImplementsVault, TypeCorrect, PTL
       DEF SyncSpec, RejectedIsNowhere

\* What VaultStore promises, it promises to the nodes of the system.
THEOREM SystemKeepsAcknowledged == SyncSpec => []AcknowledgedIsInStream
<1> QED
    BY SyncImplementsVault, AcknowledgedAlways, PTL

-----------------------------------------------------------------------------
(* What a node that follows shows.                                         *)
(*                                                                         *)
(* Each cell of a record (PatchAlgebra_proofs, Cell) shows the last patch   *)
(* that bore on it.  A node that takes entries again from an earlier        *)
(* position, as streams opened at an old one make it do, shows in some      *)
(* cells what a later entry left there; those are the cells that entries    *)
(* still to come bear on.                                                   *)

Accounted == TypeOK /\ StreamReplaysStore /\ meta = "live"

LEMMA EntriesAreBatches ==
    ASSUME Accounted
    PROVE  /\ seq \in Nat /\ seq = Len(stream) /\ DOMAIN stream = 1 .. seq
           /\ store = Replay[seq]
           /\ MaxBatch \in Nat
           /\ \A k \in 1 .. seq :
                 stream[k].batch \in BatchId /\ IsBatch(stream[k].patches, MaxBatch)
<1>1. /\ seq \in Nat /\ seq = Len(stream) /\ stream \in Seq(Entry)
      /\ store = Replay[seq]
    BY DEF Accounted, TypeOK, StreamReplaysStore, Intact
<1>2. DOMAIN stream = 1 .. seq
    BY <1>1, LenProperties
<1>3. ASSUME NEW k \in 1 .. seq
      PROVE  stream[k].batch \in BatchId /\ IsBatch(stream[k].patches, MaxBatch)
  <2>1. stream[k] \in Entry
      BY <1>1, <1>3, ElementOfSeq
  <2>2. stream[k].batch \in BatchId /\ stream[k].patches \in PatchList
      BY <2>1 DEF Entry
  <2>3. PICK D \in SUBSET (1 .. MaxBatch) : stream[k].patches \in [D -> Patch]
      BY <2>2 DEF PatchList
  <2> QED
      BY <2>2, <2>3 DEF IsBatch
<1> QED
    BY <1>1, <1>2, <1>3, ShapesArePatchLists

LEMMA ReplayType ==
    ASSUME Accounted, ReplayEquations
    PROVE  \A k \in 0 .. seq : Replay[k] \in Stores
<1> DEFINE T == {k \in Nat : k <= seq /\ Replay[k] \notin Stores}
<1> SUFFICES ASSUME T # {}
             PROVE  FALSE
    OBVIOUS
<1>1. PICK t \in T : \A k \in T : t <= k
    BY LeastNat
<1>2. t # 0
    BY <1>1 DEF ReplayEquations, EmptyStore, Stores
<1>3. t - 1 \in Nat /\ t - 1 \notin T /\ t \in 1 .. seq
    BY <1>1, <1>2, EntriesAreBatches
<1>4. Replay[t - 1] \in Stores
    BY <1>3, EntriesAreBatches
<1>5. Replay[t] = ApplyPatches(stream[t].patches, Replay[t - 1], ServerFresh)
    BY <1>3 DEF ReplayEquations
<1>6. IsBatch(stream[t].patches, MaxBatch) /\ MaxBatch \in Nat
    BY <1>3, EntriesAreBatches
<1>7. ServerFresh \in Record
    BY FreshIsRecordOf DEF ServerFresh
<1>8. Replay[t] \in Stores
    BY <1>4, <1>5, <1>6, <1>7, ApplyPatchesType DEF Stores
<1> QED
    BY <1>1, <1>8

\* What an entry leaves in a cell it bears on, whoever takes it and whatever
\* was there, is what the vault showed in it then.
LEMMA EntryCell ==
    ASSUME Accounted, ReplayEquations, NEW k \in 1 .. seq,
           NEW s \in Subject, NEW c \in Cell
    PROVE  LET b == stream[k].patches
           IN  /\ Bears(b, s, c) =>
                    \A r \in Record \cup {Absent} :
                       Look(After(b, s, r, BrowserFresh), c)
                         = Look(Replay[k][s], c)
               /\ ~Bears(b, s, c) =>
                    /\ \A r \in Record \cup {Absent} :
                          Look(After(b, s, r, BrowserFresh), c) = Look(r, c)
                    /\ Look(Replay[k][s], c) = Look(Replay[k - 1][s], c)
<1> DEFINE b == stream[k].patches
<1>1. IsBatch(b, MaxBatch) /\ MaxBatch \in Nat
    BY EntriesAreBatches
<1>2. k - 1 \in 0 .. seq /\ k \in Nat \ {0}
    BY EntriesAreBatches
<1>3. Replay[k - 1][s] \in Record \cup {Absent}
    BY <1>2, ReplayType DEF Stores
<1>4. Replay[k][s] = After(b, s, Replay[k - 1][s], Fresh("bare"))
    BY <1>2 DEF ReplayEquations, ApplyPatches, ServerFresh
<1> HIDE DEF b
<1>5. CASE Bears(b, s, c)
  <2>1. \A r \in Record \cup {Absent} :
           Look(After(b, s, Replay[k - 1][s], Fresh("bare")), c)
             = Look(After(b, s, r, Fresh("full")), c)
      BY <1>1, <1>3, <1>5, AfterCell
  <2> QED
      BY <1>4, <1>5, <2>1 DEF BrowserFresh, b
<1>6. CASE ~Bears(b, s, c)
  <2>1. \A r \in Record \cup {Absent} :
           Look(After(b, s, r, Fresh("full")), c) = Look(r, c)
      BY <1>1, <1>6, AfterCell
  <2>2. Look(After(b, s, Replay[k - 1][s], Fresh("bare")), c)
          = Look(Replay[k - 1][s], c)
      BY <1>1, <1>3, <1>6, AfterCell
  <2> QED
      BY <1>4, <1>6, <2>1, <2>2 DEF BrowserFresh, b
<1> QED
    BY <1>5, <1>6

\* No entry after position t bears on the cell.
Settled(s, c, t) == \A k \in t + 1 .. seq : ~Bears(stream[k].patches, s, c)

\* A cell that the entries from t to u do not bear on shows the same at both.
LEMMA CellsStay ==
    ASSUME Accounted, ReplayEquations, NEW s \in Subject, NEW c \in Cell,
           NEW t \in 0 .. seq, NEW u \in t .. seq,
           \A k \in t + 1 .. u : ~Bears(stream[k].patches, s, c)
    PROVE  Look(Replay[u][s], c) = Look(Replay[t][s], c)
<1> DEFINE T == {k \in Nat : /\ t <= k /\ k <= u
                             /\ Look(Replay[k][s], c) # Look(Replay[t][s], c)}
<1> SUFFICES ASSUME T # {}
             PROVE  FALSE
    BY EntriesAreBatches
<1>1. PICK x \in T : \A k \in T : x <= k
    BY LeastNat
<1>2. seq \in Nat /\ x # t
    BY <1>1, EntriesAreBatches
<1>3. x - 1 \in Nat /\ x - 1 \notin T /\ x \in t + 1 .. u /\ x \in 1 .. seq
      /\ t <= x - 1
    BY <1>1, <1>2
<1>4. Look(Replay[x - 1][s], c) = Look(Replay[t][s], c)
    BY <1>3
<1>5. Look(Replay[x][s], c) = Look(Replay[x - 1][s], c)
    BY <1>3, EntryCell
<1> QED
    BY <1>1, <1>4, <1>5

\* Leaving out the batches that create a record that is there leaves the other
\* subjects' patches alone.
LEMMA WithoutDuplicatesAfter ==
    ASSUME NEW n \in Nat, NEW b, IsBatch(b, n), NEW st \in Stores,
           NEW s \in Subject, NEW fresh
    PROVE  After(WithoutDuplicates(b, st), s, st[s], fresh)
             = IF st[s] # Absent /\ \E j \in DOMAIN b : b[j] = Create(s)
               THEN st[s] ELSE After(b, s, st[s], fresh)
<1> DEFINE Kept == {i \in DOMAIN b :
               ~(st[b[i].on] # Absent /\ \E j \in DOMAIN b : b[j] = Create(b[i].on))}
           w == WithoutDuplicates(b, st)
<1>1. w = [i \in Kept |-> b[i]]
    BY DEF WithoutDuplicates, Restrict
<1>2. DOMAIN w = Kept /\ Kept \subseteq DOMAIN b /\ \A i \in Kept : w[i] = b[i]
    BY <1>1
<1>3. IsBatch(w, n)
    BY <1>2 DEF IsBatch
<1>4. CASE st[s] # Absent /\ \E j \in DOMAIN b : b[j] = Create(s)
  <2>1. s \notin Touched(w)
      BY <1>2, <1>4 DEF Touched
  <2> QED
      BY <1>3, <1>4, <2>1, UntouchedStays
<1>5. CASE ~(st[s] # Absent /\ \E j \in DOMAIN b : b[j] = Create(s))
  <2>1. \A i \in DOMAIN b : b[i].on = s => i \in DOMAIN w /\ w[i] = b[i]
      BY <1>2, <1>5
  <2> HIDE DEF w, Kept
  <2>2. {i \in DOMAIN w : w[i].op = "drop" /\ w[i].on = s}
          = {i \in DOMAIN b : b[i].op = "drop" /\ b[i].on = s}
      BY <1>2, <2>1
  <2>3. LastDrop(w, s) = LastDrop(b, s)
      BY <2>2 DEF LastDrop
  <2>4. /\ Surviving(w, s) = Surviving(b, s)
        /\ \A i \in Surviving(b, s) : w[i] = b[i]
      BY <1>2, <2>1, <2>3 DEF Surviving
  <2>5. \A f : ScalarWrites(w, s, f) = ScalarWrites(b, s, f)
      BY <2>4 DEF ScalarWrites
  <2>6. \A f, m : MemberWrites(w, s, f, m) = MemberWrites(b, s, f, m)
      BY <2>4 DEF MemberWrites
  <2>7. \A f, m : /\ ScalarWrites(b, s, f) \subseteq Surviving(b, s)
                  /\ MemberWrites(b, s, f, m) \subseteq Surviving(b, s)
                  /\ Surviving(b, s) \subseteq 0 .. n
      BY WritesArePositions
  <2>8. ASSUME NEW f, NEW old
        PROVE  ScalarAfter(w, s, f, old) = ScalarAfter(b, s, f, old)
    <3>1. CASE ScalarWrites(b, s, f) = {}
        BY <2>5, <3>1 DEF ScalarAfter
    <3>2. CASE ScalarWrites(b, s, f) # {}
      <4>1. Max(ScalarWrites(b, s, f)) \in ScalarWrites(b, s, f)
        <5>1. ScalarWrites(b, s, f) \subseteq 0 .. n
            BY <2>7
        <5> QED
            BY <3>2, <5>1, MaxIsLast
      <4>2. w[Max(ScalarWrites(b, s, f))] = b[Max(ScalarWrites(b, s, f))]
          BY <2>4, <2>7, <4>1
      <4> QED
          BY <2>5, <4>2 DEF ScalarAfter
    <3> QED
        BY <3>1, <3>2
  <2>9. ASSUME NEW f, NEW m, NEW old
        PROVE  MemberAfter(w, s, f, m, old) = MemberAfter(b, s, f, m, old)
    <3>1. CASE MemberWrites(b, s, f, m) = {}
        BY <2>6, <3>1 DEF MemberAfter
    <3>2. CASE MemberWrites(b, s, f, m) # {}
      <4>1. Max(MemberWrites(b, s, f, m)) \in MemberWrites(b, s, f, m)
        <5>1. MemberWrites(b, s, f, m) \subseteq 0 .. n
            BY <2>7
        <5> QED
            BY <3>2, <5>1, MaxIsLast
      <4>2. w[Max(MemberWrites(b, s, f, m))] = b[Max(MemberWrites(b, s, f, m))]
          BY <2>4, <2>7, <4>1
      <4> QED
          BY <2>6, <4>2 DEF MemberAfter
    <3> QED
        BY <3>1, <3>2
  <2>10. \A r : RecordAfter(w, s, r) = RecordAfter(b, s, r)
    <3>1. (\E i \in Surviving(w, s) : w[i].op = "identify")
            <=> (\E i \in Surviving(b, s) : b[i].op = "identify")
        BY <2>4
    <3>2. ASSUME NEW r
          PROVE  [f \in Scalar |-> ScalarAfter(w, s, f, r.scalar[f])]
                   = [f \in Scalar |-> ScalarAfter(b, s, f, r.scalar[f])]
        BY <2>8
    <3>3. ASSUME NEW r, NEW f
          PROVE  {m \in Member : MemberAfter(w, s, f, m, m \in r.members[f])}
                   = {m \in Member : MemberAfter(b, s, f, m, m \in r.members[f])}
        BY <2>9, Zenon
    <3> QED
        BY <3>1, <3>2, <3>3 DEF RecordAfter
  <2>11. After(w, s, st[s], fresh) = After(b, s, st[s], fresh)
      BY <2>3, <2>4, <2>10 DEF After
  <2> QED
      BY <1>5, <2>11 DEF w
<1> QED
    BY <1>4, <1>5

\* The records st show, of subject s, what the vault showed at position t, in
\* every cell that no later entry bears on.
ShowsFrom(st, s, t) ==
    /\ Look(st[s], Here) = Look(Replay[t][s], Here)
    /\ \A c \in Cell : Settled(s, c, t) => Look(st[s], c) = Look(Replay[t][s], c)

\* Every subject shows what the vault showed at some position not before p.
ShownFrom(st, p) == \A s \in Subject : \E t \in p .. seq : ShowsFrom(st, s, t)

\* The script takes a creation only where there is no record.
CreatesAnew ==
    \A k \in 1 .. seq, s \in Subject :
        (\E i \in DOMAIN stream[k].patches : stream[k].patches[i] = Create(s))
            => Replay[k - 1][s] = Absent

\* Taking an entry, for the first time or again, after all the ones before it:
\* a creation left out because the record is there was taken before, with all
\* that came up to the position the record is from.
LEMMA TakeEntry ==
    ASSUME Accounted, ReplayEquations, CreatesAnew,
           NEW st \in Stores, NEW p \in 0 .. seq, ShownFrom(st, p),
           NEW k \in 1 .. seq, k <= p + 1
    PROVE  ShownFrom(ApplyPatches(WithoutDuplicates(stream[k].patches, st), st,
                                  BrowserFresh), k)
<1> DEFINE b == stream[k].patches
           new == ApplyPatches(WithoutDuplicates(b, st), st, BrowserFresh)
<1>0. seq \in Nat /\ MaxBatch \in Nat /\ IsBatch(b, MaxBatch)
    BY EntriesAreBatches
<1> SUFFICES ASSUME NEW s \in Subject
             PROVE  \E t \in k .. seq : ShowsFrom(new, s, t)
    BY DEF ShownFrom
<1>1. PICK t \in p .. seq : ShowsFrom(st, s, t)
    BY DEF ShownFrom
<1>2. t \in Nat /\ t >= k - 1
    BY <1>0, <1>1
<1>t. st[s] \in Record \cup {Absent}
    BY DEF Stores
<1>3. new[s] = IF st[s] # Absent /\ \E j \in DOMAIN b : b[j] = Create(s)
               THEN st[s] ELSE After(b, s, st[s], BrowserFresh)
    BY <1>0, WithoutDuplicatesAfter DEF ApplyPatches
<1>h. Here \in Cell /\ Here.kind = "here"
    BY DEF Here, Cell
<1> HIDE DEF b, new
<1>4. CASE new[s] = st[s] /\ t >= k
  <2>1. ShowsFrom(new, s, t)
      BY <1>1, <1>4 DEF ShowsFrom
  <2> QED
      BY <1>0, <1>1, <1>4, <2>1
<1>5. CASE st[s] # Absent /\ \E j \in DOMAIN b : b[j] = Create(s)
  <2>1. Replay[k - 1][s] = Absent
      BY <1>5 DEF CreatesAnew, b
  <2>2. t # k - 1
      BY <1>1, <1>5, <2>1 DEF ShowsFrom, Look, Here
  <2> QED
      BY <1>2, <1>3, <1>4, <1>5, <2>2
<1>6. CASE ~Bears(b, s, Here) /\ t >= k
  <2>1. s \notin Touched(b)
      BY <1>6, <1>h DEF Bears
  <2>2. After(b, s, st[s], BrowserFresh) = st[s]
      BY <1>0, <2>1, UntouchedStays
  <2> QED
      BY <1>3, <1>4, <1>6, <2>2
<1>7. CASE /\ ~(st[s] # Absent /\ \E j \in DOMAIN b : b[j] = Create(s))
           /\ Bears(b, s, Here) \/ t = k - 1
  <2>1. new[s] = After(b, s, st[s], BrowserFresh)
      BY <1>3, <1>7
  <2>2. ASSUME NEW c \in Cell, Settled(s, c, k)
        PROVE  Look(new[s], c) = Look(Replay[k][s], c)
    <3>1. CASE Bears(b, s, c)
        BY <1>t, <2>1, <3>1, EntryCell DEF b
    <3>2. CASE ~Bears(b, s, c)
      <4>1. /\ Look(new[s], c) = Look(st[s], c)
            /\ Look(Replay[k][s], c) = Look(Replay[k - 1][s], c)
          BY <1>t, <2>1, <3>2, EntryCell DEF b
      <4>2. k - 1 \in 0 .. seq /\ t \in (k - 1) .. seq
          BY <1>0, <1>1, <1>2
      <4>3. \A x \in (k - 1) + 1 .. seq : ~Bears(stream[x].patches, s, c)
        <5>1. \A x \in (k - 1) + 1 .. seq : x = k \/ x \in k + 1 .. seq
            BY <1>0
        <5> QED
            BY <2>2, <3>2, <5>1 DEF Settled, b
      <4>4. \A x \in t + 1 .. seq : x \in (k - 1) + 1 .. seq
          BY <1>0, <1>2, <4>2
      <4>5. \A x \in (k - 1) + 1 .. t : x \in (k - 1) + 1 .. seq
          BY <1>0, <1>1, <1>2
      <4>6. Look(st[s], c) = Look(Replay[t][s], c)
          BY <1>1, <4>3, <4>4 DEF ShowsFrom, Settled
      <4>7. Look(Replay[t][s], c) = Look(Replay[k - 1][s], c)
          BY <4>2, <4>3, <4>5, CellsStay
      <4> QED
          BY <4>1, <4>6, <4>7
    <3> QED
        BY <3>1, <3>2
  <2>3. Look(new[s], Here) = Look(Replay[k][s], Here)
    <3>1. CASE Bears(b, s, Here)
        BY <1>t, <1>h, <2>1, <3>1, EntryCell DEF b
    <3>2. CASE ~Bears(b, s, Here) /\ t = k - 1
      <4>1. /\ Look(new[s], Here) = Look(st[s], Here)
            /\ Look(Replay[k][s], Here) = Look(Replay[k - 1][s], Here)
          BY <1>t, <1>h, <2>1, <3>2, EntryCell DEF b
      <4> QED
          BY <1>1, <3>2, <4>1 DEF ShowsFrom
    <3> QED
        BY <1>7, <3>1, <3>2
  <2>4. ShowsFrom(new, s, k)
      BY <2>2, <2>3 DEF ShowsFrom
  <2> QED
      BY <1>0, <2>4
<1> QED
    BY <1>2, <1>5, <1>6, <1>7

-----------------------------------------------------------------------------
(* The ring of a node that follows. *)

\* The ring q ends with the run of entries up to position p, after m others:
\* each of those is of an entry not after p, or of one so far after p that it
\* has been pushed out of the ring before the entries up to it are taken.
RunsTo(q, p, m) ==
    /\ m <= Len(q) /\ Len(q) - m <= p
    /\ \A i \in m + 1 .. Len(q) : q[i] = stream[p - (Len(q) - i)].batch
    /\ \A i \in 1 .. m : \E x \in 1 .. seq :
          /\ q[i] = stream[x].batch
          /\ x <= p \/ (Len(q) = RingSize /\ x > p + i)

\* The run starts at the position floor or before, unless it fills the ring.
RunsFrom(q, p, m, floor) ==
    m > 0 \/ Len(q) < RingSize => p - (Len(q) - m) <= floor

\* What the ring becomes when it takes in a batch it does not have.
Pushed(q, b) ==
    IF Len(q) < RingSize THEN Append(q, b) ELSE Append(Tail(q), b)

\* Entries come from the floor on.  One whose batch is in the ring is one of the
\* run or before it, never one still to be taken; one that is not continues the
\* run, or starts a new one when the floor is before a run that fills the ring.
LEMMA RingStep ==
    ASSUME Accounted, RecordKept,
           NEW q \in Seq(BatchId), Len(q) <= RingSize,
           NEW p \in 0 .. seq, NEW m \in 0 .. Len(q), RunsTo(q, p, m),
           NEW floor \in 0 .. p, RunsFrom(q, p, m, floor),
           NEW k \in 1 .. seq, floor < k, k <= p + 1,
           k = floor + 1 \/ p - (Len(q) - m) < k
    PROVE  LET b == stream[k].batch
               new == Pushed(q, b)
           IN  /\ b \in Range(q) => k <= p /\ p - (Len(q) - m) < k + 1
               /\ b \notin Range(q) =>
                    /\ new \in Seq(BatchId) /\ Len(new) <= RingSize
                    /\ \E u \in 0 .. Len(new) :
                          RunsTo(new, k, u) /\ RunsFrom(new, k, u, floor)
<1> DEFINE b == stream[k].batch
           new == Pushed(q, b)
           len == Len(q)
<1>0. /\ seq \in Nat /\ DOMAIN stream = 1 .. seq /\ b \in BatchId
      /\ len \in Nat /\ DOMAIN q = 1 .. len
      /\ RingSize \in Nat \ {0}
      /\ p \in Nat /\ m \in Nat /\ k \in Nat /\ floor \in Nat
    BY EntriesAreBatches, LenProperties, SyncBounds
<1>1. \A x, y \in 1 .. seq : stream[x].batch = stream[y].batch => x = y
    BY <1>0 DEF RecordKept
<1>2. /\ m <= len /\ len - m <= p
      /\ \A i \in m + 1 .. len : q[i] = stream[p - (len - i)].batch
      /\ \A i \in 1 .. m : \E x \in 1 .. seq :
            /\ q[i] = stream[x].batch
            /\ x <= p \/ (len = RingSize /\ x > p + i)
    BY DEF RunsTo
<1>3. m > 0 \/ len < RingSize => p - (len - m) <= floor
    BY DEF RunsFrom
<1>l. len <= RingSize
    OBVIOUS
<1> HIDE DEF len, new
<1>4. ASSUME b \in Range(q)
      PROVE  k <= p /\ p - (len - m) < k + 1
  <2>1. PICK i \in 1 .. len : q[i] = b
      BY <1>0, <1>4 DEF Range
  <2>2. CASE i > m
    <3>1. i \in m + 1 .. len /\ p - (len - i) \in 1 .. seq
        BY <1>0, <1>2, <2>2
    <3>2. p - (len - i) = k
        BY <1>1, <1>2, <2>1, <3>1 DEF b
    <3> QED
        BY <1>0, <2>2, <3>1, <3>2
  <2>3. CASE i <= m
    <3>1. i \in 1 .. m
        BY <1>0, <2>3
    <3>2. PICK x \in 1 .. seq : /\ q[i] = stream[x].batch
                                /\ x <= p \/ (len = RingSize /\ x > p + i)
        BY <1>2, <3>1
    <3>3. x = k
        BY <1>1, <2>1, <3>2 DEF b
    <3>4. k <= p
        BY <1>0, <3>1, <3>2, <3>3
    <3>5. p - (len - m) <= floor
        BY <1>0, <1>3, <3>1
    <3> QED
        BY <1>0, <3>4, <3>5
  <2> QED
      BY <1>0, <2>2, <2>3
<1>5. ASSUME b \notin Range(q)
      PROVE  /\ new \in Seq(BatchId) /\ Len(new) <= RingSize
             /\ \E u \in 0 .. Len(new) :
                   RunsTo(new, k, u) /\ RunsFrom(new, k, u, floor)
  <2>1. CASE len < RingSize
    <3>1. /\ new \in Seq(BatchId) /\ Len(new) = len + 1
          /\ \A i \in 1 .. len : new[i] = q[i]
          /\ new[len + 1] = b
      <4>1. new = Append(q, b)
          BY <2>1 DEF new, len, Pushed
      <4> QED
          BY <1>0, <4>1, AppendProperties DEF len
    <3>2. k = p + 1
      <4>1. SUFFICES ASSUME k <= p
                     PROVE  FALSE
          BY <1>0
      <4>2. p - (len - m) < k
          BY <1>0, <1>3, <2>1
      <4>3. len - (p - k) \in m + 1 .. len /\ len - (p - k) \in 1 .. len
            /\ p - (len - (len - (p - k))) = k
          BY <1>0, <4>1, <4>2
      <4>4. q[len - (p - k)] = b
          BY <1>2, <4>3 DEF b
      <4> QED
          BY <1>0, <1>5, <4>3, <4>4 DEF Range
    <3>l. Len(new) \in Nat /\ Len(new) = len + 1
        BY <1>0, <3>1
    <3>3. ASSUME NEW i \in m + 1 .. Len(new)
          PROVE  new[i] = stream[k - (Len(new) - i)].batch
      <4>1. CASE i = Len(new)
        <5>1. k - (Len(new) - i) = k
            BY <1>0, <3>l, <4>1
        <5> QED
            BY <3>1, <4>1, <5>1 DEF b
      <4>2. CASE i # Len(new)
        <5>1. i \in m + 1 .. len /\ i \in 1 .. len
              /\ k - (Len(new) - i) = p - (len - i)
            BY <1>0, <3>2, <3>l, <4>2
        <5> QED
            BY <1>2, <3>1, <5>1
      <4> QED
          BY <4>1, <4>2
    <3>4. ASSUME NEW i \in 1 .. m
          PROVE  \E x \in 1 .. seq : new[i] = stream[x].batch /\ x <= k
      <4>1. PICK x \in 1 .. seq : /\ q[i] = stream[x].batch
                                  /\ x <= p \/ (len = RingSize /\ x > p + i)
          BY <1>2
      <4>2. i \in 1 .. len /\ x <= k
          BY <1>0, <2>1, <3>2, <4>1
      <4> QED
          BY <3>1, <4>1, <4>2
    <3>5. RunsTo(new, k, m)
      <4>1. m <= Len(new) /\ Len(new) - m <= k
          BY <1>0, <1>2, <3>2, <3>l
      <4> QED
          BY <3>3, <3>4, <4>1 DEF RunsTo
    <3>6. RunsFrom(new, k, m, floor)
        BY <1>0, <1>3, <2>1, <3>1, <3>2 DEF RunsFrom
    <3>7. m \in 0 .. Len(new) /\ Len(new) <= RingSize
        BY <1>0, <2>1, <3>1
    <3> QED
        BY <3>1, <3>5, <3>6, <3>7
  <2>2. CASE len = RingSize
    <3>1. /\ new \in Seq(BatchId) /\ Len(new) = len
          /\ \A i \in 1 .. len - 1 : new[i] = q[i + 1]
          /\ new[len] = b
      <4>1. new = Append(Tail(q), b)
          BY <2>2 DEF new, len, Pushed
      <4>2. q # <<>>
          BY <1>0, <2>2, EmptySeq DEF len
      <4>3. /\ Tail(q) \in Seq(BatchId) /\ Len(Tail(q)) = len - 1
            /\ \A i \in 1 .. len - 1 : Tail(q)[i] = q[i + 1]
          BY <4>2, HeadTailProperties DEF len
      <4>4. (len - 1) + 1 = len
          BY <1>0
      <4> HIDE DEF b
      <4> QED
          BY <1>0, <4>1, <4>3, <4>4, AppendProperties
    <3>2. CASE k = p + 1
      <4> DEFINE u == IF m > 0 THEN m - 1 ELSE 0
      <4>0. u \in 0 .. len /\ u \in Nat
          BY <1>0
      <4>1. ASSUME NEW i \in u + 1 .. len
            PROVE  new[i] = stream[k - (len - i)].batch
        <5>1. CASE i = len
          <6>1. k - (len - i) = k
              BY <1>0, <5>1
          <6> QED
              BY <3>1, <5>1, <6>1 DEF b
        <5>2. CASE i # len
          <6>1. i + 1 \in m + 1 .. len /\ i \in 1 .. len - 1
                /\ k - (len - i) = p - (len - (i + 1))
              BY <1>0, <3>2, <5>2
          <6> QED
              BY <1>2, <3>1, <6>1
        <5> QED
            BY <5>1, <5>2
      <4>2. ASSUME NEW i \in 1 .. u
            PROVE  \E x \in 1 .. seq :
                      /\ new[i] = stream[x].batch
                      /\ x <= k \/ (len = RingSize /\ x > k + i)
        <5>1. i + 1 \in 1 .. m /\ i \in 1 .. len - 1
            BY <1>0
        <5>2. PICK x \in 1 .. seq :
                 /\ q[i + 1] = stream[x].batch
                 /\ x <= p \/ (len = RingSize /\ x > p + (i + 1))
            BY <1>2, <5>1
        <5>3. x <= k \/ (len = RingSize /\ x > k + i)
            BY <1>0, <3>2, <5>2
        <5> QED
            BY <3>1, <5>1, <5>2, <5>3
      <4>3. RunsTo(new, k, u)
        <5>1. u <= len /\ len - u <= k
          <6>1. CASE m > 0
              BY <1>0, <1>2, <3>2, <6>1
          <6>2. CASE m = 0
              BY <1>0, <1>2, <3>2, <6>2
          <6> QED
              BY <1>0, <6>1, <6>2
        <5> HIDE DEF u
        <5> QED
            BY <3>1, <4>1, <4>2, <5>1 DEF RunsTo
      <4>4. RunsFrom(new, k, u, floor)
          BY <1>0, <1>3, <2>2, <3>1, <3>2 DEF RunsFrom
      <4> HIDE DEF u
      <4> QED
          BY <1>0, <2>2, <3>1, <4>0, <4>3, <4>4
    <3>3. CASE k <= p
      <4>1. k <= p - (len - m)
        <5>1. SUFFICES ASSUME p - (len - m) < k
                       PROVE  FALSE
            BY <1>0
        <5>2. len - (p - k) \in m + 1 .. len /\ len - (p - k) \in 1 .. len
              /\ p - (len - (len - (p - k))) = k
            BY <1>0, <3>3, <5>1
        <5>3. q[len - (p - k)] = b
            BY <1>2, <5>2 DEF b
        <5> QED
            BY <1>0, <1>5, <5>2, <5>3 DEF Range
      <4>2. k = floor + 1
          BY <1>0, <4>1 DEF len
      <4>3. m = 0
          BY <1>0, <1>3, <4>1, <4>2
      <4>4. ASSUME NEW i \in 1 .. len - 1
            PROVE  \E x \in 1 .. seq :
                      /\ new[i] = stream[x].batch
                      /\ x <= k \/ (len = RingSize /\ x > k + i)
        <5> DEFINE x == p - (len - (i + 1))
        <5>1. i + 1 \in m + 1 .. len
            BY <1>0, <4>3
        <5>2. x \in 1 .. seq /\ x > k + i
            BY <1>0, <4>1, <4>3
        <5>3. new[i] = stream[x].batch
            BY <1>2, <3>1, <5>1
        <5> HIDE DEF x
        <5> QED
            BY <2>2, <5>2, <5>3
      <4>5. ASSUME NEW i \in (len - 1) + 1 .. len
            PROVE  new[i] = stream[k - (len - i)].batch
        <5>1. i = len /\ k - (len - i) = k
            BY <1>0
        <5> QED
            BY <3>1, <5>1 DEF b
      <4>6. RunsTo(new, k, len - 1)
        <5>1. len - 1 <= len /\ len - (len - 1) <= k
            BY <1>0
        <5> QED
            BY <3>1, <4>4, <4>5, <5>1 DEF RunsTo
      <4>7. RunsFrom(new, k, len - 1, floor)
          BY <1>0, <3>1, <4>2 DEF RunsFrom
      <4>8. len - 1 \in 0 .. Len(new) /\ Len(new) <= RingSize
          BY <1>0, <2>2, <3>1
      <4> QED
          BY <3>1, <4>6, <4>7, <4>8
    <3> QED
        BY <1>0, <3>2, <3>3
  <2> QED
      BY <1>0, <1>l, <2>1, <2>2
<1> QED
    BY <1>4, <1>5 DEF len, new

-----------------------------------------------------------------------------
(* Types of the composed system. *)

\* Entries that are there stay, and so does what they amount to.
LEMMA VaultGrows ==
    ASSUME Accounted, Accounted', ReplayEquations, ReplayEquations', [Next]_vars
    PROVE  /\ seq \in Nat /\ seq' \in Nat /\ seq <= seq'
           /\ \A k \in 1 .. seq : stream'[k] = stream[k]
           /\ \A k \in 0 .. seq : Replay'[k] = Replay[k]
           /\ \/ UNCHANGED <<seq, stream, store>>
              \/ \E b \in BatchId :
                    /\ Commit(b) /\ seq' = seq + 1
                    /\ stream'[seq + 1].patches = Accepted(b)
<1>1. /\ seq \in Nat /\ seq' \in Nat
      /\ seq = Len(stream) /\ seq' = Len(stream')
    BY DEF Accounted, TypeOK, StreamReplaysStore, Intact
<1>2. \/ \E b \in BatchId : Commit(b)
      \/ UNCHANGED <<seq, store, fieldHlc, tombstone, bytes, stream>>
    BY OnlyCommitWrites DEF Accounted, Intact
<1>3. ASSUME NEW b \in BatchId, Commit(b)
      PROVE  /\ seq' = seq + 1
             /\ \A k \in 1 .. seq : stream'[k] = stream[k]
             /\ stream'[seq + 1].patches = Accepted(b)
    BY <1>1, <1>3, AppendEntry DEF Accounted
<1>4. \A k \in 1 .. seq : stream'[k] = stream[k]
    BY <1>2, <1>3
<1>5. \A k \in 0 .. seq : Replay'[k] = Replay[k]
    BY <1>1, <1>4, SamePrefixReplays
<1>6. seq <= seq'
    BY <1>1, <1>2, <1>3
<1> QED
    BY <1>1, <1>2, <1>3, <1>4, <1>5, <1>6

\* A stream is opened at the entry after the position it is opened with, or
\* with the advice to fetch a snapshot.
LEMMA OpenedWhere ==
    ASSUME TypeOK, earliest <= seq + 1, NEW since \in 0 .. seq
    PROVE  /\ Opened(since) \in Link
           /\ Opened(since).since = since
           /\ \/ Opened(since).state = "resync"
              \/ /\ Opened(since).state = "open"
                 /\ Opened(since).next = since + 1
<1>1. since \in Nat /\ seq \in Nat /\ earliest \in Nat \ {0}
    BY DEF TypeOK
<1>2. CASE Gap(since)
    BY <1>1, <1>2 DEF Opened, Link
<1>3. CASE ~Gap(since)
  <2>1. earliest <= since + 1
      BY <1>1, <1>3 DEF Gap
  <2>2. Max({since + 1, earliest}) = since + 1
    <3>1. {since + 1, earliest} \subseteq Nat /\ since + 1 \in {since + 1, earliest}
          /\ \A y \in {since + 1, earliest} : y <= since + 1
        BY <1>1, <2>1
    <3> QED
        BY <3>1, GreatestIsMax
  <2> QED
      BY <1>1, <1>3, <2>2 DEF Opened, Link
<1> QED
    BY <1>2, <1>3

LEMMA ClosedIsLink == Closed \in Link
    BY DEF Closed, Link

LEMMA ShapeApplies ==
    ASSUME NEW shape \in Shape, NEW st \in Stores
    PROVE  ApplyPatches(shape, st, BrowserFresh) \in Stores
<1>1. shape \in Seq(Patch) /\ Len(shape) <= MaxBatch /\ MaxBatch \in Nat
    BY ShapesArePatchLists
<1>2. IsBatch(shape, MaxBatch)
    BY <1>1, LenProperties, ElementOfSeq DEF IsBatch
<1> QED
    BY <1>1, <1>2, FreshIsRecordOf, ApplyPatchesType DEF BrowserFresh, Stores

LEMMA EntryApplies ==
    ASSUME Accounted, NEW k \in 1 .. seq, NEW st \in Stores
    PROVE  ApplyPatches(WithoutDuplicates(stream[k].patches, st), st, BrowserFresh)
             \in Stores
<1> DEFINE b == stream[k].patches
           w == WithoutDuplicates(b, st)
<1>1. IsBatch(b, MaxBatch) /\ MaxBatch \in Nat
    BY EntriesAreBatches
<1>2. IsBatch(w, MaxBatch)
    BY <1>1 DEF WithoutDuplicates, Restrict, IsBatch
<1> HIDE DEF w
<1> QED
    BY <1>1, <1>2, FreshIsRecordOf, ApplyPatchesType DEF BrowserFresh, Stores, w

LEMMA RememberedInRing ==
    ASSUME NEW n \in Node, ring \in [Node -> Seq(BatchId)],
           Len(ring[n]) <= RingSize, NEW b \in BatchId
    PROVE  /\ Remember(n, b) = IF b \in Range(ring[n]) THEN ring[n]
                               ELSE Pushed(ring[n], b)
           /\ Remember(n, b) \in Seq(BatchId)
           /\ Len(Remember(n, b)) <= RingSize
<1> DEFINE q == ring[n]
<1>0. q \in Seq(BatchId) /\ Len(q) \in Nat /\ RingSize \in Nat \ {0}
    BY LenProperties, SyncBounds
<1>1. Remember(n, b) = IF b \in Range(q) THEN q ELSE Pushed(q, b)
    BY DEF Remember, Pushed
<1> HIDE DEF q
<1>2. Pushed(q, b) \in Seq(BatchId) /\ Len(Pushed(q, b)) <= RingSize
  <2>1. CASE Len(q) < RingSize
      BY <1>0, <2>1, AppendProperties DEF Pushed
  <2>2. CASE ~(Len(q) < RingSize)
    <3>1. q # <<>>
        BY <1>0, <2>2, EmptySeq
    <3>2. Tail(q) \in Seq(BatchId) /\ Len(Tail(q)) = Len(q) - 1
        BY <1>0, <3>1, HeadTailProperties
    <3>3. Len(q) = RingSize
        BY <1>0, <2>2 DEF q
    <3> QED
        BY <1>0, <2>2, <3>2, <3>3, AppendProperties DEF Pushed
  <2> QED
      BY <2>1, <2>2
<1> QED
    BY <1>0, <1>1, <1>2 DEF q

\* The trimming never takes away an entry still to come.
EarliestKept == earliest <= seq + 1

LEMMA StepEarliest ==
    ASSUME Accounted, EarliestKept, [Next]_vars, meta' = "live"
    PROVE  EarliestKept'
<1>0. /\ seq \in Nat /\ earliest \in Nat /\ StreamMax \in Nat /\ meta = "live"
    BY BoundsAreNaturals DEF Accounted, TypeOK
<1>1. ASSUME NEW b \in BatchId, Commit(b)
      PROVE  EarliestKept'
  <2>1. seq' = seq + 1 /\ earliest' \in earliest .. Max({earliest, seq + 2 - StreamMax})
      BY <1>1 DEF Commit
  <2>2. Max({earliest, seq + 2 - StreamMax}) \in {earliest, seq + 2 - StreamMax}
    <3>1. \E x \in {earliest, seq + 2 - StreamMax} :
             \A y \in {earliest, seq + 2 - StreamMax} : x >= y
      <4>1. CASE earliest <= seq + 2 - StreamMax
          BY <1>0, <4>1
      <4>2. CASE ~(earliest <= seq + 2 - StreamMax)
          BY <1>0, <4>2
      <4> QED
          BY <4>1, <4>2
    <3> QED
        BY <3>1 DEF Max
  <2>3. Max({earliest, seq + 2 - StreamMax}) <= seq + 2
      BY <1>0, <2>2 DEF EarliestKept
  <2>4. Max({earliest, seq + 2 - StreamMax}) \in Int
      BY <1>0, <2>2
  <2> QED
      BY <1>0, <2>1, <2>3, <2>4 DEF EarliestKept
<1>2. ASSUME \A b \in BatchId : ~Commit(b)
      PROVE  EarliestKept'
  <2>1. UNCHANGED <<seq, earliest>>
      BY <1>0, <1>2 DEF Next, Deliver, Mint, RejectDeleting, AnswerAgain, RejectAll,
             RejectQuota, Reject, Expire, LowerQuota, MarkDeleting, UnmarkDeleting,
             StartUnlinking, Unlink, vars
  <2> QED
      BY <2>1 DEF EarliestKept
<1> QED
    BY <1>1, <1>2

\* A stream was opened at a position not after the cursor; the entry it sends
\* next is the one after that position or the one after the cursor.
LinksInOrder ==
    \A n \in Node :
        /\ link[n].state \in {"open", "broken"} => link[n].since <= cursor[n]
        /\ link[n].state = "open" =>
              link[n].next \in {link[n].since + 1, cursor[n] + 1}

\* The invariants of the steps up to here, which the ones below stand on.
Grounded == Accounted /\ Delivery /\ EarliestKept

LEMMA StepSyncTypes ==
    ASSUME Grounded, Grounded', ReplayEquations, ReplayEquations',
           SyncTypeOK, LinksInOrder, [SyncNext]_syncVars
    PROVE  SyncTypeOK' /\ LinksInOrder'
<1>0. /\ Accounted /\ TypeOK /\ TypeOK' /\ FlowTypes' /\ earliest <= seq + 1
    BY DEF Grounded, Accounted, Delivery, EarliestKept
<1>g. /\ seq \in Nat /\ seq' \in Nat /\ seq <= seq'
      /\ \A k \in 0 .. seq : k \in 0 .. seq'
    <2>1. seq \in Nat /\ seq' \in Nat /\ seq <= seq'
        BY VaultGrows, SyncStepsAreVaultSteps DEF Grounded
    <2> QED
        BY <2>1
<1>f. /\ outbox' \in [Node -> Seq(BatchId)]
      /\ awaiting' \in [Node -> Request \cup {Idle}]
      /\ reply' \in [Node -> {"none", "accepted", "rejected", "lost"}]
      /\ wire' \subseteq Request
      /\ mishaps' \in 0 .. MaxMishaps
    BY <1>0 DEF FlowTypes
<1>c. /\ cursor \in [Node -> 0 .. seq'] /\ cursor \in [Node -> 0 .. seq]
      /\ saved \in [Node -> Stores] /\ local \in [Node -> Stores]
      /\ ring \in [Node -> Seq(BatchId)] /\ \A n \in Node : Len(ring[n]) <= RingSize
      /\ link \in [Node -> Link]
      /\ snap \in [Node -> [seq : 0 .. seq', records : Stores] \cup {NoSnapshot}]
  <2>1. snap \in [Node -> [seq : 0 .. seq, records : Stores] \cup {NoSnapshot}]
      BY DEF SyncTypeOK
  <2>2. [seq : 0 .. seq, records : Stores] \subseteq [seq : 0 .. seq', records : Stores]
      BY <1>g
  <2>3. cursor \in [Node -> 0 .. seq]
      BY DEF SyncTypeOK
  <2>4. cursor \in [Node -> 0 .. seq']
      BY <1>g, <2>3
  <2>5. snap \in [Node -> [seq : 0 .. seq', records : Stores] \cup {NoSnapshot}]
      BY <2>1, <2>2
  <2> QED
      BY <2>3, <2>4, <2>5 DEF SyncTypeOK
<1>d. \A n \in Node : cursor[n] \in 0 .. seq
    BY <1>c
<1> DEFINE Rest == /\ cursor' \in [Node -> 0 .. seq']
                   /\ saved' \in [Node -> Stores]
                   /\ local' \in [Node -> Stores]
                   /\ ring' \in [Node -> Seq(BatchId)]
                   /\ \A n \in Node : Len(ring'[n]) <= RingSize
                   /\ link' \in [Node -> Link]
                   /\ snap' \in [Node -> [seq : 0 .. seq', records : Stores]
                                           \cup {NoSnapshot}]
           Ordered(n) ==
               /\ link'[n].state \in {"open", "broken"} => link'[n].since <= cursor'[n]
               /\ link'[n].state = "open" =>
                     link'[n].next \in {link'[n].since + 1, cursor'[n] + 1}
<1> SUFFICES Rest /\ LinksInOrder'
    BY <1>f DEF SyncTypeOK
<1>o. \A n \in Node : link'[n] = link[n] /\ cursor'[n] = cursor[n] => Ordered(n)
    BY DEF LinksInOrder
<1>p. \A n \in Node : link'[n] = Closed => Ordered(n)
    BY DEF Closed
<1>q. (\A n \in Node : Ordered(n)) => LinksInOrder'
    BY DEF LinksInOrder
<1>u. UNCHANGED <<link, cursor>> => LinksInOrder'
    BY DEF LinksInOrder
<1>e. ASSUME NEW n \in Node, \A u \in Node \ {n} : link'[u] = link[u] /\ cursor'[u] = cursor[u],
             Ordered(n)
      PROVE  LinksInOrder'
  <2>1. \A u \in Node : Ordered(u)
      BY <1>o, <1>e
  <2> QED
      BY <1>q, <2>1
<1> HIDE DEF Ordered
<1>1. ASSUME NEW b \in BatchId, NEW shape \in Shape, Enqueue(b, shape)
      PROVE  Rest /\ LinksInOrder'
  <2>1. NodeOf[b] \in Node
      BY NodesOfBatches
  <2>2. local' = [local EXCEPT ![NodeOf[b]] = ApplyPatches(shape, local[NodeOf[b]], BrowserFresh)]
      BY <1>1 DEF Enqueue
  <2>3. ApplyPatches(shape, local[NodeOf[b]], BrowserFresh) \in Stores
      BY <1>c, <2>1, ShapeApplies
  <2>4. UNCHANGED <<cursor, saved, ring, link, snap>>
      BY <1>1 DEF Enqueue
  <2>5. local' \in [Node -> Stores]
      BY <1>c, <2>2, <2>3
  <2> QED
      BY <1>c, <1>u, <2>4, <2>5
<1>2. ASSUME NEW r \in Request, Arrive(r)
      PROVE  Rest /\ LinksInOrder'
    BY <1>2, <1>c, <1>u DEF Arrive, disk
<1>3. ASSUME NEW n \in Node, Persist(n)
      PROVE  Rest /\ LinksInOrder'
    BY <1>3, <1>c, <1>u DEF Persist
<1>4. ASSUME NEW n \in Node, Send(n) \/ Unanswered(n) \/ Cut(n)
      PROVE  Rest /\ LinksInOrder'
    BY <1>4, <1>c, <1>u DEF Send, Unanswered, Cut, disk
<1>5. ASSUME NEW n \in Node, Answered(n)
      PROVE  Rest /\ LinksInOrder'
  <2>1. awaiting[n].batch \in BatchId
    <3>1. awaiting[n] \in Request
        BY <1>5 DEF Answered, SyncTypeOK, Grounded, Delivery, AwaitedIsQueued
    <3> QED
        BY <3>1 DEF Request
  <2>2. /\ Remember(n, awaiting[n].batch) \in Seq(BatchId)
        /\ Len(Remember(n, awaiting[n].batch)) <= RingSize
      BY <1>c, <2>1, RememberedInRing
  <2>3. /\ ring' = [ring EXCEPT ![n] = Remember(n, awaiting[n].batch)]
        /\ UNCHANGED <<cursor, saved, local, link, snap>>
      BY <1>5 DEF Answered
  <2> QED
      BY <1>c, <1>u, <2>2, <2>3
<1>6. ASSUME NEW n \in Node, Connect(n) \/ NativeRetry(n) \/ Break(n)
      PROVE  Rest /\ LinksInOrder'
  <2>1. UNCHANGED <<cursor, saved, local, ring, snap, seq>>
      BY <1>6 DEF Connect, NativeRetry, Break, disk, vault, vars
  <2>2. ASSUME NEW since \in 0 .. seq, since <= cursor[n],
               link' = [link EXCEPT ![n] = Opened(since)]
        PROVE  link' \in [Node -> Link] /\ LinksInOrder'
    <3>1. /\ Opened(since) \in Link
          /\ Opened(since).since = since
          /\ \/ Opened(since).state = "resync"
             \/ /\ Opened(since).state = "open"
                /\ Opened(since).next = since + 1
        BY <1>0, OpenedWhere
    <3>2. link'[n] = Opened(since) /\ link' \in [Node -> Link]
        BY <1>c, <2>2, <3>1
    <3>3. Ordered(n)
        BY <2>1, <2>2, <3>1, <3>2 DEF Ordered
    <3> QED
        BY <1>c, <1>e, <2>1, <2>2, <3>2, <3>3
  <2>3. CASE Connect(n)
    <3>1. cursor[n] \in 0 .. seq /\ cursor[n] <= cursor[n]
          /\ link' = [link EXCEPT ![n] = Opened(cursor[n])]
        BY <1>d, <1>g, <2>3 DEF Connect
    <3>2. link' \in [Node -> Link] /\ LinksInOrder'
        BY <2>2, <3>1
    <3> QED
        BY <1>c, <2>1, <3>2
  <2>4. CASE NativeRetry(n)
    <3>1. link' = [link EXCEPT ![n] = Opened(link[n].since)] /\ link[n].state = "broken"
        BY <2>4 DEF NativeRetry
    <3>2. link[n].since \in Nat /\ link[n].since <= cursor[n]
        BY <1>c, <3>1 DEF LinksInOrder, Link
    <3>3. link[n].since \in 0 .. seq
        BY <1>d, <1>g, <3>2
    <3>4. link' \in [Node -> Link] /\ LinksInOrder'
        BY <2>2, <3>1, <3>2, <3>3
    <3> QED
        BY <1>c, <2>1, <3>4
  <2>5. CASE Break(n)
    <3>1. link' = [link EXCEPT ![n].state = "broken"] /\ link[n].state = "open"
        BY <2>5 DEF Break
    <3>2. link'[n].since = link[n].since /\ link'[n].state = "broken"
          /\ link' \in [Node -> Link]
        BY <1>c, <3>1 DEF Link
    <3>3. Ordered(n)
        BY <2>1, <3>1, <3>2 DEF Ordered, LinksInOrder
    <3>4. LinksInOrder'
        BY <1>c, <1>e, <2>1, <3>1, <3>3
    <3> QED
        BY <1>c, <2>1, <3>2, <3>4
  <2> QED
      BY <1>6, <2>3, <2>4, <2>5
<1>7. ASSUME NEW n \in Node, Receive(n)
      PROVE  Rest /\ LinksInOrder'
  <2> DEFINE k == link[n].next
             e == stream[k]
  <2>1. /\ link[n].state = "open" /\ k <= seq
        /\ local' = IF Fresher(n, e.batch)
                    THEN [local EXCEPT ![n] = ApplyPatches(
                            WithoutDuplicates(e.patches, local[n]), local[n],
                            BrowserFresh)]
                    ELSE local
        /\ ring' = [ring EXCEPT ![n] = Remember(n, e.batch)]
        /\ cursor' = [cursor EXCEPT ![n] = k]
        /\ link' = [link EXCEPT ![n].next = k + 1]
        /\ UNCHANGED <<saved, snap>>
      BY <1>7 DEF Receive
  <2>2. /\ link[n].since \in Nat /\ link[n].since <= cursor[n]
        /\ k \in {link[n].since + 1, cursor[n] + 1} /\ cursor[n] \in 0 .. seq
      BY <1>c, <1>d, <2>1 DEF LinksInOrder, Link
  <2>3. k \in 1 .. seq /\ k \in 0 .. seq' /\ link[n].since < k /\ k \in Nat
      BY <1>g, <2>1, <2>2
  <2> HIDE DEF k
  <2>4. ring' \in [Node -> Seq(BatchId)] /\ \A u \in Node : Len(ring'[u]) <= RingSize
    <3>1. e.batch \in BatchId
        BY <1>0, <2>3, EntriesAreBatches
    <3>2. /\ Remember(n, e.batch) \in Seq(BatchId)
          /\ Len(Remember(n, e.batch)) <= RingSize
        BY <1>c, <3>1, RememberedInRing
    <3> QED
        BY <1>c, <2>1, <3>2
  <2>5. local' \in [Node -> Stores]
    <3>1. ApplyPatches(WithoutDuplicates(e.patches, local[n]), local[n], BrowserFresh)
            \in Stores
        BY <1>0, <1>c, <2>3, EntryApplies
    <3> QED
        BY <1>c, <2>1, <3>1
  <2>6. link' \in [Node -> Link] /\ cursor' \in [Node -> 0 .. seq']
        /\ link'[n].next = k + 1 /\ link'[n].since = link[n].since /\ cursor'[n] = k
      BY <1>c, <2>1, <2>3 DEF Link
  <2>7. Ordered(n)
      BY <2>2, <2>3, <2>6 DEF Ordered
  <2>8. LinksInOrder'
      BY <1>c, <1>e, <2>1, <2>7
  <2> QED
      BY <1>c, <2>1, <2>4, <2>5, <2>6, <2>8
<1>8. ASSUME NEW n \in Node, ReceiveSnapshot(n)
      PROVE  Rest /\ LinksInOrder'
  <2>1. PICK k \in 0 .. seq :
           snap' = [snap EXCEPT ![n] = [seq |-> seq, records |-> Replay[k]]]
    <3>1. PICK x \in IF Lagging THEN 0 .. seq ELSE {seq} :
             snap' = [snap EXCEPT ![n] = [seq |-> seq, records |-> Replay[x]]]
        BY <1>8 DEF ReceiveSnapshot
    <3>2. x \in 0 .. seq
        BY <1>g
    <3> QED
        BY <3>1, <3>2
  <2>2. Replay[k] \in Stores /\ seq \in 0 .. seq'
      BY <1>0, <1>g, ReplayType
  <2>3. snap' \in [Node -> [seq : 0 .. seq', records : Stores] \cup {NoSnapshot}]
      BY <1>c, <2>1, <2>2
  <2>4. UNCHANGED <<cursor, saved, local, ring, link>>
      BY <1>8 DEF ReceiveSnapshot, disk
  <2> QED
      BY <1>c, <1>u, <2>3, <2>4
<1>9. ASSUME NEW n \in Node, LoseSnapshot(n)
      PROVE  Rest /\ LinksInOrder'
  <2>1. /\ link' = [link EXCEPT ![n] = Closed]
        /\ snap' = [snap EXCEPT ![n] = NoSnapshot]
        /\ UNCHANGED <<cursor, saved, local, ring>>
      BY <1>9 DEF LoseSnapshot, disk
  <2>2. LinksInOrder'
      BY <1>c, <1>e, <1>p, <2>1
  <2> QED
      BY <1>c, <2>1, <2>2, ClosedIsLink
<1>10. ASSUME NEW n \in Node, AdoptSnapshot(n)
       PROVE  Rest /\ LinksInOrder'
  <2>1. /\ snap[n] # NoSnapshot
        /\ link' = [link EXCEPT ![n] = Closed]
        /\ snap' = [snap EXCEPT ![n] = NoSnapshot]
        /\ \/ /\ local' = [local EXCEPT ![n] = snap[n].records]
              /\ cursor' = [cursor EXCEPT ![n] = snap[n].seq]
           \/ UNCHANGED <<local, cursor>>
        /\ UNCHANGED <<saved, ring>>
      BY <1>10 DEF AdoptSnapshot
  <2>2. snap[n].records \in Stores /\ snap[n].seq \in 0 .. seq'
      BY <1>c, <2>1
  <2>3. LinksInOrder'
      BY <1>c, <1>e, <1>p, <2>1
  <2> QED
      BY <1>c, <2>1, <2>2, <2>3, ClosedIsLink
<1>11. ASSUME NEW n \in Node, Reload(n) \/ Kill(n)
       PROVE  Rest /\ LinksInOrder'
  <2>1. PICK records \in {local[n], saved[n]} : Restart(n, records)
      BY <1>11 DEF Reload, Kill
  <2>2. /\ saved' = [saved EXCEPT ![n] = records]
        /\ local' = [local EXCEPT ![n] = records]
        /\ ring' = [ring EXCEPT ![n] = <<>>]
        /\ link' = [link EXCEPT ![n] = Closed]
        /\ snap' = [snap EXCEPT ![n] = NoSnapshot]
        /\ UNCHANGED cursor
      BY <2>1 DEF Restart
  <2>3. records \in Stores
      BY <1>c
  <2>4. <<>> \in Seq(BatchId) /\ Len(<<>>) <= RingSize
      BY EmptySeq, SyncBounds
  <2>5. LinksInOrder'
      BY <1>c, <1>e, <1>p, <2>2
  <2> QED
      BY <1>c, <2>2, <2>3, <2>4, <2>5, ClosedIsLink
<1>12. CASE UNCHANGED syncVars
    BY <1>12, <1>c, <1>u DEF syncVars, disk
<1> HIDE DEF Rest
<1> QED
    BY <1>1, <1>2, <1>3, <1>4, <1>5, <1>6, <1>7, <1>8, <1>9, <1>10, <1>11, <1>12
       DEF SyncNext, Flush

LEMMA StepCreatesAnew ==
    ASSUME Accounted, Accounted', ReplayEquations, ReplayEquations',
           CreatesAnew, [Next]_vars
    PROVE  CreatesAnew'
<1> SUFFICES ASSUME NEW k \in 1 .. seq', NEW s \in Subject,
                    NEW i \in DOMAIN stream'[k].patches,
                    stream'[k].patches[i] = Create(s)
             PROVE  Replay'[k - 1][s] = Absent
    BY DEF CreatesAnew
<1>1. /\ seq \in Nat /\ seq' \in Nat /\ seq <= seq'
      /\ \A x \in 1 .. seq : stream'[x] = stream[x]
      /\ \A x \in 0 .. seq : Replay'[x] = Replay[x]
      /\ \/ UNCHANGED <<seq, stream, store>>
         \/ \E b \in BatchId :
               /\ Commit(b) /\ seq' = seq + 1
               /\ stream'[seq + 1].patches = Accepted(b)
    BY VaultGrows
<1>2. CASE k \in 1 .. seq
  <2>1. k - 1 \in 0 .. seq
      BY <1>1, <1>2
  <2>2. Replay[k - 1][s] = Absent
      BY <1>1, <1>2 DEF CreatesAnew
  <2> QED
      BY <1>1, <2>1, <2>2
<1>3. CASE k \notin 1 .. seq
  <2>1. PICK b \in BatchId :
           Commit(b) /\ seq' = seq + 1 /\ stream'[seq + 1].patches = Accepted(b)
      BY <1>1, <1>3
  <2>2. k = seq + 1 /\ k - 1 = seq /\ seq \in 0 .. seq
      BY <1>1, <1>3, <2>1
  <2>3. i \in DOMAIN batch[b] /\ Take(batch[b][i], HlcOf[b]) /\ batch[b][i] = Create(s)
      BY <2>1, <2>2 DEF Accepted, Restrict
  <2>4. store[s] = Absent
      BY <2>3 DEF Take, Create
  <2>5. store = Replay[seq]
      BY EntriesAreBatches
  <2> QED
      BY <1>1, <2>2, <2>4, <2>5
<1> QED
    BY <1>2, <1>3

-----------------------------------------------------------------------------
(* A node that follows. *)

\* No stream of the node starts before this position again.
Floor(n) ==
    IF link[n].state \in {"open", "broken"} THEN link[n].since ELSE cursor[n]

\* The node n has taken the entries up to p, whose run ends its ring after m
\* other batches; its stream is at the start, or in the run or after it.
TakenTo(n, p, m) ==
    /\ RunsTo(ring[n], p, m)
    /\ RunsFrom(ring[n], p, m, Floor(n))
    /\ ShownFrom(local[n], p)
    /\ link[n].state = "open" =>
          \/ link[n].next = Floor(n) + 1
          \/ p - (Len(ring[n]) - m) < link[n].next

\* A snapshot is of the records of its position, and nothing after it has been
\* taken.
SnapshotAhead(n) ==
    snap[n] # NoSnapshot =>
        /\ link[n].state = "resync"
        /\ cursor[n] <= snap[n].seq
        /\ snap[n].records = Replay[snap[n].seq]
        /\ \A i \in DOMAIN ring[n] : \E x \in 1 .. snap[n].seq :
              ring[n][i] = stream[x].batch

Follows(n) ==
    /\ SnapshotAhead(n)
    /\ \E p \in cursor[n] .. seq, m \in 0 .. Len(ring[n]) : TakenTo(n, p, m)

\* Nobody edits on the node, and its page does not end without being told.
Follower(n) == ~Edited(n) /\ n \notin Killable

Followers == \A n \in Node : Follower(n) => Follows(n)

\* What was known of a ring and of records stays known as the stream grows.
LEMMA RunsStay ==
    ASSUME Accounted, Accounted', ReplayEquations, ReplayEquations', [Next]_vars,
           NEW q \in Seq(BatchId), NEW p \in 0 .. seq, NEW m \in 0 .. Len(q),
           RunsTo(q, p, m)
    PROVE  RunsTo(q, p, m)'
<1>1. /\ seq \in Nat /\ seq' \in Nat /\ seq <= seq'
      /\ \A k \in 1 .. seq : stream'[k] = stream[k]
    BY VaultGrows
<1>2. Len(q) \in Nat
    BY LenProperties
<1>3. m <= Len(q) /\ Len(q) - m <= p
    BY DEF RunsTo
<1>4. ASSUME NEW i \in m + 1 .. Len(q)
      PROVE  q[i] = stream'[p - (Len(q) - i)].batch
  <2>1. p - (Len(q) - i) \in 1 .. seq
      BY <1>1, <1>2, <1>3
  <2>2. q[i] = stream[p - (Len(q) - i)].batch
      BY DEF RunsTo
  <2> QED
      BY <1>1, <2>1, <2>2
<1>5. ASSUME NEW i \in 1 .. m
      PROVE  \E x \in 1 .. seq' : /\ q[i] = stream'[x].batch
                                  /\ x <= p \/ (Len(q) = RingSize /\ x > p + i)
  <2>1. PICK x \in 1 .. seq : /\ q[i] = stream[x].batch
                              /\ x <= p \/ (Len(q) = RingSize /\ x > p + i)
      BY DEF RunsTo
  <2>2. x \in 1 .. seq'
      BY <1>1
  <2> QED
      BY <1>1, <2>1, <2>2
<1> QED
    BY <1>3, <1>4, <1>5 DEF RunsTo

LEMMA ShownStays ==
    ASSUME Accounted, Accounted', ReplayEquations, ReplayEquations', [Next]_vars,
           NEW st, NEW p \in 0 .. seq, ShownFrom(st, p)
    PROVE  ShownFrom(st, p)'
<1>1. /\ seq \in Nat /\ seq' \in Nat /\ seq <= seq'
      /\ \A k \in 1 .. seq : stream'[k] = stream[k]
      /\ \A k \in 0 .. seq : Replay'[k] = Replay[k]
    BY VaultGrows
<1> SUFFICES ASSUME NEW s \in Subject
             PROVE  \E t \in p .. seq' : ShowsFrom(st, s, t)'
    BY DEF ShownFrom
<1>2. PICK t \in p .. seq : ShowsFrom(st, s, t)
    BY DEF ShownFrom
<1>3. t \in 0 .. seq /\ t \in p .. seq' /\ Replay'[t] = Replay[t]
    BY <1>1
<1>4. ASSUME NEW c \in Cell, Settled(s, c, t)'
      PROVE  Settled(s, c, t)
  <2>1. ASSUME NEW k \in t + 1 .. seq
        PROVE  ~Bears(stream[k].patches, s, c)
    <3>1. k \in t + 1 .. seq' /\ stream'[k] = stream[k]
        BY <1>1, <1>3
    <3>2. ~Bears(stream'[k].patches, s, c)
        BY <1>4, <3>1 DEF Settled
    <3> QED
        BY <3>1, <3>2
  <2> QED
      BY <2>1 DEF Settled
<1>5. ShowsFrom(st, s, t)'
    BY <1>2, <1>3, <1>4 DEF ShowsFrom
<1> QED
    BY <1>3, <1>5

\* Records that show the vault's from a position on show them from any earlier
\* one on.
LEMMA ShownEarlier ==
    ASSUME NEW p \in Nat, NEW u \in Nat, u <= p, seq \in Nat, NEW st, ShownFrom(st, p)
    PROVE  ShownFrom(st, u)
<1>1. ASSUME NEW t \in p .. seq
      PROVE  t \in u .. seq
    OBVIOUS
<1> QED
    BY <1>1 DEF ShownFrom

\* The vault's own records at a position show what they are.
LEMMA ReplayShown ==
    ASSUME NEW p \in 0 .. seq, seq \in Nat
    PROVE  ShownFrom(Replay[p], p)
<1>1. p \in p .. seq
    OBVIOUS
<1>2. \A s \in Subject : ShowsFrom(Replay[p], s, p)
    BY DEF ShowsFrom
<1> QED
    BY <1>1, <1>2 DEF ShownFrom

\* Cells say all that the comparison of two records asks for.
LEMMA SameCells ==
    ASSUME NEW r \in Record \cup {Absent}, NEW q \in Record \cup {Absent},
           \A c \in Cell : Look(r, c) = Look(q, c)
    PROVE  SameValues(r, q)
<1>1. Here \in Cell /\ Here.kind = "here"
    BY DEF Here, Cell
<1>2. r = Absent <=> q = Absent
    BY <1>1 DEF Look
<1>3. ASSUME r # Absent, q # Absent
      PROVE  r.scalar = q.scalar /\ r.members = q.members
  <2>1. ASSUME NEW f \in Scalar
        PROVE  r.scalar[f] = q.scalar[f]
    <3> DEFINE c == [kind |-> "scalar", prop |-> f]
    <3>1. c \in Cell /\ c.kind = "scalar" /\ c.prop = f
        BY DEF Cell
    <3> HIDE DEF c
    <3>2. Look(r, c) = r.scalar[f] /\ Look(q, c) = q.scalar[f]
        BY <1>3, <3>1 DEF Look
    <3> QED
        BY <3>1, <3>2
  <2>2. ASSUME NEW f \in SetField, NEW m \in Member
        PROVE  m \in r.members[f] <=> m \in q.members[f]
    <3> DEFINE c == [kind |-> "member", prop |-> f, member |-> m]
    <3>1. c \in Cell /\ c.kind = "member" /\ c.prop = f /\ c.member = m
        BY DEF Cell
    <3> HIDE DEF c
    <3>2. /\ Look(r, c) = IF m \in r.members[f] THEN 1 ELSE 0
          /\ Look(q, c) = IF m \in q.members[f] THEN 1 ELSE 0
        BY <1>3, <3>1 DEF Look
    <3> QED
        BY <3>1, <3>2
  <2>3. /\ r.scalar \in [Scalar -> Value \cup {Missing}]
        /\ q.scalar \in [Scalar -> Value \cup {Missing}]
        /\ r.members \in [SetField -> SUBSET Member]
        /\ q.members \in [SetField -> SUBSET Member]
      BY <1>3 DEF Record
  <2>4. r.scalar = q.scalar
      BY <2>1, <2>3
  <2>5. \A f \in SetField : r.members[f] = q.members[f]
      BY <2>2, <2>3
  <2>6. r.members = q.members
      BY <2>3, <2>5
  <2> QED
      BY <2>4, <2>6
<1> QED
    BY <1>2, <1>3 DEF SameValues

\* All that a step may rely on, before and after it.
Standing ==
    /\ Grounded
    /\ SyncTypeOK
    /\ LinksInOrder
    /\ CreatesAnew

LEMMA StandingFacts ==
    ASSUME Standing, NEW n \in Node
    PROVE  /\ Accounted /\ TypeOK /\ Delivery /\ RecordKept /\ earliest <= seq + 1
           /\ seq \in Nat /\ RingSize \in Nat \ {0}
           /\ cursor[n] \in 0 .. seq /\ cursor[n] \in Nat
           /\ local[n] \in Stores
           /\ ring[n] \in Seq(BatchId) /\ Len(ring[n]) <= RingSize
           /\ Len(ring[n]) \in Nat /\ DOMAIN ring[n] = 1 .. Len(ring[n])
           /\ link[n] \in Link
           /\ snap[n] # NoSnapshot => snap[n].seq \in 0 .. seq /\ snap[n].records \in Stores
           /\ Floor(n) \in Nat /\ Floor(n) <= cursor[n]
<1>1. Accounted /\ TypeOK /\ Delivery /\ RecordKept /\ earliest <= seq + 1
    BY DEF Standing, Grounded, Accounted, Delivery, EarliestKept
<1>2. seq \in Nat /\ RingSize \in Nat \ {0}
    BY <1>1, SyncBounds DEF TypeOK
<1>3. /\ cursor[n] \in 0 .. seq
      /\ local[n] \in Stores
      /\ ring[n] \in Seq(BatchId) /\ Len(ring[n]) <= RingSize
      /\ link[n] \in Link
      /\ snap[n] \in [seq : 0 .. seq, records : Stores] \cup {NoSnapshot}
    BY DEF Standing, SyncTypeOK
<1>4. Len(ring[n]) \in Nat /\ DOMAIN ring[n] = 1 .. Len(ring[n])
    BY <1>3, LenProperties
<1>5. cursor[n] \in Nat
    BY <1>2, <1>3
<1>6. Floor(n) \in Nat /\ Floor(n) <= cursor[n]
    BY <1>3, <1>5 DEF Floor, Link, Standing, LinksInOrder
<1> QED
    BY <1>1, <1>2, <1>3, <1>4, <1>5, <1>6

\* What a step has to show of the node it is about, in terms of the state
\* before it.
LEMMA TakenAfter ==
    ASSUME Standing, Standing', ReplayEquations, ReplayEquations', [Next]_vars,
           NEW n \in Node, NEW q \in Seq(BatchId), q = ring'[n], NEW st, st = local'[n],
           NEW p \in 0 .. seq, cursor'[n] <= p, NEW m \in 0 .. Len(q),
           NEW floor, floor = Floor(n)',
           RunsTo(q, p, m), RunsFrom(q, p, m, floor), ShownFrom(st, p),
           link'[n].state = "open" =>
               link'[n].next = floor + 1 \/ p - (Len(q) - m) < link'[n].next
    PROVE  (\E x \in cursor[n] .. seq, y \in 0 .. Len(ring[n]) : TakenTo(n, x, y))'
<1>0. Accounted /\ Accounted'
    BY DEF Standing, Grounded
<1>1. seq \in Nat /\ seq' \in Nat /\ seq <= seq'
    BY <1>0, VaultGrows
<1>2. RunsTo(q, p, m)' /\ ShownFrom(st, p)'
    BY <1>0, RunsStay, ShownStays
<1>3. cursor'[n] \in 0 .. seq'
    BY DEF Standing, SyncTypeOK
<1>4. p \in cursor'[n] .. seq'
    BY <1>1, <1>3
<1>5. TakenTo(n, p, m)'
  <2>1. RunsTo(ring[n], p, m)'
      BY <1>2 DEF RunsTo
  <2>2. ShownFrom(local[n], p)'
      BY <1>2 DEF ShownFrom, ShowsFrom
  <2> QED
      BY <2>1, <2>2 DEF TakenTo
<1> QED
    BY <1>4, <1>5

\* A node a step leaves alone follows as before.
LEMMA LeftAloneFollows ==
    ASSUME Standing, Standing', ReplayEquations, ReplayEquations', [Next]_vars,
           NEW n \in Node, Follows(n),
           cursor'[n] = cursor[n], ring'[n] = ring[n], local'[n] = local[n],
           link'[n] = link[n], snap'[n] = snap[n]
    PROVE  Follows(n)'
<1>0. Accounted /\ Accounted'
    BY DEF Standing, Grounded
<1>1. /\ seq \in Nat /\ seq' \in Nat /\ seq <= seq'
      /\ \A k \in 1 .. seq : stream'[k] = stream[k]
      /\ \A k \in 0 .. seq : Replay'[k] = Replay[k]
    BY <1>0, VaultGrows
<1>2. SnapshotAhead(n)'
  <2> SUFFICES ASSUME snap[n] # NoSnapshot
               PROVE  /\ link'[n].state = "resync"
                      /\ cursor'[n] <= snap[n].seq
                      /\ snap[n].records = Replay'[snap[n].seq]
                      /\ \A i \in DOMAIN ring[n] : \E x \in 1 .. snap[n].seq :
                            ring[n][i] = stream'[x].batch
      BY DEF SnapshotAhead
  <2>1. snap[n].seq \in 0 .. seq
      BY StandingFacts
  <2>2. /\ link[n].state = "resync" /\ cursor[n] <= snap[n].seq
        /\ snap[n].records = Replay[snap[n].seq]
        /\ \A i \in DOMAIN ring[n] : \E x \in 1 .. snap[n].seq :
              ring[n][i] = stream[x].batch
      BY DEF Follows, SnapshotAhead
  <2>3. \A x \in 1 .. snap[n].seq : stream'[x] = stream[x]
      BY <1>1, <2>1
  <2> QED
      BY <1>1, <2>1, <2>2, <2>3
<1>3. PICK p \in cursor[n] .. seq, m \in 0 .. Len(ring[n]) : TakenTo(n, p, m)
    BY DEF Follows
<1>4. p \in 0 .. seq /\ cursor[n] <= p /\ ring[n] \in Seq(BatchId)
    BY <1>1, <1>3, StandingFacts
<1>5. Floor(n)' = Floor(n)
    BY DEF Floor
<1>6. PICK q : q = ring[n]
    OBVIOUS
<1>7. PICK st : st = local[n]
    OBVIOUS
<1>8. PICK floor : floor = Floor(n)
    OBVIOUS
<1>9. /\ RunsTo(q, p, m) /\ RunsFrom(q, p, m, floor) /\ ShownFrom(st, p)
      /\ link'[n].state = "open" =>
            link'[n].next = floor + 1 \/ p - (Len(q) - m) < link'[n].next
    BY <1>3, <1>6, <1>7, <1>8 DEF TakenTo
<1>10. m \in 0 .. Len(q) /\ q \in Seq(BatchId)
    BY <1>3, <1>4, <1>6
<1>11. (\E x \in cursor[n] .. seq, y \in 0 .. Len(ring[n]) : TakenTo(n, x, y))'
    BY <1>4, <1>5, <1>6, <1>7, <1>8, <1>9, <1>10, TakenAfter
<1> QED
    BY <1>2, <1>11 DEF Follows

\* Where an entry the stream sends next leaves the node.
LEMMA ReceiveFollows ==
    ASSUME Standing, Standing', ReplayEquations, ReplayEquations', [Next]_vars,
           NEW n \in Node, Follower(n), Follows(n), Receive(n)
    PROVE  Follows(n)'
<1> DEFINE k == link[n].next
           b == stream[k].batch
<1>1. /\ link[n].state = "open" /\ k <= seq
      /\ local' = IF Fresher(n, b)
                  THEN [local EXCEPT ![n] = ApplyPatches(
                          WithoutDuplicates(stream[k].patches, local[n]), local[n],
                          BrowserFresh)]
                  ELSE local
      /\ ring' = [ring EXCEPT ![n] = Remember(n, b)]
      /\ cursor' = [cursor EXCEPT ![n] = k]
      /\ link' = [link EXCEPT ![n].next = k + 1]
      /\ UNCHANGED snap
    BY DEF Receive
<1>2. /\ Accounted /\ RecordKept /\ seq \in Nat
      /\ cursor[n] \in 0 .. seq /\ cursor[n] \in Nat
      /\ local[n] \in Stores
      /\ ring[n] \in Seq(BatchId) /\ Len(ring[n]) <= RingSize
      /\ link[n] \in Link
      /\ Floor(n) \in Nat /\ Floor(n) <= cursor[n]
    BY StandingFacts
<1>3. /\ link \in [Node -> Link] /\ cursor \in [Node -> 0 .. seq]
      /\ local \in [Node -> Stores] /\ ring \in [Node -> Seq(BatchId)]
    BY DEF Standing, SyncTypeOK
<1>4. Floor(n) = link[n].since
    BY <1>1 DEF Floor
<1>5. k \in {Floor(n) + 1, cursor[n] + 1}
    BY <1>1, <1>4 DEF Standing, LinksInOrder
<1>6. PICK p \in cursor[n] .. seq, m \in 0 .. Len(ring[n]) : TakenTo(n, p, m)
    BY DEF Follows
<1>7. PICK floor : floor = Floor(n)
    OBVIOUS
<1>8. /\ p \in 0 .. seq /\ cursor[n] <= p /\ floor \in 0 .. p
      /\ k \in 1 .. seq /\ floor < k /\ k <= p + 1
    BY <1>1, <1>2, <1>5, <1>6, <1>7
<1>9. /\ RunsTo(ring[n], p, m) /\ RunsFrom(ring[n], p, m, floor)
      /\ ShownFrom(local[n], p)
      /\ k = floor + 1 \/ p - (Len(ring[n]) - m) < k
    BY <1>1, <1>6, <1>7 DEF TakenTo
<1>10. /\ cursor'[n] = k /\ link'[n].next = k + 1 /\ link'[n].state = "open"
       /\ link'[n].since = link[n].since
       /\ ring'[n] = Remember(n, b)
    BY <1>1, <1>3 DEF Link
<1>11. floor = Floor(n)'
    BY <1>4, <1>7, <1>10 DEF Floor
<1>12. b \in BatchId /\ CreatesAnew /\ NodeOf[b] # n
  <2>1. b \in BatchId /\ k \in DOMAIN stream
      BY <1>2, <1>8, EntriesAreBatches
  <2>2. batch[b] # Unminted
      BY <2>1 DEF Standing, Grounded, Delivery, SentInOrder, IsNext
  <2> QED
      BY <2>1, <2>2 DEF Standing, Follower, Edited
<1>13. Remember(n, b) = IF b \in Range(ring[n]) THEN ring[n] ELSE Pushed(ring[n], b)
    BY <1>2, <1>3, <1>12, RememberedInRing
<1>14. snap'[n] = NoSnapshot
    BY <1>1, <1>10 DEF Follows, SnapshotAhead
<1>15. SnapshotAhead(n)'
    BY <1>14 DEF SnapshotAhead
<1> HIDE DEF k
<1>16. CASE b \in Range(ring[n])
  <2>1. k <= p /\ p - (Len(ring[n]) - m) < k + 1
      BY <1>2, <1>6, <1>8, <1>9, <1>16, RingStep
  <2>2. local'[n] = local[n] /\ ring'[n] = ring[n]
      BY <1>1, <1>10, <1>13, <1>16 DEF Fresher
  <2>3. PICK q : q = ring[n]
      OBVIOUS
  <2>4. PICK st : st = local[n]
      OBVIOUS
  <2>5. /\ q \in Seq(BatchId) /\ q = ring'[n] /\ st = local'[n]
        /\ m \in 0 .. Len(q)
        /\ RunsTo(q, p, m) /\ RunsFrom(q, p, m, floor) /\ ShownFrom(st, p)
        /\ cursor'[n] <= p
        /\ p - (Len(q) - m) < link'[n].next
      BY <1>2, <1>6, <1>9, <1>10, <2>1, <2>2, <2>3, <2>4
  <2>6. (\E x \in cursor[n] .. seq, y \in 0 .. Len(ring[n]) : TakenTo(n, x, y))'
      BY <1>8, <1>11, <2>5, TakenAfter
  <2> QED
      BY <1>15, <2>6 DEF Follows
<1>17. CASE b \notin Range(ring[n])
  <2>1. PICK q : q = Pushed(ring[n], b)
      OBVIOUS
  <2>2. PICK st : st = ApplyPatches(WithoutDuplicates(stream[k].patches, local[n]),
                                    local[n], BrowserFresh)
      OBVIOUS
  <2>3. /\ q \in Seq(BatchId)
        /\ \E u \in 0 .. Len(q) : RunsTo(q, k, u) /\ RunsFrom(q, k, u, floor)
      BY <1>2, <1>6, <1>8, <1>9, <1>17, <2>1, RingStep
  <2>4. PICK u \in 0 .. Len(q) : RunsTo(q, k, u) /\ RunsFrom(q, k, u, floor)
      BY <2>3
  <2>5. q = ring'[n]
      BY <1>10, <1>13, <1>17, <2>1
  <2>6. st = local'[n]
      BY <1>1, <1>3, <1>12, <1>17, <2>2 DEF Fresher
  <2>7. ShownFrom(st, k)
      BY <1>2, <1>8, <1>9, <1>12, <2>2, TakeEntry
  <2>8. k \in 0 .. seq /\ k \in Nat /\ Len(q) \in Nat
      BY <1>8, <2>3, LenProperties
  <2>9. cursor'[n] <= k /\ k - (Len(q) - u) < link'[n].next
      BY <1>10, <2>4, <2>8
  <2>10. PICK kk : kk = k
      OBVIOUS
  <2>11. /\ kk \in 0 .. seq /\ cursor'[n] <= kk
         /\ RunsTo(q, kk, u) /\ RunsFrom(q, kk, u, floor) /\ ShownFrom(st, kk)
         /\ kk - (Len(q) - u) < link'[n].next
      BY <2>4, <2>7, <2>8, <2>9, <2>10
  <2>12. (\E x \in cursor[n] .. seq, y \in 0 .. Len(ring[n]) : TakenTo(n, x, y))'
      BY <1>11, <2>3, <2>4, <2>5, <2>6, <2>11, TakenAfter
  <2> QED
      BY <1>15, <2>12 DEF Follows
<1> QED
    BY <1>16, <1>17

\* A stream is opened, or closed, where the cursor is or where it was before.
LEMMA RelinkFollows ==
    ASSUME Standing, Standing', ReplayEquations, ReplayEquations', [Next]_vars,
           NEW n \in Node, Follows(n),
           cursor'[n] = cursor[n], ring'[n] = ring[n], local'[n] = local[n],
           snap'[n] = NoSnapshot,
           Floor(n) <= Floor(n)',
           link'[n].state = "open" => link'[n].next = Floor(n)' + 1
    PROVE  Follows(n)'
<1>1. PICK p \in cursor[n] .. seq, m \in 0 .. Len(ring[n]) : TakenTo(n, p, m)
    BY DEF Follows
<1>2. /\ seq \in Nat /\ cursor[n] \in Nat /\ ring[n] \in Seq(BatchId)
      /\ Len(ring[n]) \in Nat /\ Floor(n) \in Nat /\ RingSize \in Nat
    BY StandingFacts
<1>3. Floor(n)' \in Nat
  <2>1. seq' \in Nat
      BY DEF Standing, Grounded, Accounted, TypeOK
  <2>2. cursor'[n] \in 0 .. seq' /\ link'[n] \in Link
      BY DEF Standing, SyncTypeOK
  <2> QED
      BY <2>1, <2>2 DEF Floor, Link
<1>4. PICK q : q = ring[n]
    OBVIOUS
<1>5. PICK st : st = local[n]
    OBVIOUS
<1>6. PICK floor : floor = Floor(n)'
    OBVIOUS
<1>7. p \in 0 .. seq /\ cursor'[n] <= p /\ m \in 0 .. Len(q) /\ q \in Seq(BatchId)
    BY <1>1, <1>2, <1>4
<1>8. RunsTo(q, p, m) /\ ShownFrom(st, p)
    BY <1>1, <1>4, <1>5 DEF TakenTo
<1>9. RunsFrom(q, p, m, floor)
  <2>1. RunsFrom(q, p, m, Floor(n))
      BY <1>1, <1>4 DEF TakenTo
  <2>2. Len(q) \in Nat /\ p \in Nat /\ m \in Nat /\ floor \in Nat /\ Floor(n) <= floor
      BY <1>2, <1>3, <1>4, <1>6, <1>7
  <2> QED
      BY <1>2, <2>1, <2>2 DEF RunsFrom
<1>10. (\E x \in cursor[n] .. seq, y \in 0 .. Len(ring[n]) : TakenTo(n, x, y))'
    BY <1>4, <1>5, <1>6, <1>7, <1>8, <1>9, TakenAfter
<1>11. SnapshotAhead(n)'
    BY DEF SnapshotAhead
<1> QED
    BY <1>10, <1>11 DEF Follows

\* The snapshot of a node is of the records of now, as the code means it to be.
LEMMA ReceiveSnapshotFollows ==
    ASSUME Standing, Standing', ReplayEquations, ReplayEquations', [Next]_vars,
           ~Lagging, NEW n \in Node, Follows(n), ReceiveSnapshot(n)
    PROVE  Follows(n)'
<1>1. /\ link[n].state = "resync"
      /\ snap' = [snap EXCEPT ![n] = [seq |-> seq, records |-> Replay[seq]]]
      /\ UNCHANGED <<vars, cursor, local, ring, link>>
    BY DEF ReceiveSnapshot, vault, disk
<1>2. /\ Accounted /\ seq \in Nat /\ cursor[n] \in 0 .. seq
      /\ ring[n] \in Seq(BatchId) /\ Len(ring[n]) \in Nat
      /\ DOMAIN ring[n] = 1 .. Len(ring[n])
      /\ Accounted'
    BY StandingFacts DEF Standing, Grounded
<1>3. UNCHANGED <<seq, stream, store>>
    BY <1>1 DEF vars
<1>4. \A k \in 0 .. seq : Replay'[k] = Replay[k]
    BY <1>2, VaultGrows
<1>5. PICK p \in cursor[n] .. seq, m \in 0 .. Len(ring[n]) : TakenTo(n, p, m)
    BY DEF Follows
<1>6. SnapshotAhead(n)'
  <2>1. ASSUME NEW i \in 1 .. Len(ring[n])
        PROVE  \E x \in 1 .. seq : ring[n][i] = stream[x].batch
    <3>1. RunsTo(ring[n], p, m)
        BY <1>5 DEF TakenTo
    <3>2. CASE i \in 1 .. m
        BY <3>1, <3>2 DEF RunsTo
    <3>3. CASE i \in m + 1 .. Len(ring[n])
      <4>0. PICK len \in Nat : len = Len(ring[n])
          BY <1>2
      <4>1. len - m <= p /\ p \in Nat /\ p <= seq /\ m \in Nat
          BY <1>2, <1>5, <3>1, <4>0 DEF RunsTo
      <4>2. i \in Nat /\ m < i /\ i <= len
          BY <3>3, <4>0, <4>1
      <4>3. p - (len - i) \in 1 .. seq
          BY <1>2, <4>0, <4>1, <4>2
      <4> QED
          BY <3>1, <3>3, <4>0, <4>3 DEF RunsTo
    <3> QED
        BY <1>2, <3>2, <3>3
  <2>2. PICK it : it = [seq |-> seq, records |-> Replay[seq]]
      OBVIOUS
  <2>3. snap'[n] = it
      BY <1>1, <2>2 DEF Standing, SyncTypeOK
  <2>4. it.seq = seq /\ it.records = Replay'[seq] /\ cursor[n] <= seq
      BY <1>2, <1>4, <2>2
  <2>5. SnapshotAhead(n)' = (snap'[n] # NoSnapshot =>
           /\ link'[n].state = "resync"
           /\ cursor'[n] <= snap'[n].seq
           /\ snap'[n].records = Replay'[snap'[n].seq]
           /\ \A i \in DOMAIN ring'[n] : \E x \in 1 .. snap'[n].seq :
                 ring'[n][i] = stream'[x].batch)
      BY DEF SnapshotAhead
  <2>6. \A i \in DOMAIN ring'[n] : \E x \in 1 .. seq : ring'[n][i] = stream'[x].batch
      BY <1>1, <1>2, <1>3, <2>1
  <2> QED
      BY <1>1, <2>3, <2>4, <2>5, <2>6
<1>7. PICK q : q = ring[n]
    OBVIOUS
<1>8. PICK st : st = local[n]
    OBVIOUS
<1>9. PICK floor : floor = Floor(n)
    OBVIOUS
<1>10. Floor(n)' = Floor(n)
    BY <1>1 DEF Floor
<1>11. /\ RunsTo(q, p, m) /\ RunsFrom(q, p, m, floor) /\ ShownFrom(st, p)
       /\ q \in Seq(BatchId) /\ m \in 0 .. Len(q) /\ p \in 0 .. seq /\ cursor'[n] <= p
    BY <1>1, <1>2, <1>5, <1>7, <1>8, <1>9 DEF TakenTo
<1>12. link'[n].state # "open" /\ q = ring'[n] /\ st = local'[n] /\ floor = Floor(n)'
    BY <1>1, <1>7, <1>8, <1>9, <1>10
<1>13. (\E x \in cursor[n] .. seq, y \in 0 .. Len(ring[n]) : TakenTo(n, x, y))'
    BY <1>11, <1>12, TakenAfter
<1> QED
    BY <1>6, <1>13 DEF Follows

\* The records of a snapshot and its position replace what the node had.
LEMMA AdoptSnapshotFollows ==
    ASSUME Standing, Standing', ReplayEquations, ReplayEquations', [Next]_vars,
           NEW n \in Node, Follows(n), AdoptSnapshot(n)
    PROVE  Follows(n)'
<1>1. /\ snap[n] # NoSnapshot
      /\ snap' = [snap EXCEPT ![n] = NoSnapshot]
      /\ link' = [link EXCEPT ![n] = Closed]
      /\ UNCHANGED ring
    BY DEF AdoptSnapshot
<1>2. /\ seq \in Nat /\ RingSize \in Nat \ {0} /\ cursor[n] \in 0 .. seq
      /\ ring[n] \in Seq(BatchId) /\ Len(ring[n]) \in Nat
      /\ DOMAIN ring[n] = 1 .. Len(ring[n])
      /\ snap[n].seq \in 0 .. seq
      /\ Floor(n) \in Nat /\ Floor(n) <= cursor[n]
    BY <1>1, StandingFacts
<1>3. snap'[n] = NoSnapshot /\ link'[n] = Closed
    BY <1>1 DEF Standing, SyncTypeOK
<1>4. link'[n].state = "closed" /\ Floor(n)' = cursor'[n]
    BY <1>3 DEF Closed, Floor
<1>5. CASE Valid(snap[n].records)
  <2>1. /\ local'[n] = snap[n].records /\ cursor'[n] = snap[n].seq
      BY <1>1, <1>5 DEF AdoptSnapshot, Standing, SyncTypeOK
  <2>2. PICK p \in 0 .. seq : p = snap[n].seq
      BY <1>2
  <2>3. PICK q : q = ring[n]
      OBVIOUS
  <2>4. PICK st : st = Replay[p]
      OBVIOUS
  <2>5. /\ \A i \in 1 .. Len(q) : \E x \in 1 .. p : q[i] = stream[x].batch
        /\ snap[n].records = st
      BY <1>1, <1>2, <2>2, <2>3, <2>4 DEF Follows, SnapshotAhead
  <2>6. q \in Seq(BatchId) /\ Len(q) \in Nat /\ p \in Nat
      BY <1>2, <2>2, <2>3
  <2>7. RunsTo(q, p, Len(q))
    <3>1. Len(q) <= Len(q) /\ Len(q) - Len(q) <= p
        BY <2>6
    <3>2. \A i \in Len(q) + 1 .. Len(q) : q[i] = stream[p - (Len(q) - i)].batch
        BY <2>6
    <3>3. \A i \in 1 .. Len(q) : \E x \in 1 .. seq :
             q[i] = stream[x].batch /\ x <= p
      <4>1. \A x \in 1 .. p : x \in 1 .. seq /\ x <= p
          BY <1>2, <2>2
      <4> QED
          BY <2>5, <4>1
    <3> QED
        BY <3>1, <3>2, <3>3 DEF RunsTo
  <2>8. RunsFrom(q, p, Len(q), p)
      BY <2>6 DEF RunsFrom
  <2>9. ShownFrom(st, p)
      BY <1>2, <2>2, <2>4, ReplayShown
  <2>10. /\ q = ring'[n] /\ st = local'[n] /\ p = Floor(n)' /\ cursor'[n] <= p
         /\ Len(q) \in 0 .. Len(q) /\ link'[n].state # "open"
      BY <1>1, <1>4, <2>1, <2>2, <2>3, <2>5, <2>6
  <2>11. PICK m \in 0 .. Len(q) : m = Len(q)
      BY <2>10
  <2>12. PICK floor : floor = p
      OBVIOUS
  <2>13. /\ RunsTo(q, p, m) /\ RunsFrom(q, p, m, floor) /\ floor = Floor(n)'
      BY <2>7, <2>8, <2>10, <2>11, <2>12
  <2>14. (\E x \in cursor[n] .. seq, y \in 0 .. Len(ring[n]) : TakenTo(n, x, y))'
      BY <2>6, <2>9, <2>10, <2>13, TakenAfter
  <2>15. SnapshotAhead(n)'
      BY <1>3 DEF SnapshotAhead
  <2> QED
      BY <2>14, <2>15 DEF Follows
<1>6. CASE ~Valid(snap[n].records)
  <2>1. cursor'[n] = cursor[n] /\ local'[n] = local[n] /\ ring'[n] = ring[n]
      BY <1>1, <1>6 DEF AdoptSnapshot
  <2>2. Floor(n) <= Floor(n)'
      BY <1>2, <1>4, <2>1
  <2>3. link'[n].state = "open" => link'[n].next = Floor(n)' + 1
      BY <1>4
  <2> QED
      BY <1>3, <2>1, <2>2, <2>3, RelinkFollows
<1> QED
    BY <1>5, <1>6

\* A new page knows no batches; what it shows, it showed from the cursor on.
LEMMA ReloadFollows ==
    ASSUME Standing, Standing', ReplayEquations, ReplayEquations', [Next]_vars,
           NEW n \in Node, Follows(n), Reload(n)
    PROVE  Follows(n)'
<1>1. /\ local'[n] = local[n] /\ ring'[n] = <<>> /\ cursor'[n] = cursor[n]
      /\ link'[n] = Closed /\ snap'[n] = NoSnapshot
    BY DEF Reload, Restart, Standing, SyncTypeOK
<1>2. seq \in Nat /\ cursor[n] \in 0 .. seq /\ cursor[n] \in Nat /\ RingSize \in Nat \ {0}
    BY StandingFacts
<1>3. PICK p \in cursor[n] .. seq, m \in 0 .. Len(ring[n]) : TakenTo(n, p, m)
    BY DEF Follows
<1>4. PICK u \in 0 .. seq : u = cursor[n]
    BY <1>2
<1>5. PICK st : st = local[n]
    OBVIOUS
<1>6. ShownFrom(st, u)
  <2>1. ShownFrom(st, p)
      BY <1>3, <1>5 DEF TakenTo
  <2>2. p \in Nat /\ u \in Nat /\ u <= p
      BY <1>2, <1>3, <1>4
  <2> QED
      BY <1>2, <2>1, <2>2, ShownEarlier
<1>7. PICK q \in Seq(BatchId) : q = <<>>
    BY EmptySeq
<1>8. Len(q) = 0
    BY <1>7, EmptySeq
<1>9. RunsTo(q, u, 0) /\ RunsFrom(q, u, 0, u)
    BY <1>2, <1>4, <1>8 DEF RunsTo, RunsFrom
<1>10. /\ q = ring'[n] /\ st = local'[n] /\ u = Floor(n)' /\ cursor'[n] <= u
       /\ link'[n].state # "open"
    BY <1>1, <1>2, <1>4, <1>5, <1>7 DEF Floor, Closed
<1>11. PICK z \in 0 .. Len(q) : z = 0
    BY <1>8
<1>12. PICK floor : floor = u
    OBVIOUS
<1>13. RunsTo(q, u, z) /\ RunsFrom(q, u, z, floor) /\ floor = Floor(n)'
    BY <1>9, <1>10, <1>11, <1>12
<1>14. (\E x \in cursor[n] .. seq, y \in 0 .. Len(ring[n]) : TakenTo(n, x, y))'
    BY <1>6, <1>10, <1>13, TakenAfter
<1>15. SnapshotAhead(n)'
    BY <1>1 DEF SnapshotAhead
<1> QED
    BY <1>14, <1>15 DEF Follows

\* A stream opened at the position u follows from there, or waits for a
\* snapshot.
LEMMA OpensFollow ==
    ASSUME Standing, Standing', ReplayEquations, ReplayEquations', [Next]_vars,
           NEW n \in Node, Follows(n),
           cursor'[n] = cursor[n], ring'[n] = ring[n], local'[n] = local[n],
           snap'[n] = NoSnapshot,
           NEW u \in Floor(n) .. cursor[n], link'[n] = Opened(u)
    PROVE  Follows(n)'
<1>1. /\ TypeOK /\ earliest <= seq + 1 /\ seq \in Nat /\ cursor[n] \in 0 .. seq
      /\ Floor(n) \in Nat /\ Floor(n) <= cursor[n]
    BY StandingFacts
<1>2. u \in 0 .. seq /\ u \in Nat /\ Floor(n) <= u /\ u <= cursor[n]
    BY <1>1
<1>3. /\ link'[n].since = u
      /\ \/ link'[n].state = "resync"
         \/ link'[n].state = "open" /\ link'[n].next = u + 1
    BY <1>1, <1>2, OpenedWhere
<1>4. Floor(n)' \in {u, cursor[n]}
    BY <1>3 DEF Floor
<1>5. Floor(n) <= Floor(n)'
    BY <1>1, <1>2, <1>4
<1>6. link'[n].state = "open" => link'[n].next = Floor(n)' + 1
    BY <1>3 DEF Floor
<1> QED
    BY <1>5, <1>6, RelinkFollows

\* Every step leaves the nodes nobody edits on where they follow.
LEMMA StepFollowers ==
    ASSUME Standing, Standing', ReplayEquations, ReplayEquations',
           [SyncNext]_syncVars, ~Lagging, ~Overlapping, Followers
    PROVE  Followers'
<1> SUFFICES ASSUME NEW n \in Node, Follower(n)'
             PROVE  Follows(n)'
    BY DEF Followers
<1>n. [Next]_vars
    BY SyncStepsAreVaultSteps
<1>t. TypeOK /\ Delivery /\ SyncTypeOK
    BY DEF Standing, Grounded, Accounted
<1>f. Follower(n)
    BY <1>n, <1>t, MintedOnce DEF Follower, Edited
<1>h. Follows(n)
    BY <1>f DEF Followers
<1>s. /\ snap[n] # NoSnapshot => link[n].state = "resync"
      /\ TypeOK /\ earliest <= seq + 1 /\ seq \in Nat /\ cursor[n] \in 0 .. seq
      /\ Floor(n) \in Nat /\ Floor(n) <= cursor[n] /\ link[n] \in Link
    BY <1>h, StandingFacts DEF Follows, SnapshotAhead
<1> DEFINE Left(u) == /\ cursor'[u] = cursor[u] /\ ring'[u] = ring[u]
                      /\ local'[u] = local[u] /\ link'[u] = link[u] /\ snap'[u] = snap[u]
<1>a. Left(n) => Follows(n)'
    BY <1>n, <1>h, LeftAloneFollows
<1>1. ASSUME NEW b \in BatchId, NEW shape \in Shape, Enqueue(b, shape)
      PROVE  Follows(n)'
  <2>1. NodeOf[b] # n
    <3>1. batch'[b] = shape /\ shape # Unminted
        BY <1>1, <1>t, UnmintedIsNoShape DEF Enqueue, Mint, TypeOK
    <3> QED
        BY <3>1 DEF Follower, Edited
  <2>2. Left(n)
      BY <1>1, <1>t, <2>1 DEF Enqueue, SyncTypeOK
  <2> QED
      BY <1>a, <2>2
<1>2. ASSUME NEW r \in Request, Arrive(r)
      PROVE  Follows(n)'
    BY <1>2, <1>a DEF Arrive, disk
<1>3. ASSUME NEW m \in Node, Persist(m) \/ Send(m) \/ Unanswered(m) \/ Cut(m)
      PROVE  Follows(n)'
    BY <1>3, <1>a DEF Persist, Send, Unanswered, Cut, disk
<1>4. ASSUME NEW m \in Node, m # n,
             \/ Answered(m) \/ Connect(m) \/ Break(m) \/ NativeRetry(m) \/ Receive(m)
             \/ ReceiveSnapshot(m) \/ LoseSnapshot(m) \/ AdoptSnapshot(m)
             \/ Reload(m) \/ Kill(m)
      PROVE  Follows(n)'
  <2>0. /\ n \in DOMAIN cursor /\ n \in DOMAIN ring /\ n \in DOMAIN local
        /\ n \in DOMAIN link /\ n \in DOMAIN snap
      BY <1>t DEF SyncTypeOK
  <2>1. CASE Answered(m) \/ Connect(m) \/ Break(m) \/ NativeRetry(m) \/ Receive(m)
      BY <1>4, <1>a, <2>0, <2>1 DEF Answered, Connect, Break, NativeRetry, Receive, disk
  <2>2. CASE ReceiveSnapshot(m) \/ LoseSnapshot(m) \/ AdoptSnapshot(m)
      BY <1>4, <1>a, <2>0, <2>2 DEF ReceiveSnapshot, LoseSnapshot, AdoptSnapshot, disk
  <2>3. CASE Reload(m) \/ Kill(m)
      BY <1>4, <1>a, <2>0, <2>3 DEF Reload, Kill, Restart
  <2> QED
      BY <1>4, <2>1, <2>2, <2>3
<1>5. ASSUME Answered(n)
      PROVE  Follows(n)'
  <2>1. awaiting[n] # Idle /\ awaiting[n].batch \in Range(outbox[n])
      BY <1>5, <1>t DEF Answered, Delivery, AwaitedIsQueued
  <2>2. NodeOf[awaiting[n].batch] = n /\ batch[awaiting[n].batch] # Unminted
      BY <1>t, <2>1 DEF Delivery, QueuesInOrder
  <2>3. awaiting[n].batch \in BatchId
    <3>1. awaiting[n] \in Request
        BY <1>t, <2>1 DEF SyncTypeOK
    <3> QED
        BY <3>1 DEF Request
  <2> QED
      BY <1>f, <2>2, <2>3 DEF Follower, Edited
<1>6. ASSUME Connect(n)
      PROVE  Follows(n)'
  <2>1. snap[n] = NoSnapshot
      BY <1>6, <1>s DEF Connect
  <2>2. /\ cursor'[n] = cursor[n] /\ ring'[n] = ring[n] /\ local'[n] = local[n]
        /\ snap'[n] = NoSnapshot /\ link'[n] = Opened(cursor[n])
      BY <1>6, <1>t, <2>1 DEF Connect, SyncTypeOK, disk
  <2>3. cursor[n] \in Floor(n) .. cursor[n]
      BY <1>s
  <2> QED
      BY <1>n, <1>h, <2>2, <2>3, OpensFollow
<1>7. ASSUME Break(n)
      PROVE  Follows(n)'
  <2>1. snap[n] = NoSnapshot
      BY <1>7, <1>s DEF Break
  <2>2. /\ cursor'[n] = cursor[n] /\ ring'[n] = ring[n] /\ local'[n] = local[n]
        /\ snap'[n] = NoSnapshot
        /\ link[n].state = "open" /\ link'[n].state = "broken"
        /\ link'[n].since = link[n].since
      BY <1>7, <1>t, <2>1 DEF Break, SyncTypeOK, disk, Link
  <2>3. Floor(n)' = Floor(n)
      BY <2>2 DEF Floor
  <2> QED
      BY <1>n, <1>h, <1>s, <2>2, <2>3, RelinkFollows
<1>8. ASSUME NativeRetry(n)
      PROVE  Follows(n)'
  <2>1. snap[n] = NoSnapshot
      BY <1>8, <1>s DEF NativeRetry
  <2>2. /\ cursor'[n] = cursor[n] /\ ring'[n] = ring[n] /\ local'[n] = local[n]
        /\ snap'[n] = NoSnapshot /\ link'[n] = Opened(Floor(n))
      BY <1>8, <1>t, <2>1 DEF NativeRetry, SyncTypeOK, disk, Floor
  <2>3. Floor(n) \in Floor(n) .. cursor[n]
      BY <1>s
  <2> QED
      BY <1>n, <1>h, <2>2, <2>3, OpensFollow
<1>9. ASSUME LoseSnapshot(n)
      PROVE  Follows(n)'
  <2>1. /\ cursor'[n] = cursor[n] /\ ring'[n] = ring[n] /\ local'[n] = local[n]
        /\ snap'[n] = NoSnapshot /\ link'[n] = Closed
      BY <1>9, <1>t DEF LoseSnapshot, SyncTypeOK, disk
  <2>2. link'[n].state # "open" /\ Floor(n)' = cursor[n]
      BY <2>1 DEF Closed, Floor
  <2> QED
      BY <1>n, <1>h, <1>s, <2>1, <2>2, RelinkFollows
<1>10. CASE Receive(n)
    BY <1>n, <1>f, <1>h, <1>10, ReceiveFollows
<1>11. CASE ReceiveSnapshot(n)
    BY <1>n, <1>h, <1>11, ReceiveSnapshotFollows
<1>12. CASE AdoptSnapshot(n)
    BY <1>n, <1>h, <1>12, AdoptSnapshotFollows
<1>13. CASE Reload(n)
    BY <1>n, <1>h, <1>13, ReloadFollows
<1>14. ~Kill(n)
    BY <1>f DEF Kill, Follower
<1>15. CASE UNCHANGED syncVars
    BY <1>15, <1>a DEF syncVars, disk
<1> HIDE DEF Left
<1> QED
    BY <1>1, <1>2, <1>3, <1>4, <1>5, <1>6, <1>7, <1>8, <1>9, <1>10, <1>11, <1>12,
       <1>13, <1>14, <1>15 DEF SyncNext, Flush

LEMMA InitFollowers == SyncInit => Followers /\ LinksInOrder /\ SyncTypeOK
<1> SUFFICES ASSUME SyncInit
             PROVE  Followers /\ LinksInOrder /\ SyncTypeOK
    OBVIOUS
<1>1. seq = 0 /\ stream = <<>> /\ Replay[0] = EmptyStore
    BY ReplayUnfolds DEF SyncInit, Init, ReplayEquations
<1>2. /\ \A n \in Node : /\ cursor[n] = 0 /\ local[n] = EmptyStore /\ ring[n] = <<>>
                         /\ link[n] = Closed /\ snap[n] = NoSnapshot
    BY DEF SyncInit
<1>3. <<>> \in Seq(BatchId) /\ Len(<<>>) = 0 /\ EmptyStore \in Stores
    BY EmptySeq DEF EmptyStore, Stores
<1>4. SyncTypeOK
  <2>1. FlowTypes
      BY InitDelivery DEF Delivery
  <2>2. 0 \in 0 .. seq
      BY <1>1
  <2>3. /\ cursor \in [Node -> 0 .. seq] /\ saved \in [Node -> Stores]
        /\ local \in [Node -> Stores] /\ ring \in [Node -> Seq(BatchId)]
        /\ link \in [Node -> Link]
        /\ snap \in [Node -> [seq : 0 .. seq, records : Stores] \cup {NoSnapshot}]
      BY <1>3, <2>2, ClosedIsLink DEF SyncInit
  <2>4. \A n \in Node : Len(ring[n]) <= RingSize
      BY <1>2, <1>3, SyncBounds
  <2> QED
      BY <2>1, <2>3, <2>4 DEF SyncTypeOK, FlowTypes
<1>5. LinksInOrder
    BY <1>2 DEF LinksInOrder, Closed
<1>6. ASSUME NEW n \in Node
      PROVE  Follows(n)
  <2>1. SnapshotAhead(n)
      BY <1>2 DEF SnapshotAhead
  <2>2. ShownFrom(local[n], 0)
    <3>1. 0 \in 0 .. seq /\ seq \in Nat /\ local[n] = Replay[0]
        BY <1>1, <1>2
    <3> QED
        BY <3>1, ReplayShown
  <2>3. Floor(n) = 0 /\ link[n].state # "open"
      BY <1>2 DEF Floor, Closed
  <2>4. RunsTo(ring[n], 0, 0) /\ RunsFrom(ring[n], 0, 0, Floor(n))
      BY <1>2, <1>3, <2>3 DEF RunsTo, RunsFrom
  <2>5. TakenTo(n, 0, 0)
      BY <2>2, <2>3, <2>4 DEF TakenTo
  <2>6. 0 \in cursor[n] .. seq /\ 0 \in 0 .. Len(ring[n])
      BY <1>1, <1>2, <1>3
  <2> QED
      BY <2>1, <2>5, <2>6 DEF Follows
<1> QED
    BY <1>4, <1>5, <1>6 DEF Followers

-----------------------------------------------------------------------------
(* What holds of the whole system. *)

LEMMA InitStanding == SyncInit => Standing
<1> SUFFICES ASSUME SyncInit
             PROVE  Standing
    OBVIOUS
<1>1. SyncTypeOK /\ LinksInOrder /\ Delivery
    BY InitFollowers, InitDelivery
<1>2. TypeOK
    BY InitType DEF SyncInit
<1>3. seq = 0 /\ stream = <<>> /\ earliest = 1 /\ store = EmptyStore /\ meta = "live"
    BY DEF SyncInit, Init
<1>4. Accounted
  <2>1. Replay[0] = EmptyStore /\ Len(<<>>) = 0
      BY ReplayUnfolds, EmptySeq DEF ReplayEquations
  <2> QED
      BY <1>2, <1>3, <2>1 DEF Accounted, StreamReplaysStore
<1>5. EarliestKept /\ CreatesAnew
    BY <1>3 DEF EarliestKept, CreatesAnew
<1> QED
    BY <1>1, <1>4, <1>5 DEF Standing, Grounded

LEMMA StepStanding ==
    ASSUME TypeOK', StreamReplaysStore', ReplayEquations, ReplayEquations',
           Standing, [SyncNext]_syncVars
    PROVE  Standing'
<1>1. Grounded /\ Accounted /\ TypeOK /\ Delivery /\ EarliestKept
    BY DEF Standing, Grounded, Accounted
<1>2. Delivery' /\ meta' = "live"
  <2>1. Delivery'
      BY <1>1, StepDelivery
  <2> QED
      BY <2>1 DEF Delivery, RecordKept
<1>3. Accounted'
    BY <1>2 DEF Accounted
<1>4. [Next]_vars
    BY SyncStepsAreVaultSteps
<1>5. EarliestKept' /\ CreatesAnew'
  <2>1. EarliestKept'
      BY <1>1, <1>2, <1>4, StepEarliest
  <2>2. CreatesAnew
      BY DEF Standing
  <2>3. CreatesAnew'
      BY <1>1, <1>3, <1>4, <2>2, StepCreatesAnew
  <2> QED
      BY <2>1, <2>3
<1>6. Grounded'
    BY <1>2, <1>3, <1>5 DEF Grounded
<1>7. SyncTypeOK' /\ LinksInOrder'
  <2>1. SyncTypeOK /\ LinksInOrder
      BY DEF Standing
  <2> QED
      BY <1>1, <1>6, <2>1, StepSyncTypes
<1> QED
    BY <1>5, <1>6, <1>7 DEF Standing

LEMMA StandingAlways == SyncSpec => []Standing
<1> QED
    BY InitStanding, StepStanding, ReplayUnfolds, SyncImplementsVault, TypeCorrect,
       StreamReplaysTheStore, PTL DEF SyncSpec

\* The state of nodes, queues, streams and snapshots has its types, for any
\* number of nodes and edits and whatever goes wrong: no cursor and no snapshot
\* is ever ahead of the vault, no ring outgrows its bound, and applying what the
\* stream sends leaves whole records.
THEOREM SyncTypes == SyncSpec => []SyncTypeOK
<1>1. Standing => SyncTypeOK
    BY DEF Standing
<1> QED
    BY <1>1, StandingAlways, PTL

\* A node that has handled every entry shows, in every cell, what the vault does:
\* no entry is still to come that its records could be ahead of.
LEMMA QuietShowsStore ==
    ASSUME Standing, Followers
    PROVE  FollowerConverges
<1> SUFFICES ASSUME NEW n \in Node, Quiet(n), Follower(n), NEW s \in Subject
             PROVE  SameValues(local[n][s], store[s])
    BY DEF FollowerConverges, Follower
<1>1. /\ Accounted /\ TypeOK /\ seq \in Nat /\ local[n] \in Stores
    BY StandingFacts
<1>2. store = Replay[seq]
    BY <1>1, EntriesAreBatches
<1>3. PICK p \in cursor[n] .. seq, m \in 0 .. Len(ring[n]) : TakenTo(n, p, m)
    BY DEF Followers, Follows
<1>4. p = seq
    BY <1>1, <1>3 DEF Quiet
<1>5. PICK t \in seq .. seq : ShowsFrom(local[n], s, t)
    BY <1>3, <1>4 DEF TakenTo, ShownFrom
<1>6. t = seq
    BY <1>1, <1>5
<1>7. \A c \in Cell : Settled(s, c, seq)
  <2>1. \A k \in seq + 1 .. seq : FALSE
      BY <1>1
  <2> QED
      BY <2>1 DEF Settled
<1>8. \A c \in Cell : Look(local[n][s], c) = Look(store[s], c)
    BY <1>2, <1>5, <1>6, <1>7 DEF ShowsFrom
<1>9. local[n][s] \in Record \cup {Absent} /\ store[s] \in Record \cup {Absent}
    BY <1>1 DEF Stores, TypeOK
<1> QED
    BY <1>8, <1>9, SameCells

\* A node nobody edits on shows the vault's records when it has handled every
\* entry, for any number of nodes, edits, ring places, broken streams, repeated
\* entries, snapshots and reloads: as long as a snapshot is of the records of
\* its position, and the stream is not opened while one is fetched.  Without
\* either it is false.
THEOREM FollowersConverge ==
    ASSUME ~Lagging, ~Overlapping
    PROVE  SyncSpec => []FollowerConverges
<1>1. SyncInit => Followers
    BY InitFollowers
<1>2. /\ Standing /\ Standing' /\ ReplayEquations /\ ReplayEquations'
      /\ Followers /\ [SyncNext]_syncVars
      => Followers'
    BY StepFollowers
<1>3. SyncSpec => []Followers
    BY <1>1, <1>2, StandingAlways, ReplayUnfolds, PTL DEF SyncSpec
<1>4. Standing /\ Followers => FollowerConverges
    BY QuietShowsStore
<1> QED
    BY <1>3, <1>4, StandingAlways, PTL
=============================================================================
