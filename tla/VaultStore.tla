----------------------------- MODULE VaultStore -----------------------------
(***************************************************************************)
(* One vault's accepted state in Redis, and the script that accepts or     *)
(* rejects a patch batch (redis/applyBatch.lua behind vaultStore.ts,       *)
(* applyBatch).  The script runs atomically, so any number of stateless    *)
(* sync servers appear here as one actor; what is left to interleave is    *)
(* the order in which batches of different nodes arrive, their repetition, *)
(* the loss of an answer, the expiry of idempotency records and the        *)
(* deletion of the vault.                                                  *)
(*                                                                         *)
(* A batch is minted by its node with one HLC stamp for all its patches    *)
(* and may reach the server any number of times and in any order relative  *)
(* to the others: its node retries until it hears an answer.               *)
(***************************************************************************)
EXTENDS PatchAlgebra

CONSTANTS
    BatchId,        \* batch ids
    HlcOf,          \* the stamp of each batch, unique: it ends in the node id
    Shape,          \* the patch lists a node may put in a batch
    MaxBatch,       \* the script refuses longer ones, so nodes send none
    Expirable,      \* batches whose idempotency record may outlive its TTL
    Quotas,         \* settings of the bound on the records' serialised size
    StreamMax,      \* the stream keeps at least this many entries (MAXLEN ~)
    MaxSeq,         \* model bound on seq, kept by limiting expiries
    Deletable,      \* bound: what the batches may be while the vault is being deleted
    Unminted        \* a batch no node has sent yet

ASSUME HlcUnique ==
    /\ HlcOf \in [BatchId -> Nat \ {0}]
    /\ \A a, b \in BatchId : HlcOf[a] = HlcOf[b] => a = b
ASSUME ShapesArePatchLists ==
    /\ MaxBatch \in Nat
    /\ \A shape \in Shape : shape \in Seq(Patch) /\ Len(shape) <= MaxBatch
ASSUME PropertiesAreFinite ==
    /\ IsFiniteSet(Subject) /\ IsFiniteSet(Scalar)
    /\ IsFiniteSet(SetField) /\ IsFiniteSet(Member)
ASSUME ExpirableAreBatches == Expirable \subseteq BatchId
ASSUME BoundsAreNaturals ==
    /\ Quotas \subseteq Nat /\ Quotas # {}
    /\ StreamMax \in Nat /\ MaxSeq \in Nat
    /\ Deletable \subseteq [BatchId -> Shape \cup {Unminted}]
ASSUME UnmintedIsNoShape == Unminted \notin Shape

VARIABLES
    batch,          \* what each batch id stands for, once its node minted it
    answer,         \* the last answer to a batch that reached its node
    meta,           \* the vault's metadata hash: is it there, is it deleting
    seq,            \* the vault's counter of accepted batches
    store,          \* the records
    fieldHlc,       \* the stamp of the last accepted edit per property, or 0
    tombstone,      \* the stamp of a subject's deletion, or 0
    bytes,          \* the byte counter, or NoCount on a vault that has none
    stream,         \* the accepted batches, oldest first
    earliest,       \* position of the oldest entry the trimming has kept
    dedup,          \* the seq recorded for an accepted batch, or 0
    quota           \* the servers' setting

vars == <<batch, answer, meta, seq, store, fieldHlc, tombstone, bytes,
          stream, earliest, dedup, quota>>

NoCount == -1
Keys == {"meta", "seq", "store", "hlc", "tombstones", "bytes", "stream",
         "batches"}

\* A batch whose rejected patches are taken out keeps the others' positions.
PatchList == UNION {[D -> Patch] : D \in SUBSET (1 .. MaxBatch)}
Entry == [batch : BatchId, patches : PatchList]

TypeOK ==
    /\ batch \in [BatchId -> Shape \cup {Unminted}]
    /\ answer \in [BatchId -> {"none", "accepted", "rejected"}]
    /\ meta \in {"live", "deleting", "unlinking", "gone"}
    /\ seq \in Nat
    /\ store \in [Subject -> Record \cup {Absent}]
    /\ fieldHlc \in [Subject -> [Field -> Nat]]
    /\ tombstone \in [Subject -> Nat]
    /\ bytes \in Int
    /\ stream \in Seq(Entry)
    /\ earliest \in Nat \ {0}
    /\ dedup \in [BatchId -> Nat]
    /\ quota \in Quotas

EmptyStore == [s \in Subject |-> Absent]

Init ==
    /\ batch = [b \in BatchId |-> Unminted]
    /\ answer = [b \in BatchId |-> "none"]
    /\ meta = "live"
    /\ seq = 0
    /\ store = EmptyStore
    /\ fieldHlc = [s \in Subject |-> [f \in Field |-> 0]]
    /\ tombstone = [s \in Subject |-> 0]
    /\ bytes \in {0, NoCount}
    /\ stream = <<>>
    /\ earliest = 1
    /\ dedup = [b \in BatchId |-> 0]
    /\ quota \in Quotas

-----------------------------------------------------------------------------
(* The accept decision, patch by patch, against the state before the batch. *)

\* Patches ordered by the stamp of the last accepted edit to their property.
Stamped(p) == p.op \in {"assign", "erase", "hold"}

Buried(p, hlc) == tombstone[p.on] # 0 /\ hlc <= tombstone[p.on]

\* Mutant of Take: edits are taken in arrival order.
TakeUnordered(p, hlc) ==
    /\ ~Buried(p, hlc)
    /\ p.op \in {"create", "identify"} => store[p.on] = Absent

Take(p, hlc) ==
    /\ ~Buried(p, hlc)
    /\ p.op \in {"create", "identify"} => store[p.on] = Absent
    /\ Stamped(p) => fieldHlc[p.on][p.prop] < hlc

\* Mutant of Accepted: a batch's second patch of a property loses against the
\* stamp its first one claimed.
AcceptedSelfSuperseding(b) ==
    Restrict(batch[b], {i \in DOMAIN batch[b] :
        /\ Take(batch[b][i], HlcOf[b])
        /\ ~\E j \in 1 .. (i - 1) :
              /\ Stamped(batch[b][i]) /\ Stamped(batch[b][j])
              /\ batch[b][i].on = batch[b][j].on
              /\ batch[b][i].prop = batch[b][j].prop})

Accepted(b) ==
    Restrict(batch[b], {i \in DOMAIN batch[b] : Take(batch[b][i], HlcOf[b])})

-----------------------------------------------------------------------------
(* What committing the accepted patches acc with stamp hlc writes. *)

FieldHlcAfter(acc, hlc) ==
    [s \in Subject |-> [f \in Field |->
        IF \E i \in DOMAIN acc : /\ Stamped(acc[i])
                                 /\ acc[i].on = s
                                 /\ acc[i].prop = f
        THEN hlc ELSE fieldHlc[s][f]]]

\* The serialised size of the records: one unit per record and per property
\* value it holds.
StoreBytes(st) ==
    LET present == {s \in Subject : st[s] # Absent}
    IN  Cardinality(present)
          + Cardinality({sf \in present \X Scalar :
                            st[sf[1]].scalar[sf[2]] # Missing})
          + Cardinality({sfm \in present \X (SetField \X Member) :
                            sfm[2][2] \in st[sfm[1]].members[sfm[2][1]]})

CurrentBytes == IF bytes = NoCount THEN StoreBytes(store) ELSE bytes

\* Mutant of ProjectedBytes: the size of the replaced records stays counted.
ProjectedBytesAdded(st) ==
    CurrentBytes
      + StoreBytes([s \in Subject |-> IF st[s] = store[s] THEN Absent ELSE st[s]])

ProjectedBytes(st) == CurrentBytes + StoreBytes(st) - StoreBytes(store)

\* Mutant of OverQuota: the quota is tested before the batch is applied.
OverQuotaBefore(st) == CurrentBytes > quota

OverQuota(st) ==
    ProjectedBytes(st) > quota /\ ProjectedBytes(st) > CurrentBytes

-----------------------------------------------------------------------------
(* The script: the checks in their order, then the commit. *)

\* The node of b makes the batch: one shape, stamped HlcOf[b].
Mint(b, shape) ==
    /\ batch[b] = Unminted
    /\ batch' = [batch EXCEPT ![b] = shape]
    /\ meta = "live" \/ batch' \in Deletable
    /\ UNCHANGED <<answer, meta, seq, store, fieldHlc, tombstone, bytes,
                   stream, earliest, dedup, quota>>

\* The answer reaches the node, or is lost and the node will try again.
Respond(b, verdict) == answer' \in {answer, [answer EXCEPT ![b] = verdict]}

Reject(b) ==
    /\ Respond(b, "rejected")
    /\ UNCHANGED <<batch, meta, seq, store, fieldHlc, tombstone, bytes, stream,
                   earliest, dedup, quota>>

\* EXISTS metaKey = 0 or the deletingAt field is set.
RejectDeleting(b) ==
    /\ batch[b] # Unminted
    /\ meta # "live"
    /\ Reject(b)

\* The batch id has an idempotency record: repeat its answer.
AnswerAgain(b) ==
    /\ batch[b] # Unminted
    /\ meta = "live"
    /\ dedup[b] # 0
    /\ Respond(b, "accepted")
    /\ UNCHANGED <<batch, meta, seq, store, fieldHlc, tombstone, bytes, stream,
                   earliest, dedup, quota>>

\* Mutants of Undecided: the idempotency record is not looked up; the vault's
\* lifecycle is checked only before the script.
UndecidedAgain(b) == batch[b] # Unminted /\ meta = "live"
UndecidedDeleting(b) == batch[b] # Unminted /\ dedup[b] = 0 /\ meta # "gone"

\* A batch the script decides on: its vault is live, its id is not on record.
Undecided(b) == batch[b] # Unminted /\ meta = "live" /\ dedup[b] = 0

\* Mutant of RejectAll: a batch that lost is answered 200.
AcceptNothing(b) ==
    /\ Undecided(b)
    /\ DOMAIN Accepted(b) = {}
    /\ Respond(b, "accepted")
    /\ UNCHANGED <<batch, meta, seq, store, fieldHlc, tombstone, bytes, stream,
                   earliest, dedup, quota>>

RejectAll(b) ==
    /\ Undecided(b)
    /\ DOMAIN Accepted(b) = {}
    /\ Reject(b)

\* Mutant of RejectQuota: stamps are written while patches are being accepted.
RejectQuotaStamping(b) ==
    /\ Undecided(b)
    /\ DOMAIN Accepted(b) # {}
    /\ OverQuota(ApplyPatches(Accepted(b), store, ServerFresh))
    /\ Respond(b, "rejected")
    /\ fieldHlc' = FieldHlcAfter(Accepted(b), HlcOf[b])
    /\ UNCHANGED <<batch, meta, seq, store, tombstone, bytes, stream, earliest,
                   dedup, quota>>

RejectQuota(b) ==
    /\ Undecided(b)
    /\ DOMAIN Accepted(b) # {}
    /\ OverQuota(ApplyPatches(Accepted(b), store, ServerFresh))
    /\ Reject(b)

\* Mutant of StreamEntry: the stream carries the batch as submitted.
StreamEntrySubmitted(b, acc) == [batch |-> b, patches |-> batch[b]]

\* What is appended to the stream: the accepted patches only.
StreamEntry(b, acc) == [batch |-> b, patches |-> acc]

Commit(b) ==
    LET acc == Accepted(b)
        next == ApplyPatches(acc, store, ServerFresh)
    IN  /\ Undecided(b)
        /\ DOMAIN acc # {}
        /\ ~OverQuota(next)
        /\ fieldHlc' = FieldHlcAfter(acc, HlcOf[b])
        /\ store' = next
        /\ tombstone' = Tombstones(acc, HlcOf[b], tombstone)
        /\ bytes' = ProjectedBytes(next)
        /\ seq' = seq + 1
        /\ stream' = Append(stream, StreamEntry(b, acc))
        /\ earliest' \in earliest .. Max({earliest, seq + 2 - StreamMax})
        /\ dedup' = [dedup EXCEPT ![b] = seq + 1]
        /\ Respond(b, "accepted")
        /\ UNCHANGED <<batch, meta, quota>>

\* POST /sync/patches carrying b.
Deliver(b) ==
    \/ RejectDeleting(b)
    \/ AnswerAgain(b)
    \/ RejectAll(b)
    \/ RejectQuota(b)
    \/ Commit(b)

\* The idempotency record of b reaches its TTL.
Expire(b) ==
    /\ b \in Expirable
    /\ dedup[b] # 0
    /\ seq + Cardinality({c \in BatchId : dedup[c] = 0}) < MaxSeq
    /\ dedup' = [dedup EXCEPT ![b] = 0]
    /\ UNCHANGED <<batch, answer, meta, seq, store, fieldHlc, tombstone, bytes,
                   stream, earliest, quota>>

\* The servers are deployed again with a lower quota; a vault may be above it.
LowerQuota(q) ==
    /\ q < quota
    /\ quota' = q
    /\ UNCHANGED <<batch, answer, meta, seq, store, fieldHlc, tombstone, bytes,
                   stream, earliest, dedup>>

-----------------------------------------------------------------------------
(* deleteVault, as far as it touches this vault's Redis keys. *)

MarkDeleting ==
    /\ batch \in Deletable
    /\ meta = "live"
    /\ meta' = "deleting"
    /\ UNCHANGED <<batch, answer, seq, store, fieldHlc, tombstone, bytes, stream,
                   earliest, dedup, quota>>

\* The durable marker could not be written: take the Redis one back.
UnmarkDeleting ==
    /\ meta = "deleting"
    /\ meta' = "live"
    /\ UNCHANGED <<batch, answer, seq, store, fieldHlc, tombstone, bytes, stream,
                   earliest, dedup, quota>>

\* The durable marker is written: the SCAN loop may start.
StartUnlinking ==
    /\ meta = "deleting"
    /\ meta' = "unlinking"
    /\ UNCHANGED <<batch, answer, seq, store, fieldHlc, tombstone, bytes, stream,
                   earliest, dedup, quota>>

\* The SCAN loop unlinks key k.  A round that finds several takes several steps.
Unlink(k) ==
    /\ meta = "unlinking" \/ (meta = "gone" /\ k # "meta")
    /\ meta' = IF k = "meta" THEN "gone" ELSE meta
    /\ seq' = IF k = "seq" THEN 0 ELSE seq
    /\ store' = IF k = "store" THEN EmptyStore ELSE store
    /\ fieldHlc' = IF k = "hlc"
                   THEN [s \in Subject |-> [f \in Field |-> 0]] ELSE fieldHlc
    /\ tombstone' = IF k = "tombstones" THEN [s \in Subject |-> 0] ELSE tombstone
    /\ bytes' = IF k = "bytes" THEN NoCount ELSE bytes
    /\ stream' = IF k = "stream" THEN <<>> ELSE stream
    /\ earliest' = IF k = "stream" THEN 1 ELSE earliest
    /\ dedup' = IF k = "batches" THEN [b \in BatchId |-> 0] ELSE dedup
    /\ UNCHANGED <<batch, answer, quota>>

Next ==
    \/ \E b \in BatchId, shape \in Shape : Mint(b, shape)
    \/ \E b \in BatchId : Deliver(b)
    \/ \E b \in BatchId : Expire(b)
    \/ \E q \in Quotas : LowerQuota(q)
    \/ MarkDeleting
    \/ UnmarkDeleting
    \/ StartUnlinking
    \/ \E k \in Keys : Unlink(k)

Spec == Init /\ [][Next]_vars

-----------------------------------------------------------------------------
(* What the stream says about the vault. *)

\* The deletion has not removed any key yet.
Intact == meta \in {"live", "deleting"}

HlcAt(k) == HlcOf[stream[k].batch]

\* Entries holding an edit of property f of subject s.
Edits(s, f) ==
    {k \in DOMAIN stream : \E i \in DOMAIN stream[k].patches :
        LET p == stream[k].patches[i]
        IN  Stamped(p) /\ p.on = s /\ p.prop = f}

\* Entries dropping subject s.
Drops(s) ==
    {k \in DOMAIN stream : \E i \in DOMAIN stream[k].patches :
        stream[k].patches[i] = Drop(s)}

\* Entries with an edit of s.f that no later drop has undone.
StandingEdits(s, f) ==
    {k \in Edits(s, f) : /\ \A d \in Drops(s) : d <= k
                         /\ ScalarWrites(stream[k].patches, s, f) # {}}

Replay[n \in Nat] ==
    IF n = 0 THEN EmptyStore
    ELSE ApplyPatches(stream[n].patches, Replay[n - 1], ServerFresh)

-----------------------------------------------------------------------------
(* Properties. *)

\* A node that applies the stream from its beginning, entry by entry, holds
\* the records the vault holds: the stream carries what was accepted of each
\* batch and nothing else, in the order it was applied.
StreamReplaysStore ==
    Intact => seq = Len(stream) /\ store = Replay[seq]

\* The stamp kept for a property is the newest among the accepted edits of it:
\* no rejected batch left one behind, and none was ever lowered.
FieldHlcIsNewestAccepted ==
    Intact => \A s \in Subject, f \in Field :
        fieldHlc[s][f] = Max({0} \cup {HlcAt(k) : k \in Edits(s, f)})

StreamOrderedByHlc ==
    \A s \in Subject, f \in Scalar : \A w \in StandingEdits(s, f) :
        (\A k \in StandingEdits(s, f) : HlcAt(k) <= HlcAt(w))
            => store[s].scalar[f] = ScalarAfter(stream[w].patches, s, f, Missing)

NewestAcknowledgedStands ==
    \A s \in Subject, f \in Scalar :
        LET minted == {b \in BatchId : batch[b] # Unminted}
            editors == {b \in minted : ScalarWrites(batch[b], s, f) # {}}
        IN  (\A b \in minted : \A i \in DOMAIN batch[b] : batch[b][i] # Drop(s))
            => \A w \in editors :
                 answer[w] = "accepted" /\ (\A b \in editors : HlcOf[b] <= HlcOf[w])
                    => store[s].scalar[f] = ScalarAfter(batch[w], s, f, Missing)

\* A scalar property of a live record has the value of the accepted edit with the
\* newest stamp since the record's last deletion, and of a record nobody deletes
\* the value its node gave it in the newest batch of all, once that batch is
\* acknowledged: whatever the arrival order, and however many patches of one
\* property one batch has (applyBatch.lua: the accept decision).
LastWriterWins == Intact => StreamOrderedByHlc /\ NewestAcknowledgedStands

\* A subject that was dropped and has no record is remembered with the stamp
\* of its last drop, so a stale edit cannot bring it back.
DeletionRemembered ==
    Intact => \A s \in Subject :
        store[s] = Absent /\ Drops(s) # {}
            => tombstone[s] = HlcAt(Max(Drops(s)))

\* A batch is in the stream once, and its idempotency record points at it;
\* only a batch retried after its record expired can be there twice.
AppliedOnce ==
    Intact =>
        /\ \A i, j \in DOMAIN stream :
              i # j /\ stream[i].batch = stream[j].batch
                => stream[i].batch \in Expirable
        /\ \A b \in BatchId : dedup[b] # 0 =>
              dedup[b] \in DOMAIN stream /\ stream[dedup[b]].batch = b

\* What a node was told is accepted is in the stream, for every other node.
AcknowledgedIsInStream ==
    Intact => \A b \in BatchId : answer[b] = "accepted" =>
        \E k \in DOMAIN stream : stream[k].batch = b

\* The byte counter is the size of the records it stands for.
BytesExact == Intact /\ bytes # NoCount => bytes = StoreBytes(store)

\* A retry of an accepted batch within the TTL is answered as the first time,
\* though newer edits may have superseded every patch of it.
AcceptedStaysAccepted ==
    [][\A b \in BatchId \ Expirable :
          answer[b] = "accepted" /\ meta = "live" => answer'[b] = "accepted"]_vars

\* The records never grow past the quota, whatever the counter said.
GrowthWithinQuota ==
    [][StoreBytes(store') > StoreBytes(store) => StoreBytes(store') <= quota]_vars

\* From the moment the vault is marked, no write that was already past
\* authentication adds anything to it, also between two rounds of unlinking.
DeletionFreezes ==
    [][meta # "live" =>
          /\ \A s \in Subject : store'[s] \in {store[s], Absent}
          /\ stream' \in {stream, <<>>}
          /\ \A s \in Subject : tombstone'[s] \in {tombstone[s], 0}]_vars

-----------------------------------------------------------------------------
(* What the documentation or a comment promises and the script does not keep. *)

\* remote-sync.md: deletion is last-write-wins by HLC, so a subject with an
\* accepted edit newer than every drop of it has a record.
DeletionOrderedByHlc ==
    Intact => \A s \in Subject :
        (\E f \in Field : \E k \in Edits(s, f) :
            \A d \in Drops(s) : HlcAt(d) < HlcAt(k))
        => store[s] # Absent

\* localNgEngine.ts: a snapshot needs every record to carry its own @id and
\* @graph.
RecordsIdentified ==
    \A s \in Subject : store[s] # Absent => store[s].identity = "full"
=============================================================================
