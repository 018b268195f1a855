----------------------------- MODULE SyncSystem -----------------------------
(***************************************************************************)
(* Nodes and their vault.  A node is one browser tab with its sync engine  *)
(* (remoteSyncEngine.ts) on top of its local engine (localNgEngine.ts); the *)
(* vault is VaultStore, whose actions are the server's half of every step  *)
(* here that reaches it.  A local edit is applied and queued in one task;  *)
(* the flush loop posts the head of the queue and waits; the stream of     *)
(* accepted batches comes back over an EventSource that may break, be      *)
(* opened again by the browser at its old position or by the engine at the *)
(* saved one, or send the node to a snapshot.                              *)
(*                                                                         *)
(* The queue and the cursor are written to localStorage at once, records   *)
(* only after a delay; everything else is lost with the page.              *)
(***************************************************************************)
EXTENDS VaultStore, SequencesExt

CONSTANTS
    Node,           \* paired browsers
    NodeOf,         \* the node that mints each batch
    RingSize,       \* APPLIED_BATCH_RING
    MaxMishaps,     \* model bound: lost requests, broken streams, reloads
    Killable,       \* nodes whose page may end without being told
    Lagging,        \* whether a snapshot may be behind its own seq
    Overlapping,    \* whether a stream may be opened while a snapshot is fetched
    Idle,           \* the flush loop is not waiting for an answer
    NoSnapshot      \* no snapshot has been received

ASSUME NodesOfBatches == NodeOf \in [BatchId -> Node]
ASSUME SyncBounds ==
    /\ RingSize \in Nat \ {0} /\ MaxMishaps \in Nat
    /\ Killable \subseteq Node /\ Lagging \in BOOLEAN /\ Overlapping \in BOOLEAN

VARIABLES
    outbox,         \* localStorage: batches not yet answered, oldest first
    cursor,         \* localStorage: seq of the last entry handled
    saved,          \* localStorage: the records
    local,          \* the records in memory
    ring,           \* the last batches handled, oldest first
    awaiting,       \* the request the flush loop waits for
    reply,          \* what became of that request
    link,           \* the stream: its state, the since of its URL, its position
    snap,           \* the snapshot received and not yet adopted
    wire,           \* requests on their way to the server
    mishaps

vault == vars
disk == <<outbox, cursor, saved>>
flow == <<awaiting, reply>>
syncVars == <<vault, disk, local, ring, flow, link, snap, wire, mishaps>>

\* A batch posted again after a mishap is another request.
Request == [batch : BatchId, try : 0 .. MaxMishaps]

ASSUME IdleIsNoRequest == Idle \notin Request

Link == [state : {"closed", "open", "broken", "resync"}, since : Nat, next : Nat]

Stores == [Subject -> Record \cup {Absent}]

SyncTypeOK ==
    /\ outbox \in [Node -> Seq(BatchId)]
    /\ cursor \in [Node -> 0 .. seq]
    /\ saved \in [Node -> Stores]
    /\ local \in [Node -> Stores]
    /\ ring \in [Node -> Seq(BatchId)]
    /\ \A n \in Node : Len(ring[n]) <= RingSize
    /\ awaiting \in [Node -> Request \cup {Idle}]
    /\ reply \in [Node -> {"none", "accepted", "rejected", "lost"}]
    /\ link \in [Node -> Link]
    /\ snap \in [Node -> [seq : 0 .. seq, records : Stores] \cup {NoSnapshot}]
    /\ wire \subseteq Request
    /\ mishaps \in 0 .. MaxMishaps

Closed == [state |-> "closed", since |-> 0, next |-> 0]

SyncInit ==
    /\ Init
    /\ outbox = [n \in Node |-> <<>>]
    /\ cursor = [n \in Node |-> 0]
    /\ saved = [n \in Node |-> EmptyStore]
    /\ local = [n \in Node |-> EmptyStore]
    /\ ring = [n \in Node |-> <<>>]
    /\ awaiting = [n \in Node |-> Idle]
    /\ reply = [n \in Node |-> "none"]
    /\ link = [n \in Node |-> Closed]
    /\ snap = [n \in Node |-> NoSnapshot]
    /\ wire = {}
    /\ mishaps = 0

Mishap == mishaps < MaxMishaps /\ mishaps' = mishaps + 1

-----------------------------------------------------------------------------
(* Local edits. *)

\* Somebody creates a record that is not there, or edits one that is.
Applicable(shape, st) ==
    \A i \in DOMAIN shape : (st[shape[i].on] = Absent) <=> (shape[1].op = "create")

\* nextHlc: a node's stamps grow.
Stampable(b) ==
    \A c \in BatchId : NodeOf[c] = NodeOf[b] =>
        (batch[c] = Unminted <=> HlcOf[c] >= HlcOf[b])

\* Mutant of Enqueue: an edit is merged into the batch still at the queue's end.
EnqueueMerging(b, shape) ==
    LET n == NodeOf[b]
        last == outbox[n][Len(outbox[n])]
    IN  /\ Stampable(b)
        /\ Applicable(shape, local[n])
        /\ IF outbox[n] = <<>>
           THEN Mint(b, shape) /\ outbox' = [outbox EXCEPT ![n] = <<b>>]
           ELSE /\ batch' = [batch EXCEPT ![last] = shape]
                /\ UNCHANGED <<answer, meta, seq, store, fieldHlc, tombstone, bytes,
                               stream, earliest, dedup, quota, outbox>>
        /\ local' = [local EXCEPT ![n] = ApplyPatches(shape, @, BrowserFresh)]
        /\ UNCHANGED <<cursor, saved, ring, flow, link, snap, wire, mishaps>>

\* graph_orm_update: the edit is applied, and the sync engine's listener puts it
\* in the outbox, in one task.  Saving the records is only scheduled.
Enqueue(b, shape) ==
    LET n == NodeOf[b]
    IN  /\ Stampable(b)
        /\ Applicable(shape, local[n])
        /\ Mint(b, shape)
        /\ local' = [local EXCEPT ![n] = ApplyPatches(shape, @, BrowserFresh)]
        /\ outbox' = [outbox EXCEPT ![n] = Append(@, b)]
        /\ UNCHANGED <<cursor, saved, ring, flow, link, snap, wire, mishaps>>

\* persistNow, from its timer.
Persist(n) ==
    /\ saved[n] # local[n]
    /\ saved' = [saved EXCEPT ![n] = local[n]]
    /\ UNCHANGED <<vault, outbox, cursor, local, ring, flow, link, snap, wire,
                   mishaps>>

-----------------------------------------------------------------------------
(* The flush loop. *)

\* The head of the queue is posted.  The loop runs again as long as the queue
\* is not empty: at once after an answer, by a timer after a failure.
Send(n) ==
    LET r == [batch |-> Head(outbox[n]), try |-> mishaps]
    IN  /\ awaiting[n] = Idle
        /\ outbox[n] # <<>>
        /\ awaiting' = [awaiting EXCEPT ![n] = r]
        /\ reply' = [reply EXCEPT ![n] = "none"]
        /\ wire' = wire \cup {r}
        /\ UNCHANGED <<vault, disk, local, ring, link, snap, mishaps>>

\* The server's answer to r reaches the node if it still waits for r.
Hear(r, verdict) ==
    LET n == NodeOf[r.batch]
    IN  IF awaiting[n] = r /\ reply[n] = "none"
        THEN /\ reply' = [reply EXCEPT ![n] = verdict]
             /\ answer' = [answer EXCEPT ![r.batch] = verdict]
        ELSE UNCHANGED <<reply, answer>>

Rejecting(b) == RejectDeleting(b) \/ RejectAll(b) \/ RejectQuota(b)
Accepting(b) == AnswerAgain(b) \/ Commit(b)

Arrive(r) ==
    /\ r \in wire
    /\ wire' = wire \ {r}
    /\ \/ Hear(r, "rejected") /\ Rejecting(r.batch)
       \/ Hear(r, "accepted") /\ Accepting(r.batch)
    /\ UNCHANGED <<disk, local, ring, awaiting, link, snap, mishaps>>

\* The connection fails, or a limiter answers 429: the request gets there all the
\* same, later, or never does.
Cut(n) ==
    /\ Mishap
    /\ awaiting[n] # Idle /\ reply[n] = "none"
    /\ reply' = [reply EXCEPT ![n] = "lost"]
    /\ wire' \in {wire, wire \ {awaiting[n]}}
    /\ UNCHANGED <<vault, disk, local, ring, awaiting, link, snap>>

Remember(n, b) ==
    LET old == ring[n]
    IN  IF b \in Range(old) THEN old
        ELSE IF Len(old) < RingSize THEN Append(old, b)
        ELSE Append(Tail(old), b)

\* The queue q without batch b; ids are never used twice.
Without(q, b) ==
    IF b \in Range(q) THEN RemoveAt(q, CHOOSE i \in DOMAIN q : q[i] = b) ELSE q

\* Mutant of Answered: what is saved is the queue of before the request, which
\* held this batch alone, without it.
AnsweredStale(n) ==
    /\ reply[n] \in {"accepted", "rejected"}
    /\ outbox' = [outbox EXCEPT ![n] = <<>>]
    /\ ring' = [ring EXCEPT ![n] = Remember(n, awaiting[n].batch)]
    /\ awaiting' = [awaiting EXCEPT ![n] = Idle]
    /\ reply' = [reply EXCEPT ![n] = "none"]
    /\ UNCHANGED <<vault, cursor, saved, local, link, snap, wire, mishaps>>

\* 200 or 409: the batch leaves the queue as it is now.
Answered(n) ==
    LET b == awaiting[n].batch
    IN  /\ reply[n] \in {"accepted", "rejected"}
        /\ outbox' = [outbox EXCEPT ![n] = Without(@, b)]
        /\ ring' = [ring EXCEPT ![n] = Remember(n, b)]
        /\ awaiting' = [awaiting EXCEPT ![n] = Idle]
        /\ reply' = [reply EXCEPT ![n] = "none"]
        /\ UNCHANGED <<vault, cursor, saved, local, link, snap, wire, mishaps>>

\* Mutant of Unanswered: a failed request leaves the loop marked as flushing.
UnansweredFlushing(n) ==
    /\ reply[n] = "lost"
    /\ reply' = [reply EXCEPT ![n] = "none"]
    /\ UNCHANGED <<vault, disk, local, ring, awaiting, link, snap, wire, mishaps>>

\* The loop ends and is scheduled again.
Unanswered(n) ==
    /\ reply[n] = "lost"
    /\ awaiting' = [awaiting EXCEPT ![n] = Idle]
    /\ reply' = [reply EXCEPT ![n] = "none"]
    /\ UNCHANGED <<vault, disk, local, ring, link, snap, wire, mishaps>>

-----------------------------------------------------------------------------
(* The stream. *)

\* Mutant of Gap: one missing entry goes unnoticed.
GapLate(since) == seq > 0 /\ since + 1 < earliest - 1

\* entriesSince: the entry after since has been trimmed.
Gap(since) == seq > 0 /\ since < earliest - 1

\* What the server sends on a stream: the entries it has after since, then the
\* ones to come; or the advice to fetch a snapshot.
Opened(since) ==
    IF Gap(since) THEN [state |-> "resync", since |-> since, next |-> 0]
    ELSE [state |-> "open", since |-> since, next |-> Max({since + 1, earliest})]

\* connectStream: the URL carries the cursor.  A pending reconnect timer or an
\* online event calls it too while a snapshot is on its way.
Connect(n) ==
    /\ \/ link[n].state \in {"closed", "broken"}
       \/ Overlapping /\ link[n].state = "resync" /\ snap[n] # NoSnapshot
    /\ link' = [link EXCEPT ![n] = Opened(cursor[n])]
    /\ UNCHANGED <<vault, disk, local, ring, flow, snap, wire, mishaps>>

Break(n) ==
    /\ Mishap
    /\ link[n].state = "open"
    /\ link' = [link EXCEPT ![n].state = "broken"]
    /\ UNCHANGED <<vault, disk, local, ring, flow, snap, wire>>

\* The browser opens the EventSource again by itself, with the URL it has: the
\* server prefers its since to the Last-Event-ID header.
NativeRetry(n) ==
    /\ link[n].state = "broken"
    /\ link' = [link EXCEPT ![n] = Opened(link[n].since)]
    /\ UNCHANGED <<vault, disk, local, ring, flow, snap, wire, mishaps>>

\* omitDuplicateCreations: nothing is done to a record that is there by a batch
\* that creates it.
WithoutDuplicates(b, st) ==
    Restrict(b, {i \in DOMAIN b :
        ~(st[b[i].on] # Absent /\ \E j \in DOMAIN b : b[j] = Create(b[i].on))})

\* Batches of other nodes that are not in the ring are applied.
Fresher(n, b) == NodeOf[b] # n /\ b \notin Range(ring[n])

\* A patches event: the server sends the entries in order from the position.
Receive(n) ==
    LET k == link[n].next
        e == stream[k]
    IN  /\ link[n].state = "open"
        /\ k <= seq
        /\ local' = IF Fresher(n, e.batch)
                    THEN [local EXCEPT ![n] = ApplyPatches(
                            WithoutDuplicates(e.patches, @), @, BrowserFresh)]
                    ELSE local
        /\ ring' = [ring EXCEPT ![n] = Remember(n, e.batch)]
        /\ cursor' = [cursor EXCEPT ![n] = k]
        /\ link' = [link EXCEPT ![n].next = k + 1]
        /\ UNCHANGED <<vault, outbox, saved, flow, snap, wire, mishaps>>

\* GET /sync/snapshot: seq from Redis, records from Neo4j.
ReceiveSnapshot(n) ==
    /\ link[n].state = "resync"
    /\ snap[n] = NoSnapshot
    /\ \E k \in IF Lagging THEN 0 .. seq ELSE {seq} :
          snap' = [snap EXCEPT ![n] = [seq |-> seq, records |-> Replay[k]]]
    /\ UNCHANGED <<vault, disk, local, ring, flow, link, wire, mishaps>>

\* The request for it fails: a timer opens the stream again.
LoseSnapshot(n) ==
    /\ Mishap
    /\ link[n].state = "resync"
    /\ link' = [link EXCEPT ![n] = Closed]
    /\ snap' = [snap EXCEPT ![n] = NoSnapshot]
    /\ UNCHANGED <<vault, disk, local, ring, flow, wire>>

\* validGraphSnapshot: every record carries its own @id and @graph.
Valid(records) ==
    \A s \in Subject : records[s] # Absent => records[s].identity = "full"

\* Mutant of AdoptSnapshot: the cursor stays where it was.
AdoptSnapshotUncursored(n) ==
    /\ snap[n] # NoSnapshot
    /\ snap' = [snap EXCEPT ![n] = NoSnapshot]
    /\ link' = [link EXCEPT ![n] = Closed]
    /\ local' = IF Valid(snap[n].records)
                THEN [local EXCEPT ![n] = snap[n].records] ELSE local
    /\ UNCHANGED <<vault, disk, ring, flow, wire, mishaps>>

\* fetchAndReconcileSnapshot: the graph is replaced, or left alone when the
\* snapshot does not validate; either way the stream is opened again.
AdoptSnapshot(n) ==
    /\ snap[n] # NoSnapshot
    /\ snap' = [snap EXCEPT ![n] = NoSnapshot]
    /\ link' = [link EXCEPT ![n] = Closed]
    /\ IF Valid(snap[n].records)
       THEN /\ local' = [local EXCEPT ![n] = snap[n].records]
            /\ cursor' = [cursor EXCEPT ![n] = snap[n].seq]
       ELSE UNCHANGED <<local, cursor>>
    /\ UNCHANGED <<vault, outbox, saved, ring, flow, wire, mishaps>>

-----------------------------------------------------------------------------
(* The end of a page and the next one. *)

Restart(n, records) ==
    /\ Mishap
    /\ saved' = [saved EXCEPT ![n] = records]
    /\ local' = [local EXCEPT ![n] = records]
    /\ ring' = [ring EXCEPT ![n] = <<>>]
    /\ awaiting' = [awaiting EXCEPT ![n] = Idle]
    /\ reply' = [reply EXCEPT ![n] = "none"]
    /\ link' = [link EXCEPT ![n] = Closed]
    /\ snap' = [snap EXCEPT ![n] = NoSnapshot]
    /\ UNCHANGED <<vault, outbox, cursor, wire>>

\* pagehide saves the records first.
Reload(n) == Restart(n, local[n])

\* The tab is killed.
Kill(n) == n \in Killable /\ Restart(n, saved[n])

-----------------------------------------------------------------------------
Flush(n) == Send(n) \/ Answered(n) \/ Unanswered(n)

SyncNext ==
    \/ \E b \in BatchId, shape \in Shape : Enqueue(b, shape)
    \/ \E r \in Request : Arrive(r)
    \/ \E n \in Node :
          \/ Persist(n)
          \/ Flush(n) \/ Cut(n)
          \/ Connect(n) \/ Break(n) \/ NativeRetry(n) \/ Receive(n)
          \/ ReceiveSnapshot(n) \/ LoseSnapshot(n) \/ AdoptSnapshot(n)
          \/ Reload(n) \/ Kill(n)

SyncSpec == SyncInit /\ [][SyncNext]_syncVars

\* Timers fire, tasks run, and a request that is not lost gets there; nothing
\* says that anybody edits or that anything goes wrong.
SyncFairness ==
    /\ \A n \in Node :
          /\ WF_syncVars(Flush(n))
          /\ WF_syncVars(Connect(n) \/ Receive(n) \/ ReceiveSnapshot(n)
                           \/ AdoptSnapshot(n))
    /\ WF_syncVars(\E r \in Request : Arrive(r))

FairSyncSpec == SyncSpec /\ SyncFairness

-----------------------------------------------------------------------------
(* Properties. *)

\* An edit is in its node's queue until the vault has answered it, whatever was
\* queued during a request, replaced by a snapshot or lost with a page: the
\* last answered batch never takes another one with it.
UnansweredIsQueued ==
    \A b \in BatchId : batch[b] # Unminted /\ answer[b] = "none"
        => b \in Range(outbox[NodeOf[b]])

\* A node's batches get into the stream in the order it made them, though
\* requests are repeated and a first copy may come after the second: only a
\* batch already answered with a rejection can come in late.
OwnBatchesInOrder ==
    \A i, j \in DOMAIN stream :
        (/\ i < j
         /\ NodeOf[stream[i].batch] = NodeOf[stream[j].batch]
         /\ answer[stream[j].batch] # "rejected")
        => HlcAt(i) < HlcAt(j)

\* Whoever is told that a batch was rejected is not told so of one that other
\* nodes may have: a retry does not lose against its own first copy.
RejectedIsNowhere ==
    [][\A b \in BatchId : answer[b] # "rejected" /\ answer'[b] = "rejected" =>
          \A k \in DOMAIN stream : stream[k].batch # b]_syncVars

Edited(n) == \E b \in BatchId : NodeOf[b] = n /\ batch[b] # Unminted

SameValues(r, q) ==
    IF r = Absent \/ q = Absent THEN r = q
    ELSE r.scalar = q.scalar /\ r.members = q.members

\* The node has no edit of its own under way and has handled every entry.
Quiet(n) == outbox[n] = <<>> /\ cursor[n] = seq /\ snap[n] = NoSnapshot

\* A node nobody edits on shows the vault's records once it has handled every
\* entry, through broken streams, repeated entries, snapshots and reloads.
FollowerConverges ==
    \A n \in Node : Quiet(n) /\ ~Edited(n) /\ n \notin Killable =>
        \A s \in Subject : SameValues(local[n][s], store[s])

\* Every edit is answered in the end: no lost request, restart or order of
\* answers leaves the flush loop waiting, or a queue with nobody to flush it.
EventuallyAnswered ==
    <>[](\A b \in BatchId : batch[b] # Unminted => answer[b] # "none")

\* Every node catches up with the vault once no edits, failures or reloads
\* happen any more, whatever position its stream was opened at: no snapshot
\* leads back to another one.  Records without identity are the exception: a
\* snapshot that holds one is refused for ever.
NodesCatchUp ==
    []Valid(store) => <>[](\A n \in Node : cursor[n] = seq)

-----------------------------------------------------------------------------
(* What the documentation promises and the engine does not keep. *)

\* remote-sync.md: paired devices converge to the same state; here only as far as
\* no edit of the device was rejected.
DevicesConverge ==
    \A n \in Node :
        Quiet(n) /\ (\A b \in BatchId : NodeOf[b] = n => answer[b] # "rejected")
            => \A s \in Subject : SameValues(local[n][s], store[s])
=============================================================================
