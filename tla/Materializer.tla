---------------------------- MODULE Materializer ----------------------------
(***************************************************************************)
(* The materializer replays a vault's stream of accepted batches into      *)
(* Neo4j through a Redis consumer group (materializer.ts,                  *)
(* neo4j/materialize.ts).  Several processes may be started for one shard; *)
(* a lease in Redis is to leave one of them at work.  All of them read     *)
(* under the same consumer name, so what one read and did not acknowledge  *)
(* is redelivered to the next.                                             *)
(*                                                                         *)
(* Batches are accepted here in the order of their stamps: the stamp of an *)
(* entry is its position in the log.  What the script accepts when they    *)
(* arrive otherwise is the subject of VaultStore, where the stream is      *)
(* shown to replay to the records of the vault; those records are          *)
(* therefore not a variable here but Replay of the log.                    *)
(***************************************************************************)
EXTENDS PatchAlgebra

CONSTANTS
    Proc,           \* processes started for the shard
    Edit,           \* patch lists nodes submit
    MaxLog,         \* model bound: batches accepted
    MaxFaults,      \* model bound: crashes, errors, stops, failed heartbeats
    StreamMax,      \* the stream keeps at least this many entries (MAXLEN ~)
    ReadCount,      \* entries one read returns at most
    LapsePhase,     \* phases in which a process may be paused for a whole lease
    Sweeping,       \* whether the retention sweep runs
    NoOne           \* no process has the lease

\* A process is down; has the lease but does not watch the vault (idle); drains
\* its consumer's pending entries (recovering); reads new ones (live); stops
\* and finishes the rows it has (draining); or has stopped without exiting
\* after it lost the lease (halted).
Phase == {"down", "idle", "recovering", "live", "draining", "halted"}
Running == {"idle", "recovering", "live"}

ASSUME EditsArePatchLists == \A e \in Edit : e \in Seq(Patch) /\ e # <<>>
ASSUME BoundsAreNaturals ==
    /\ MaxLog \in Nat /\ MaxFaults \in Nat
    /\ StreamMax \in Nat \ {0} /\ ReadCount \in Nat \ {0}
ASSUME LapseAssumption == LapsePhase \subseteq Phase
ASSUME NoOneIsNoProcess == NoOne \notin Proc

VARIABLES
    log,            \* the accepted patches of every batch, oldest first
    earliest,       \* the oldest entry still in the stream
    tombstone,      \* Redis: the stamp of a subject's deletion, or 0
    lastRead,       \* consumer group: the last entry delivered
    pending,        \* consumer group: delivered and not acknowledged
    db,             \* Neo4j: the node of each subject
    lease,          \* Redis: the owner of the shard
    phase,          \* of each process
    owned,          \* does the process believe it has the lease
    work,           \* the rows a process has in hand and where it is in them
    purge,          \* a sweep between its two stores
    faults

ingest == <<log, earliest, tombstone>>
group  == <<lastRead, pending>>
vars == <<ingest, group, db, lease, phase, owned, work, purge, faults>>

(***************************************************************************)
(* A node keeps the record's properties next to the stamp of its deletion. *)
(* One made by a deletion has no identity properties at all.               *)
(***************************************************************************)
NodeRecord == [identity : {"none", "bare", "full"},
               scalar   : [Scalar -> Value \cup {Missing}],
               members  : [SetField -> SUBSET Member]]
Node == [record : NodeRecord, deletedAt : Nat]

ASSUME AbsentIsNoNode == Absent \notin NodeRecord /\ Absent \notin Node

EmptyStore == [s \in Subject |-> Absent]
NoPurge == [ids |-> {}, cutoff |-> 0]

\* The state of a process about to handle the rows R, of which those in lost
\* came back without fields because the stream no longer holds them.
Holding(R, lost) ==
    [rows |-> R, lost |-> lost, save |-> {}, scratch |-> EmptyStore,
     load |-> IF R = {} \/ Min(R) \in lost THEN {} ELSE Touched(log[Min(R)])]

NoRows == [rows |-> {}, lost |-> {}, load |-> {}, save |-> {},
           scratch |-> EmptyStore]

TypeOK ==
    /\ \A k \in DOMAIN log : Touched(log[k]) \subseteq Subject
    /\ earliest \in 1 .. (Len(log) + 1)
    /\ tombstone \in [Subject -> 0 .. Len(log)]
    /\ lastRead \in 0 .. Len(log)
    /\ pending \subseteq 1 .. lastRead
    /\ db \in [Subject -> Node \cup {Absent}]
    /\ lease \in Proc \cup {NoOne}
    /\ phase \in [Proc -> Phase]
    /\ owned \in [Proc -> BOOLEAN]
    /\ \A p \in Proc :
          /\ work[p].rows \subseteq 1 .. lastRead
          /\ work[p].lost \subseteq work[p].rows
          /\ work[p].load \cup work[p].save \subseteq Subject
          /\ work[p].scratch \in [Subject -> NodeRecord \cup {Absent}]
          /\ purge[p] \in [ids : SUBSET Subject, cutoff : Nat]
    /\ faults \in 0 .. MaxFaults

Init ==
    /\ log = <<>>
    /\ earliest = 1
    /\ tombstone = [s \in Subject |-> 0]
    /\ lastRead = 0
    /\ pending = {}
    /\ db = EmptyStore
    /\ lease = NoOne
    /\ phase = [p \in Proc |-> "down"]
    /\ owned = [p \in Proc |-> FALSE]
    /\ work = [p \in Proc |-> NoRows]
    /\ purge = [p \in Proc |-> NoPurge]
    /\ faults = 0

\* The records of the vault in Redis after the first n accepted batches.
Replay[n \in Nat] ==
    IF n = 0 THEN EmptyStore
    ELSE ApplyPatches(log[n], Replay[n - 1], ServerFresh)

-----------------------------------------------------------------------------
(* The ingest side: the accept script, for a batch with the newest stamp. *)

Accept(patches) ==
    LET acc == Restrict(patches, {i \in DOMAIN patches :
                   patches[i].op \in {"create", "identify"}
                      => Replay[Len(log)][patches[i].on] = Absent})
        seq == Len(log) + 1
    IN  /\ seq <= MaxLog
        /\ DOMAIN acc # {}
        /\ log' = Append(log, acc)
        /\ tombstone' = Tombstones(acc, seq, tombstone)
        /\ earliest' \in earliest .. Max({earliest, seq + 1 - StreamMax})
        /\ UNCHANGED <<group, db, lease, phase, owned, work, purge, faults>>

-----------------------------------------------------------------------------
(* The lease and the life of a process. *)

\* start(): SET NX; a process that fails to claim exits and is started again.
Claim(p) ==
    /\ phase[p] = "down"
    /\ lease = NoOne
    /\ lease' = p
    /\ phase' = [phase EXCEPT ![p] = "idle"]
    /\ owned' = [owned EXCEPT ![p] = TRUE]
    /\ UNCHANGED <<ingest, group, db, work, purge, faults>>

\* The lease of a process that refreshes it no more runs out.
Lapse ==
    /\ lease # NoOne
    /\ phase[lease] \in {"down", "halted"}
    /\ lease' = NoOne
    /\ UNCHANGED <<ingest, group, db, phase, owned, work, purge, faults>>

\* discover(): the vault is given to a batch, which starts its loop.
Discover(p) ==
    /\ phase[p] = "idle"
    /\ phase' = [phase EXCEPT ![p] = "recovering"]
    /\ UNCHANGED <<ingest, group, db, lease, owned, work, purge, faults>>

\* The heartbeat finds another owner, or none, and the service stops itself.
HeartbeatLost(p) ==
    /\ phase[p] \in Running
    /\ lease # p
    /\ phase' = [phase EXCEPT ![p] = "draining"]
    /\ owned' = [owned EXCEPT ![p] = FALSE]
    /\ UNCHANGED <<ingest, group, db, lease, work, purge, faults>>

Fault == faults < MaxFaults /\ faults' = faults + 1

\* The lease runs out under a process that is at work: a pause outlasts it, or
\* finishing the rows in hand does, stop() having ended the heartbeat.
LapseEarly ==
    /\ Fault
    /\ lease # NoOne
    /\ phase[lease] \in LapsePhase
    /\ lease' = NoOne
    /\ UNCHANGED <<ingest, group, db, phase, owned, work, purge>>

\* The heartbeat cannot reach Redis: the same, whoever has the lease.
HeartbeatFails(p) ==
    /\ Fault
    /\ phase[p] \in Running
    /\ phase' = [phase EXCEPT ![p] = "draining"]
    /\ owned' = [owned EXCEPT ![p] = FALSE]
    /\ UNCHANGED <<ingest, group, db, lease, work, purge>>

\* SIGTERM: stop() waits for the rows in hand, then releases the lease.
Stop(p) ==
    /\ Fault
    /\ phase[p] \in Running
    /\ phase' = [phase EXCEPT ![p] = "draining"]
    /\ UNCHANGED <<ingest, group, db, lease, owned, work, purge>>

\* Mutant of Stopped: the rows still in hand are not waited for.
StoppedAtOnce(p) ==
    /\ phase[p] = "draining"
    /\ phase' = [phase EXCEPT ![p] = IF owned[p] THEN "down" ELSE "halted"]
    /\ lease' = IF owned[p] /\ lease = p THEN NoOne ELSE lease
    /\ owned' = [owned EXCEPT ![p] = FALSE]
    /\ UNCHANGED <<ingest, group, db, work, purge, faults>>

\* The loop has ended: a service that still owns its lease releases it and the
\* process exits; one that lost it stays up with nothing to do.
Stopped(p) ==
    /\ phase[p] = "draining"
    /\ work[p].rows = {}
    /\ phase' = [phase EXCEPT ![p] = IF owned[p] THEN "down" ELSE "halted"]
    /\ lease' = IF owned[p] /\ lease = p THEN NoOne ELSE lease
    /\ owned' = [owned EXCEPT ![p] = FALSE]
    /\ UNCHANGED <<ingest, group, db, work, purge, faults>>

\* The process dies; its lease and its consumer's pending entries stay.
Crash(p) ==
    /\ Fault
    /\ phase[p] # "down"
    /\ phase' = [phase EXCEPT ![p] = "down"]
    /\ owned' = [owned EXCEPT ![p] = FALSE]
    /\ work' = [work EXCEPT ![p] = NoRows]
    /\ purge' = [purge EXCEPT ![p] = NoPurge]
    /\ UNCHANGED <<ingest, group, db, lease>>

\* Redis or Neo4j fails a call of the loop: the batch is dropped and, unless
\* the service is stopping, the next discovery watches the vault again.
FailBatch(p) ==
    /\ Fault
    /\ phase[p] \in {"recovering", "live", "draining"}
    /\ phase' = [phase EXCEPT ![p] = IF @ = "draining" THEN @ ELSE "idle"]
    /\ work' = [work EXCEPT ![p] = NoRows]
    /\ UNCHANGED <<ingest, group, db, lease, owned, purge>>

-----------------------------------------------------------------------------
(* The loop: recover, then read, and handle row after row. *)

\* The first ReadCount of the entries in S.
Batch(S) == {k \in S : Cardinality({j \in S : j < k}) < ReadCount}

\* XREADGROUP ... 0 finds entries delivered earlier; trimmed ones are empty.
ReadPending(p) ==
    /\ phase[p] = "recovering"
    /\ work[p].rows = {}
    /\ pending # {}
    /\ work' = [work EXCEPT ![p] =
                  Holding(Batch(pending), {k \in Batch(pending) : k < earliest})]
    /\ UNCHANGED <<ingest, group, db, lease, phase, owned, purge, faults>>

\* Mutant of Recovered: a new batch goes to the live tail at once.
RecoveredUnread(p) ==
    /\ phase[p] = "recovering"
    /\ phase' = [phase EXCEPT ![p] = "live"]
    /\ UNCHANGED <<ingest, group, db, lease, owned, work, purge, faults>>

\* XREADGROUP ... 0 finds nothing.
Recovered(p) ==
    /\ phase[p] = "recovering"
    /\ work[p].rows = {}
    /\ pending = {}
    /\ phase' = [phase EXCEPT ![p] = "live"]
    /\ UNCHANGED <<ingest, group, db, lease, owned, work, purge, faults>>

Unread == {k \in DOMAIN log : k > lastRead /\ k >= earliest}

\* XREADGROUP ... > delivers new entries, those trimmed meanwhile excepted.
ReadLive(p) ==
    /\ phase[p] = "live"
    /\ work[p].rows = {}
    /\ Unread # {}
    /\ lastRead' = Max(Batch(Unread))
    /\ pending' = pending \cup Batch(Unread)
    /\ work' = [work EXCEPT ![p] = Holding(Batch(Unread), {})]
    /\ UNCHANGED <<ingest, db, lease, phase, owned, purge, faults>>

\* readRecord for one subject of the entry; after the last one the entry's
\* patches are applied to what was read.
ReadRecord(p, s) ==
    LET w == work[p]
        scratch == [w.scratch EXCEPT ![s] =
                      IF db[s] = Absent THEN Absent ELSE db[s].record]
        patches == log[Min(w.rows)]
    IN  /\ s \in w.load
        /\ work' = [work EXCEPT ![p] =
              IF w.load = {s}
              THEN [w EXCEPT !.load = {}, !.save = Touched(patches),
                        !.scratch = ApplyPatches(patches, scratch, ServerFresh)]
              ELSE [w EXCEPT !.load = @ \ {s}, !.scratch = scratch]]
        /\ UNCHANGED <<ingest, group, db, lease, phase, owned, purge, faults>>

\* The node of s with its deletion recorded: the properties stay.
Tombstoned(s, hlc) ==
    [record |-> IF db[s] = Absent THEN Fresh("none") ELSE db[s].record,
     deletedAt |-> hlc]

\* upsertRecord or tombstoneRecord for one subject of the entry.
WriteRecord(p, s) ==
    LET w == work[p]
    IN  /\ s \in w.save
        /\ db' = [db EXCEPT ![s] =
                    IF w.scratch[s] = Absent THEN Tombstoned(s, Min(w.rows))
                    ELSE [record |-> w.scratch[s], deletedAt |-> 0]]
        /\ work' = [work EXCEPT ![p].save = @ \ {s}]
        /\ UNCHANGED <<ingest, group, lease, phase, owned, purge, faults>>

\* Mutant of Acknowledge: an entry is acknowledged before it is written.
AcknowledgeEarly(p) ==
    LET w == work[p]
    IN  /\ w.rows \cap pending # {}
        /\ pending' = pending \ {Min(w.rows)}
        /\ work' = [work EXCEPT ![p] =
              IF w.load = {} /\ w.save = {}
              THEN Holding(w.rows \ {Min(w.rows)}, w.lost \ {Min(w.rows)})
              ELSE w]
        /\ UNCHANGED <<ingest, lastRead, db, lease, phase, owned, purge, faults>>

\* XACK after the entry's last write, or at once for an entry without fields.
Acknowledge(p) ==
    LET w == work[p]
    IN  /\ w.rows # {} /\ w.load = {} /\ w.save = {}
        /\ pending' = pending \ {Min(w.rows)}
        /\ work' = [work EXCEPT ![p] =
              Holding(w.rows \ {Min(w.rows)}, w.lost \ {Min(w.rows)})]
        /\ UNCHANGED <<ingest, lastRead, db, lease, phase, owned, purge, faults>>

-----------------------------------------------------------------------------
(* The retention sweep: Neo4j first, then Redis. *)

Expired(cutoff) ==
    {s \in Subject : db[s] # Absent /\ db[s].deletedAt \in 1 .. (cutoff - 1)}

SweepPurge(p, cutoff) ==
    /\ Sweeping
    /\ phase[p] \in Running
    /\ purge[p] = NoPurge
    /\ Expired(cutoff) # {}
    /\ db' = [s \in Subject |-> IF s \in Expired(cutoff) THEN Absent ELSE db[s]]
    /\ purge' = [purge EXCEPT ![p] = [ids |-> Expired(cutoff), cutoff |-> cutoff]]
    /\ UNCHANGED <<ingest, group, lease, phase, owned, work, faults>>

SweepForget(p) ==
    /\ purge[p] # NoPurge
    /\ tombstone' = [s \in Subject |-> IF s \in purge[p].ids THEN 0
                                       ELSE tombstone[s]]
    /\ purge' = [purge EXCEPT ![p] = NoPurge]
    /\ UNCHANGED <<log, earliest, group, db, lease, phase, owned, work, faults>>

-----------------------------------------------------------------------------
Handle(p) ==
    \/ ReadPending(p)
    \/ Recovered(p)
    \/ ReadLive(p)
    \/ \E s \in Subject : ReadRecord(p, s) \/ WriteRecord(p, s)
    \/ Acknowledge(p)

Next ==
    \/ \E e \in Edit : Accept(e)
    \/ Lapse
    \/ LapseEarly
    \/ \E p \in Proc :
          \/ Claim(p) \/ Discover(p)
          \/ HeartbeatLost(p) \/ HeartbeatFails(p) \/ Stop(p) \/ Stopped(p)
          \/ Crash(p) \/ FailBatch(p)
          \/ Handle(p)
          \/ \E cutoff \in 1 .. (Len(log) + 1) : SweepPurge(p, cutoff)
          \/ SweepForget(p)

Spec == Init /\ [][Next]_vars

\* The supervisor starts a process that exited, Redis expires keys, the
\* discovery timer fires and the loop goes on; nothing says that batches
\* arrive or that anything fails.
Fairness ==
    /\ WF_vars(Lapse)
    /\ \A p \in Proc :
          /\ WF_vars(Claim(p))
          /\ WF_vars(Discover(p))
          /\ WF_vars(Handle(p))
          /\ WF_vars(Stopped(p))

FairSpec == Spec /\ Fairness

-----------------------------------------------------------------------------
(* What the nodes say about the records. *)

\* Every entry up to here is acknowledged.
Done == IF pending = {} THEN lastRead ELSE Min(pending) - 1

Live(s) == db[s] # Absent /\ db[s].deletedAt = 0

NeverDropped(s, n) ==
    \A k \in 1 .. n : \A i \in DOMAIN log[k] : log[k][i] # Drop(s)

\* The node of s shows what the record of s was after n batches; the node of a
\* record that was deleted at some time may show older values besides.
Reflects(s, n) ==
    LET r == Replay[n][s]
    IN  /\ Live(s) <=> r # Absent
        /\ Live(s) =>
              /\ \A f \in Scalar : r.scalar[f] # Missing
                    => db[s].record.scalar[f] = r.scalar[f]
              /\ \A f \in SetField :
                    r.members[f] \subseteq db[s].record.members[f]
              /\ NeverDropped(s, n) => db[s].record = r

CaughtUp == lastRead = Len(log) /\ pending = {}

-----------------------------------------------------------------------------
(* Properties. *)

\* However often processes crash, fail over a batch, are stopped and take over
\* from each other, each node is at the last acknowledged entry or at the one
\* after it: no entry is skipped, applied out of order or applied onto the
\* wrong state by a redelivery.
MirrorFollowsStream ==
    \A s \in Subject :
        \/ Reflects(s, Done)
        \/ Done < lastRead /\ Reflects(s, Done + 1)

\* No two processes have rows in hand, as long as none is paused for longer than
\* its lease: neither a crash, nor a stop, nor a lost heartbeat lets a successor
\* start while rows are still being handled.
NoConcurrentReplay ==
    Cardinality({p \in Proc : work[p].rows # {}}) <= 1

\* Every accepted batch is acknowledged in the end, also one that was trimmed
\* while it waited, as long as fewer faults happen than there are processes: a
\* restarted or standby process finds what the last one had in hand.
EventuallyAcknowledged ==
    \A k \in 1 .. MaxLog : (Len(log) >= k) ~> (Done >= k)

-----------------------------------------------------------------------------
(* What a comment or the documentation promises and the code does not keep. *)

\* patchApply.ts: the materialised view stays what a client computes from the
\* same patches.
MirrorExact ==
    CaughtUp => \A s \in Subject :
        /\ Live(s) <=> Replay[Len(log)][s] # Absent
        /\ Live(s) => db[s].record = Replay[Len(log)][s]
=============================================================================
