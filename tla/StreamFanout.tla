---------------------------- MODULE StreamFanout ----------------------------
(***************************************************************************)
(* GET /sync/stream on one server process, for one vault: httpServer.ts     *)
(* with entriesSince (vaultStore.ts) and the watcher that the connections   *)
(* of a vault share (redis/streamWatcher.ts).  Every connection replays     *)
(* what it missed, attaches itself to the watcher, and reads once more to   *)
(* close the gap between the two; three writers write to one response.      *)
(* Each await is the end of a step, and batches may be accepted, trimmed or *)
(* delivered, and clients leave, in between.                                *)
(***************************************************************************)
EXTENDS Integers, Sequences, FiniteSetsExt, Functions

CONSTANTS
    Conn,           \* connections, each used once
    MaxSeq,         \* model bound: entries
    StreamMax,      \* STREAM_MAXLEN
    Ahead           \* whether a since may be past the end, as when Redis lost data

ASSUME FanoutBounds ==
    MaxSeq \in Nat /\ StreamMax \in Nat \ {0} /\ Ahead \in BOOLEAN

VARIABLES
    seq, earliest,  \* the stream holds earliest .. seq
    vault,          \* "there", "deleted", or "announced" to this process
    watcher,        \* running or not, its lastId, and what XREAD has answered
    listeners,      \* the connections attached to the watcher
    phase,          \* how far the handler of each connection has come
    here,           \* the client has not gone, nor been sent away
    since,          \* the since of the request
    from,           \* what entriesSince is asked for
    reading,        \* how far that call has come
    probed,         \* the earliest entry it saw, 0 if it saw none
    got,            \* the entries it read
    out             \* what was written to the response: a set for each task that wrote

stream == <<seq, earliest, vault>>
call == <<from, reading, probed, got>>
vars == <<stream, watcher, listeners, phase, here, since, call, out>>

Retained == earliest .. seq
Sent(c) == UNION Range(out[c])
Serving(c) == phase[c] \in {"attached", "live"} /\ here[c]

NoWatcher == [running |-> FALSE, last |-> 0, hand |-> {}]
Watching(last, hand) == [running |-> TRUE, last |-> last, hand |-> hand]
Phases == {"idle", "asked", "attached", "live", "over"}

TypeOK ==
    /\ seq \in 0 .. MaxSeq /\ earliest \in 1 .. MaxSeq + 1
    /\ earliest <= seq + 1
    /\ vault \in {"there", "deleted", "announced"}
    /\ watcher \in [running : BOOLEAN, last : Nat, hand : SUBSET (1 .. seq)]
    /\ listeners \subseteq Conn
    /\ phase \in [Conn -> Phases]
    /\ here \in [Conn -> BOOLEAN]
    /\ since \in [Conn -> Nat] /\ from \in [Conn -> Nat]
    /\ reading \in [Conn -> {"none", "probed", "read", "gap"}]
    /\ probed \in [Conn -> 0 .. MaxSeq]
    /\ got \in [Conn -> SUBSET (1 .. seq)]
    /\ out \in [Conn -> Seq(SUBSET (1 .. seq))]

Init ==
    /\ seq = 0 /\ earliest = 1
    /\ vault = "there"
    /\ watcher = NoWatcher
    /\ listeners = {}
    /\ phase = [c \in Conn |-> "idle"]
    /\ here = [c \in Conn |-> TRUE]
    /\ since = [c \in Conn |-> 0]
    /\ from = [c \in Conn |-> 0]
    /\ reading = [c \in Conn |-> "none"]
    /\ probed = [c \in Conn |-> 0]
    /\ got = [c \in Conn |-> {}]
    /\ out = [c \in Conn |-> <<>>]

-----------------------------------------------------------------------------
(* The vault. *)

\* Some process accepts a batch; XADD MAXLEN ~ trims what it likes past the bound.
Commit ==
    /\ vault = "there"
    /\ seq < MaxSeq
    /\ seq' = seq + 1
    /\ earliest' \in {k \in earliest .. seq + 1 :
                         k = earliest \/ seq + 1 - k >= StreamMax - 1}
    /\ UNCHANGED <<vault, watcher, listeners, phase, here, since, call, out>>

\* deleteVault unlinks the stream.
Delete ==
    /\ vault = "there"
    /\ vault' = "deleted"
    /\ earliest' = seq + 1
    /\ UNCHANGED <<seq, watcher, listeners, phase, here, since, call, out>>

-----------------------------------------------------------------------------
(* Listeners. *)

\* Mutant of Unsubscribed: the watcher is stopped under the others.
UnsubscribedAll(gone) ==
    /\ listeners' = listeners \ gone
    /\ watcher' = IF listeners \cap gone # {} THEN NoWatcher ELSE watcher

\* unsubscribe, by those of them that had their close handler: the watcher stops
\* with its last listener.
Unsubscribed(gone) ==
    /\ listeners' = listeners \ gone
    /\ watcher' = IF listeners \subseteq gone THEN NoWatcher ELSE watcher

\* The close handler is registered at the end of the request's handler; for a
\* client that goes earlier nothing is ever undone.
Closes(gone) ==
    /\ here' = [c \in Conn |-> here[c] /\ c \notin gone]
    /\ Unsubscribed({c \in gone : phase[c] = "live"})

Leave(c) ==
    /\ phase[c] \in {"asked", "attached", "live"}
    /\ here[c]
    /\ Closes({c})
    /\ UNCHANGED <<stream, phase, since, call, out>>

\* VAULT_DELETED_CHANNEL: the responses that are registered are ended.
Announce ==
    /\ vault = "deleted"
    /\ vault' = "announced"
    /\ Closes({c \in Conn : Serving(c)})
    /\ UNCHANGED <<seq, earliest, phase, since, call, out>>

\* The process ends.  A failing read of Redis while the gap is closed is enough:
\* the answer 500 is then written after the head, and that error is nobody's.
ProcessEnds ==
    /\ \E c \in Conn : phase[c] # "idle" /\ here[c]
    /\ here' = [c \in Conn |-> here[c] /\ phase[c] = "idle"]
    /\ watcher' = NoWatcher
    /\ listeners' = {}
    /\ phase' = [c \in Conn |-> IF phase[c] = "idle" THEN "idle" ELSE "over"]
    /\ UNCHANGED <<stream, since, call, out>>

-----------------------------------------------------------------------------
(* The request.  entriesSince is two commands, and others may come between. *)

\* Past vaultExists and the ticket.
Open(c, s) ==
    /\ phase[c] = "idle"
    /\ vault = "there"
    /\ phase' = [phase EXCEPT ![c] = "asked"]
    /\ since' = [since EXCEPT ![c] = s]
    /\ from' = [from EXCEPT ![c] = s]
    /\ UNCHANGED <<stream, watcher, listeners, here, reading, probed, got, out>>

Probe(c) ==
    /\ phase[c] \in {"asked", "attached"}
    /\ reading[c] = "none"
    /\ probed' = [probed EXCEPT ![c] = IF Retained = {} THEN 0 ELSE earliest]
    /\ reading' = [reading EXCEPT ![c] = "probed"]
    /\ UNCHANGED <<stream, watcher, listeners, phase, here, since, from, got, out>>

\* Mutant of Read: the range is read without the parenthesis and one number late.
ReadLate(c) ==
    /\ phase[c] \in {"asked", "attached"}
    /\ reading[c] = "probed"
    /\ reading' = [reading EXCEPT ![c] =
                      IF from[c] < probed[c] - 1 THEN "gap" ELSE "read"]
    /\ got' = [got EXCEPT ![c] = {e \in Retained : e > from[c] + 1}]
    /\ probed' = [probed EXCEPT ![c] = 0]
    /\ UNCHANGED <<stream, watcher, listeners, phase, here, since, from, out>>

Read(c) ==
    /\ phase[c] \in {"asked", "attached"}
    /\ reading[c] = "probed"
    /\ reading' = [reading EXCEPT ![c] =
                      IF from[c] < probed[c] - 1 THEN "gap" ELSE "read"]
    /\ got' = [got EXCEPT ![c] = {e \in Retained : e > from[c]}]
    /\ probed' = [probed EXCEPT ![c] = 0]
    /\ UNCHANGED <<stream, watcher, listeners, phase, here, since, from, out>>

\* writeEntry for each entry of S in ascending order, to each connection of C: what
\* has been sent is not sent again.
Written(C, S) ==
    [c \in Conn |-> IF c \in C /\ here[c] /\ ~ S \subseteq Sent(c)
                    THEN Append(out[c], S \ Sent(c)) ELSE out[c]]

Refuse(c) ==
    /\ phase[c] = "asked" /\ reading[c] = "gap"
    /\ phase' = [phase EXCEPT ![c] = "over"]
    /\ UNCHANGED <<stream, watcher, listeners, here, since, call, out>>

\* subscribeLive and the replay, in one task.  Whoever comes first decides where
\* the watcher starts.
Attach(c) ==
    /\ phase[c] = "asked" /\ reading[c] = "read"
    /\ phase' = [phase EXCEPT ![c] = "attached"]
    /\ listeners' = listeners \cup {c}
    /\ watcher' = IF watcher.running THEN watcher
                  ELSE Watching(since[c], {})
    /\ out' = Written({c}, got[c])
    /\ from' = [from EXCEPT ![c] = IF got[c] = {} THEN @ ELSE Max(got[c])]
    /\ reading' = [reading EXCEPT ![c] = "none"]
    /\ got' = [got EXCEPT ![c] = {}]
    /\ UNCHANGED <<stream, here, since, probed>>

\* The gap closer; that it may have found a gap is not looked at.
CloseGap(c) ==
    /\ phase[c] = "attached" /\ reading[c] \in {"read", "gap"}
    /\ phase' = [phase EXCEPT ![c] = "live"]
    /\ out' = IF reading[c] = "read" THEN Written({c}, got[c]) ELSE out
    /\ got' = [got EXCEPT ![c] = {}]
    /\ UNCHANGED <<stream, watcher, listeners, here, since, from, reading, probed>>

-----------------------------------------------------------------------------
(* The watcher's loop. *)

\* XREAD answers with everything after lastId.
Fetch ==
    /\ watcher.running /\ watcher.hand = {}
    /\ \E e \in Retained : e > watcher.last
    /\ watcher' = Watching(watcher.last, {e \in Retained : e > watcher.last})
    /\ UNCHANGED <<stream, listeners, phase, here, since, call, out>>

\* The answer is handed to all listeners in one task.
Deliver ==
    /\ watcher.hand # {}
    /\ out' = Written(listeners, watcher.hand)
    /\ watcher' = Watching(Max(watcher.hand), {})
    /\ UNCHANGED <<stream, listeners, phase, here, since, call>>

Handler(c) == Probe(c) \/ Read(c) \/ Refuse(c) \/ Attach(c) \/ CloseGap(c)
Watch == Fetch \/ Deliver

Next ==
    \/ Commit \/ Delete \/ Announce \/ ProcessEnds
    \/ \E c \in Conn :
          \/ \E s \in 0 .. (IF Ahead THEN MaxSeq ELSE seq) : Open(c, s)
          \/ Handler(c)
          \/ Leave(c)
    \/ Watch

Spec == Init /\ [][Next]_vars

\* Awaited commands answer.  Nothing says that a batch is accepted or anybody goes.
Fairness == WF_vars(Watch) /\ \A c \in Conn : WF_vars(Handler(c))

FairSpec == Spec /\ Fairness

-----------------------------------------------------------------------------
(* Properties. *)

\* The trailing read found its first entry trimmed already, and was ignored.
Lapsed(c) == phase[c] = "live" /\ reading[c] = "gap"

\* What the code has yet to send to c from the two sources that are left.
StillToCome(c, e) ==
    \/ watcher.running /\ c \in listeners /\ e > watcher.last
    \/ /\ phase[c] = "attached"
       /\ \/ reading[c] \in {"none", "probed"} /\ e > from[c]
          \/ reading[c] = "read" /\ e \in got[c]
          \/ reading[c] = "gap"

\* Every entry kept that a client asked for has been written to it or is in one of
\* the two hands that write to it, whatever was accepted between the replay, the
\* subscription and the trailing read: httpServer.ts attaches before it reads so
\* that the two overlap.  Not after the trailing read met a gap.
NothingSkipped ==
    \A c \in Conn : Serving(c) /\ ~Lapsed(c) =>
        \A e \in Retained : e > since[c] => e \in Sent(c) \/ StillToCome(c, e)

\* What the connections get is the feed of EntryFeed, promise included.
FeedState(c) ==
    IF ~here[c] \/ phase[c] = "over" THEN "over"
    ELSE IF phase[c] \in {"idle", "asked"} THEN phase[c]
    ELSE IF Lapsed(c) THEN "lapsed" ELSE "open"

Feed == INSTANCE EntryFeed WITH
    Client <- Conn, published <- seq, kept <- earliest, start <- since,
    received <- [c \in Conn |-> Sent(c)],
    state <- [c \in Conn |-> FeedState(c)]

\* Each connection is promised every entry from its since on, gets it once, and
\* the server keeps the promise unless a trimmed entry made it void.
ImplementsFeed == Feed!FeedSpec

\* remote-sync.md has Redis replay what was missed and live updates follow; with
\* the watcher ahead of a new connection, its trailing read writes older entries
\* after newer ones.
InStreamOrder ==
    \A c \in Conn : \A i, j \in DOMAIN out[c] : i < j =>
        \A e \in out[c][i], d \in out[c][j] : e < d
=============================================================================
