------------------------------ MODULE EntryFeed ------------------------------
(***************************************************************************)
(* What a vault's stream promises to those who follow it: somebody who asks *)
(* for the entries after a number gets every later one that is kept, and    *)
(* gets it once; a promise the server drops only for a client whose next    *)
(* entry is no longer kept.  Nothing is said about order: see StreamFanout. *)
(***************************************************************************)
EXTENDS Integers

CONSTANTS Client, MaxSeq

VARIABLES
    published,      \* number of the last entry
    kept,           \* number of the oldest entry kept
    start,          \* the number each client asked from
    received,       \* the entries sent to each client
    state           \* "idle", "asked", "open", "lapsed" (promise void) or "over"

feed == <<published, kept, start, received, state>>

FeedInit ==
    /\ published = 0 /\ kept = 1
    /\ start = [c \in Client |-> 0]
    /\ received = [c \in Client |-> {}]
    /\ state = [c \in Client |-> "idle"]

Publish ==
    /\ published' \in published .. MaxSeq
    /\ kept' \in kept .. published' + 1
    /\ UNCHANGED <<start, received, state>>

Ask(c, from) ==
    /\ state[c] = "idle"
    /\ start' = [start EXCEPT ![c] = from]
    /\ state' = [state EXCEPT ![c] = "asked"]
    /\ UNCHANGED <<published, kept, received>>

Serve(c, first) ==
    /\ state[c] = "asked"
    /\ received' = [received EXCEPT ![c] = first]
    /\ state' = [state EXCEPT ![c] = "open"]
    /\ UNCHANGED <<published, kept, start>>

\* Any number of entries go to any number of clients, none of them twice.
Send(more) ==
    /\ \A c \in Client : more[c] # {} => state[c] \in {"open", "lapsed"}
    /\ \A c \in Client : more[c] \cap received[c] = {}
    /\ received' = [c \in Client |-> received[c] \cup more[c]]
    /\ UNCHANGED <<published, kept, start, state>>

Lapse(c) ==
    /\ state[c] = "open"
    /\ kept > start[c] + 1
    /\ state' = [state EXCEPT ![c] = "lapsed"]
    /\ UNCHANGED <<published, kept, start, received>>

\* Clients leave, or are sent away.
Finish(gone) ==
    /\ state' = [c \in Client |-> IF c \in gone THEN "over" ELSE state[c]]
    /\ UNCHANGED <<published, kept, start, received>>

Parcels == [Client -> SUBSET (1 .. published)]

FeedNext ==
    \/ Publish
    \/ \E c \in Client :
          \/ \E from \in 0 .. MaxSeq : Ask(c, from)
          \/ \E first \in SUBSET (1 .. published) : Serve(c, first)
          \/ Lapse(c)
    \/ \E more \in Parcels : Send(more)
    \/ \E gone \in SUBSET Client : Finish(gone)

\* Entry e is promised to client c.
Owed(c, e) ==
    /\ state[c] = "open"
    /\ e \in start[c] + 1 .. published
    /\ e >= kept
    /\ e \notin received[c]

SendTo(c, e) ==
    /\ Owed(c, e)
    /\ \E more \in Parcels : e \in more[c] /\ Send(more)

FeedSafety == FeedInit /\ [][FeedNext]_feed

FeedSpec ==
    FeedSafety /\ \A c \in Client, e \in 1 .. MaxSeq : WF_feed(SendTo(c, e))
=============================================================================
