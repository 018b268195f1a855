--------------------------- MODULE VaultLifecycle ---------------------------
(***************************************************************************)
(* The life of a vault beside its edits: creation, token rotation, deletion, *)
(* restoring of its metadata, pair codes, stream tickets, copy codes and    *)
(* copies (vaultStore.ts and its callers in httpServer.ts).  A vault's      *)
(* identity is kept twice, in a Redis hash and in a Neo4j node, and no      *)
(* operation changes both at once: a request is a program of one command a  *)
(* step, any other request runs in between, and it may die between two.     *)
(*                                                                         *)
(* There are two vaults: one that exists, and the copy made of it.          *)
(***************************************************************************)
EXTENDS Integers, FiniteSets

CONSTANTS
    Source, Copy,
    Slot,           \* requests served at once
    PairCode, CloneCode, Ticket,
    Chunks,         \* batches of 100 records that the vault holds
    MaxToken,       \* model bound: tokens minted
    MaxStarts,      \* model bound: requests
    MaxFaults,      \* model bound: faults
    Fault,          \* those that happen: "neo4j", "redis", "crash", "loss"
    Interleaved     \* whether two requests may change one vault's metadata at once

Vault == {Source, Copy}

ASSUME TwoVaults == Source # Copy
ASSUME LifecycleBounds ==
    /\ Chunks \in Nat \ {0} /\ MaxToken \in Nat \ {0}
    /\ MaxStarts \in Nat /\ MaxFaults \in Nat /\ MaxToken > MaxStarts
    /\ Fault \subseteq {"neo4j", "redis", "crash", "loss"}
    /\ Interleaved \in BOOLEAN

VARIABLES
    redis,          \* what Redis holds
    durable,        \* Neo4j: the VaultMeta node of each vault
    req,            \* the request in each slot
    minted,         \* number of tokens minted; a token is its number
    starts, faults,
    redeemed,       \* history: how often each pair code was given away
    doomed,         \* history: vaults whose deletion was marked in both stores
    cut             \* history: operations that a crash or a loss fell into

history == <<redeemed, doomed, cut>>
counters == <<minted, starts, faults>>
vars == <<redis, durable, req, counters, history>>

Token == 1 .. MaxToken
NoToken == 0

\* A hash or node without token is not there, or only the mark of a deletion.
Meta == [token : Token \cup {NoToken}, deleting : BOOLEAN]
NoMeta == [token |-> NoToken, deleting |-> FALSE]
Admits(d) == d.token # NoToken /\ ~d.deleting

\* By vault: vault:<id>:meta, membership of vaults:index, batches of records.  By
\* code: what a pair code hands out, a ticket's generation, the copy codes that
\* name the vault and those in the vault's own list.
Redis == [meta : [Vault -> Meta], index : SUBSET Vault,
          records : [Vault -> 0 .. Chunks],
          pairs : [PairCode -> Token \cup {NoToken}],
          tickets : [Ticket -> Token \cup {NoToken}],
          named : SUBSET CloneCode, listed : SUBSET CloneCode]

EmptyRedis == [meta |-> [v \in Vault |-> NoMeta], index |-> {},
               records |-> [v \in Vault |-> 0],
               pairs |-> [c \in PairCode |-> NoToken],
               tickets |-> [t \in Ticket |-> NoToken],
               named |-> {}, listed |-> {}]

\* Operations behind a token, and the others.
Guarded == {"delete", "rotate", "pair", "ticket", "issue", "revoke"}
Open == {"redeem", "clone", "mirror"}

Free == [op |-> "none", at |-> "free", vault |-> Source, token |-> NoToken,
         round |-> 0, held |-> NoMeta, item |-> "none", count |-> 0]

TypeOK ==
    /\ redis \in Redis
    /\ durable \in [Vault -> Meta]
    /\ req \in [Slot -> [op : Guarded \cup Open \cup {"none"}, at : STRING,
                         vault : Vault, token : Token \cup {NoToken},
                         round : 0 .. 2, held : Meta, count : 0 .. Chunks,
                         item : PairCode \cup CloneCode \cup Ticket \cup {"none"}]]
    /\ minted \in Token /\ starts \in 0 .. MaxStarts /\ faults \in 0 .. MaxFaults
    /\ redeemed \in [PairCode -> Nat]
    /\ doomed \subseteq Vault /\ cut \subseteq Guarded \cup Open

Init ==
    /\ durable = [v \in Vault |-> IF v = Source THEN [NoMeta EXCEPT !.token = 1]
                                  ELSE NoMeta]
    /\ redis = [EmptyRedis EXCEPT !.meta = durable, !.index = {Source},
                                  !.records[Source] = Chunks]
    /\ req = [r \in Slot |-> Free]
    /\ minted = 1 /\ starts = 0 /\ faults = 0
    /\ redeemed = [c \in PairCode |-> 0]
    /\ doomed = {} /\ cut = {}

-----------------------------------------------------------------------------
(* Requests. *)

At(r, step) == req[r].at = step
Mine(r) == redis.meta[req[r].vault]

\* The request goes on at a step, with metadata it has read, or is answered.
Goto(r, step) == req' = [req EXCEPT ![r].at = step]
Hold(r, step, d) == req' = [req EXCEPT ![r].at = step, ![r].held = d]
Answer(r) == req' = [req EXCEPT ![r] = Free]

\* What a step does beside: one command to one of the stores, or none.
Quietly == UNCHANGED <<counters, history>>
Reads == UNCHANGED <<redis, durable>> /\ Quietly
Writes(new) == redis' = new /\ UNCHANGED durable /\ Quietly
WritesNode(v, new) == durable' = [durable EXCEPT ![v] = new] /\ UNCHANGED redis

\* A store that may fail.
Fails(kind) ==
    /\ kind \in Fault /\ faults < MaxFaults /\ faults' = faults + 1
    /\ UNCHANGED <<redis, durable>>
NoFault == UNCHANGED faults

\* Steps from the decision to change a vault's metadata to the last writing of it.
Changing == {"restore", "reindex", "rotate", "setToken", "upsert", "revert", "delete",
             "markDurable", "unmark", "unindex", "unlink", "purge", "mirror"}
Alone(r) ==
    Interleaved \/ \A q \in Slot \ {r} :
        req[q].vault = req[r].vault => req[q].at \notin Changing

\* A request arrives, with a token that was issued or with none.
Begin(r, op, step, token, item) ==
    /\ starts < MaxStarts /\ starts' = starts + 1
    /\ At(r, "free")
    /\ token <= minted
    /\ req' = [req EXCEPT ![r] =
                  [Free EXCEPT !.op = op, !.at = step, !.round = 1,
                               !.token = token, !.item = item]]
    /\ UNCHANGED <<redis, durable, minted, faults, history>>

\* The handler asks vaultExists, then checkVaultToken, which asks it again.
Known(r) ==
    IF req[r].op = "clone" THEN Goto(r, "copy")
    ELSE IF req[r].round = 1
         THEN req' = [req EXCEPT ![r].round = 2, ![r].at = "exists"]
    ELSE Goto(r, "authenticate")

\* vaultExists: from the Redis hash as long as there is one.
LookUp(r) ==
    /\ At(r, "exists")
    /\ IF Mine(r).token = NoToken THEN Goto(r, "consult")
       ELSE IF Mine(r).deleting THEN Answer(r) ELSE Known(r)
    /\ Reads

\* Mutant of Consult: the mark of the node is not looked at.
ConsultUnmarked(r) ==
    LET d == durable[req[r].vault]
    IN  /\ At(r, "consult")
        /\ Alone(r)
        /\ IF d.token # NoToken THEN Hold(r, "restore", d) ELSE Answer(r)
        /\ Reads

\* The Redis hash is lost: the node decides, and is copied back.
Consult(r) ==
    LET d == durable[req[r].vault]
    IN  /\ At(r, "consult")
        /\ Alone(r)
        /\ IF Admits(d) THEN Hold(r, "restore", d) ELSE Answer(r)
        /\ Reads

Restore(r) ==
    /\ At(r, "restore")
    /\ Goto(r, "reindex")
    /\ Writes([redis EXCEPT !.meta[req[r].vault].token = req[r].held.token])

Reindex(r) ==
    /\ At(r, "reindex")
    /\ Known(r)
    /\ Writes([redis EXCEPT !.index = @ \cup {req[r].vault}])

\* checkVaultToken's HMGET, after which the handler calls its operation.
Authenticate(r) ==
    /\ At(r, "authenticate")
    /\ req[r].op \in {"rotate", "delete"} => Alone(r)
    /\ IF Admits(Mine(r)) /\ Mine(r).token = req[r].token THEN Goto(r, req[r].op)
       ELSE Answer(r)
    /\ Reads

-----------------------------------------------------------------------------
(* deleteVault, for the owner or for a copy that failed. *)

Mark(r) ==
    /\ At(r, "delete")
    /\ Goto(r, "markDurable")
    /\ Writes([redis EXCEPT !.meta[req[r].vault].deleting = TRUE])

\* markVaultDeleting marks a node that is there; if Neo4j fails the deletion is
\* called off.
MarkDurable(r) ==
    LET v == req[r].vault
    IN  /\ At(r, "markDurable")
        /\ \/ Fails("neo4j") /\ Goto(r, "unmark") /\ UNCHANGED doomed
           \/ /\ NoFault /\ Goto(r, "unindex")
              /\ WritesNode(v, [durable[v] EXCEPT !.deleting = @ \/ durable[v].token # NoToken])
              /\ doomed' = doomed \cup {v}
        /\ UNCHANGED <<minted, starts, redeemed, cut>>

Unmark(r) ==
    /\ At(r, "unmark")
    /\ Answer(r)
    /\ Writes([redis EXCEPT !.meta[req[r].vault].deleting = FALSE])

Unindex(r) ==
    /\ At(r, "unindex")
    /\ Goto(r, "unlink")
    /\ Writes([redis EXCEPT !.index = @ \ {req[r].vault}])

\* deleteVaultRedisKeys, whose SCAN takes the keys vault:<id>:* (VaultStore has
\* them go one by one).  Pair codes and the names of copy codes are elsewhere.
Unlink(r) ==
    LET v == req[r].vault
        rest == [redis EXCEPT !.meta[v] = NoMeta, !.records[v] = 0]
    IN  /\ At(r, "unlink")
        /\ Goto(r, "purge")
        /\ Writes(IF v = Copy THEN rest
                  ELSE [rest EXCEPT !.tickets = EmptyRedis.tickets, !.listed = {}])

\* deleteVaultData.
Purge(r) ==
    /\ At(r, "purge")
    /\ Answer(r)
    /\ Fails("neo4j") \/ (NoFault /\ WritesNode(req[r].vault, NoMeta))
    /\ UNCHANGED <<minted, starts, history>>

-----------------------------------------------------------------------------
(* rotateVaultToken, and the mirroring of metadata when a server starts. *)

ReadMeta(r) == At(r, "rotate") /\ Hold(r, "setToken", Mine(r)) /\ Reads

\* A token is minted.
Mints(r, step) ==
    /\ minted' = minted + 1
    /\ req' = [req EXCEPT ![r].at = step, ![r].token = minted + 1]

SetToken(r) ==
    /\ At(r, "setToken")
    /\ Mints(r, "upsert")
    /\ redis' = [redis EXCEPT !.meta[req[r].vault].token = minted + 1]
    /\ UNCHANGED <<durable, starts, faults, history>>

\* upsertVaultMeta is a MERGE: it makes a node that is not there.
Merged(r, token) ==
    WritesNode(req[r].vault, [durable[req[r].vault] EXCEPT !.token = token])

Upsert(r) ==
    /\ At(r, "upsert")
    /\ \/ Fails("neo4j") /\ Goto(r, "revert")
       \/ NoFault /\ Merged(r, req[r].token) /\ Answer(r)
    /\ UNCHANGED <<minted, starts, history>>

\* Mutant of Revert: the token that was not mirrored stays.
RevertNothing(r) == At(r, "revert") /\ Answer(r) /\ Reads

\* What was read at the start is put back.
Revert(r) ==
    LET v == req[r].vault
        held == req[r].held
    IN  /\ At(r, "revert")
        /\ Answer(r)
        /\ Writes(IF held.token = NoToken THEN redis
                  ELSE [redis EXCEPT !.meta[v] =
                           [token |-> held.token, deleting |-> @.deleting \/ held.deleting]])

\* mirrorVaultMetadataToNeo4j, for the vault if it is indexed.
ReadForMirror(r) ==
    /\ At(r, "readForMirror")
    /\ Alone(r)
    /\ IF req[r].vault \in redis.index /\ Mine(r).token # NoToken
       THEN Hold(r, "mirror", Mine(r)) ELSE Answer(r)
    /\ Reads

MirrorMeta(r) ==
    /\ At(r, "mirror")
    /\ Answer(r)
    /\ Fails("neo4j") \/ (NoFault /\ Merged(r, req[r].held.token))
    /\ UNCHANGED <<minted, starts, history>>

-----------------------------------------------------------------------------
(* Pair codes and tickets. *)

\* The code hands out the token that was presented for it.  Codes are random: one
\* that was given away does not come again.
IssuePair(r) ==
    /\ At(r, "pair")
    /\ redeemed[req[r].item] = 0
    /\ Answer(r)
    /\ Writes([redis EXCEPT !.pairs[req[r].item] = IF @ = NoToken THEN req[r].token ELSE @])

\* redeemPairCode reads the code to learn its vault before the script takes it.
FindPair(r) ==
    /\ At(r, "findPair")
    /\ IF redis.pairs[req[r].item] = NoToken THEN Answer(r) ELSE Goto(r, "redeem")
    /\ Reads

\* The script gives away what the code c hands out if it is still the vault's token.
GivesAway(c) ==
    /\ redeemed' = IF redis.pairs[c] \notin {NoToken, redis.meta[Source].token}
                   THEN redeemed
                   ELSE [redeemed EXCEPT ![c] = @ + IF redis.pairs[c] = NoToken THEN 0 ELSE 1]
    /\ UNCHANGED <<durable, counters, doomed, cut>>

\* Mutant of Redeem: the code is deleted by a later command that may not come.
RedeemKept(r) ==
    At(r, "redeem") /\ Answer(r) /\ GivesAway(req[r].item) /\ UNCHANGED redis

\* redeemPairCode.lua.
Redeem(r) ==
    /\ At(r, "redeem")
    /\ Answer(r)
    /\ GivesAway(req[r].item)
    /\ redis' = [redis EXCEPT !.pairs[req[r].item] = NoToken]

\* createStreamTicket reads the generation again, whoever the request was let in as.
ReadGeneration(r) ==
    /\ At(r, "ticket")
    /\ IF Admits(Mine(r)) THEN Hold(r, "setTicket", Mine(r)) ELSE Answer(r)
    /\ Reads

SetTicket(r) ==
    /\ At(r, "setTicket")
    /\ Answer(r)
    /\ Writes([redis EXCEPT !.tickets[req[r].item] = req[r].held.token])

-----------------------------------------------------------------------------
(* Copy codes and copies. *)

NameCode(r) ==
    /\ At(r, "issue")
    /\ Goto(r, "list")
    /\ Writes([redis EXCEPT !.named = @ \cup {req[r].item}])

ListCode(r) ==
    /\ At(r, "list")
    /\ Answer(r)
    /\ Writes([redis EXCEPT !.listed = @ \cup {req[r].item}])

Unlist(r) ==
    /\ At(r, "revoke")
    /\ Goto(r, "unname")
    /\ Writes([redis EXCEPT !.listed = @ \ {req[r].item}])

\* Mutant of Unname: the code itself is left to its expiry.
UnnameLater(r) == At(r, "unname") /\ Answer(r) /\ Reads

Unname(r) ==
    /\ At(r, "unname")
    /\ Answer(r)
    /\ Writes([redis EXCEPT !.named = @ \ {req[r].item}])

FindClone(r) ==
    /\ At(r, "findClone")
    /\ IF req[r].item \in redis.named THEN Goto(r, "exists") ELSE Answer(r)
    /\ Reads

\* readAcceptedRecords.
ReadSource(r) ==
    /\ At(r, "copy")
    /\ req' = [req EXCEPT ![r].at = "createDurable", ![r].vault = Copy,
                          ![r].count = redis.records[Source]]
    /\ Reads

\* createVault: the node first.
CreateDurable(r) ==
    /\ At(r, "createDurable")
    /\ \/ Fails("neo4j") /\ Answer(r) /\ UNCHANGED minted
       \/ NoFault /\ Mints(r, "createMeta") /\ Merged(r, minted + 1)
    /\ UNCHANGED <<starts, history>>

\* A Redis write of cloneVault, or Redis fails.
CopyWrite(r, new, step, otherwise) ==
    /\ \/ Fails("redis") /\ Goto(r, otherwise)
       \/ NoFault /\ redis' = new /\ UNCHANGED durable /\ Goto(r, step)
    /\ UNCHANGED <<minted, starts, history>>

CreateMeta(r) ==
    /\ At(r, "createMeta")
    /\ CopyWrite(r, [redis EXCEPT !.meta[Copy].token = req[r].token],
                 "createIndex", "uncreate")

CreateIndex(r) ==
    /\ At(r, "createIndex")
    /\ CopyWrite(r, [redis EXCEPT !.index = @ \cup {Copy}], "chunk", "uncreate")

\* What createVault wrote is taken back, in Redis as far as it answers.
Uncreate(r) ==
    /\ At(r, "uncreate")
    /\ Answer(r)
    /\ redis' \in {redis, [redis EXCEPT !.meta[Copy] = NoMeta, !.index = @ \ {Copy}]}
    /\ durable' = [durable EXCEPT ![Copy] = NoMeta]
    /\ Quietly

\* A chunk was written and the next one follows.
ChunkDone(r) ==
    /\ NoFault
    /\ redis' = [redis EXCEPT !.records[Copy] = @ + 1]
    /\ req' = [req EXCEPT ![r].count = @ - 1]
    /\ UNCHANGED durable

\* Mutant of CopyChunk: a batch that fails is passed over.
CopyChunkAnyway(r) ==
    /\ At(r, "chunk")
    /\ req[r].count > 0
    /\ \/ Fails("redis") /\ req' = [req EXCEPT ![r].count = @ - 1]
       \/ ChunkDone(r)
    /\ UNCHANGED <<minted, starts, history>>

\* applyBatch for the next chunk; if it throws or is refused the copy is deleted.
CopyChunk(r) ==
    /\ At(r, "chunk")
    /\ req[r].count > 0
    /\ \/ Fails("redis") /\ Goto(r, "delete")
       \/ Admits(Mine(r)) /\ ChunkDone(r)
       \/ ~Admits(Mine(r)) /\ NoFault /\ Goto(r, "delete") /\ UNCHANGED <<redis, durable>>
    /\ UNCHANGED <<minted, starts, history>>

\* The credentials of the copy go out.
HandOver(r) == At(r, "chunk") /\ req[r].count = 0 /\ Goto(r, "copied") /\ Reads

-----------------------------------------------------------------------------
(* Time and faults. *)

Expire ==
    /\ \/ \E c \in PairCode : redis' = [redis EXCEPT !.pairs[c] = NoToken]
       \/ \E c \in redis.named : redis' = [redis EXCEPT !.named = @ \ {c}]
    /\ UNCHANGED <<durable, req, counters, history>>

\* The process that serves the request dies.
Crash(r) ==
    /\ Fails("crash")
    /\ req[r].at \notin {"free", "copied"}
    /\ cut' = cut \cup {req[r].op}
    /\ Answer(r)
    /\ UNCHANGED <<minted, starts, redeemed, doomed>>

\* Redis comes back empty.
LoseRedis ==
    /\ "loss" \in Fault /\ faults < MaxFaults /\ faults' = faults + 1
    /\ redis' = EmptyRedis
    /\ cut' = cut \cup ({req[r].op : r \in Slot} \ {"none"})
    /\ UNCHANGED <<durable, req, minted, starts, redeemed, doomed>>

\* The model has one id for a copy.
NoCopyYet ==
    /\ redis.meta[Copy] = NoMeta /\ durable[Copy] = NoMeta /\ Copy \notin doomed
    /\ \A r \in Slot : req[r].op # "clone"

Items(op) ==
    CASE op \in {"pair", "redeem"} -> PairCode
      [] op = "ticket" -> Ticket
      [] op \in {"issue", "revoke", "clone"} -> CloneCode
      [] OTHER -> {"none"}

Start(r) ==
    \/ \E op \in Guarded, token \in Token : \E i \in Items(op) :
          Begin(r, op, "exists", token, i)
    \/ \E c \in PairCode : Begin(r, "redeem", "findPair", NoToken, c)
    \/ NoCopyYet /\ \E c \in CloneCode : Begin(r, "clone", "findClone", NoToken, c)
    \/ Begin(r, "mirror", "readForMirror", NoToken, "none")

Existence(r) ==
    LookUp(r) \/ Consult(r) \/ Restore(r) \/ Reindex(r) \/ Authenticate(r)
Deletion(r) ==
    Mark(r) \/ MarkDurable(r) \/ Unmark(r) \/ Unindex(r) \/ Unlink(r) \/ Purge(r)
Rotation(r) == ReadMeta(r) \/ SetToken(r) \/ Upsert(r) \/ Revert(r)
Mirroring(r) == ReadForMirror(r) \/ MirrorMeta(r)
Credentials(r) ==
    IssuePair(r) \/ FindPair(r) \/ Redeem(r) \/ ReadGeneration(r) \/ SetTicket(r)
Codes(r) == NameCode(r) \/ ListCode(r) \/ Unlist(r) \/ Unname(r)
Cloning(r) ==
    \/ FindClone(r) \/ ReadSource(r) \/ CreateDurable(r) \/ CreateMeta(r)
    \/ CreateIndex(r) \/ Uncreate(r) \/ CopyChunk(r) \/ HandOver(r)

Next ==
    \/ \E r \in Slot :
          \/ Start(r) \/ Existence(r) \/ Deletion(r) \/ Rotation(r) \/ Mirroring(r)
          \/ Credentials(r) \/ Codes(r) \/ Cloning(r) \/ Crash(r)
    \/ Expire \/ LoseRedis

Spec == Init /\ [][Next]_vars

-----------------------------------------------------------------------------
(* Properties. *)

AtRest(ops) == cut \cap ops = {} /\ \A r \in Slot : req[r].op \notin ops

\* Once its deletion is marked in both stores a vault lets nobody in again, from
\* Redis or by being restored, whatever request or restoration was half way, and
\* whether the deletion runs to its end, dies or Redis loses everything: what the
\* comment of deleteVault expects of the two marks.
DeletionSticks ==
    \A v \in doomed : ~Admits(redis.meta[v]) /\ ~Admits(durable[v])

\* With no rotation under way, and none that died or lost Redis half way, the token
\* that Redis checks is the one it would be restored with: a rotation that Neo4j refused is
\* taken back, and no restoration brings an older token.
StoresAgreeOnToken ==
    AtRest({"rotate"}) /\ Admits(redis.meta[Source]) => durable[Source].token = redis.meta[Source].token

\* A pair code gives the credentials away at most once, however many redeem it.
RedeemedOnce == \A c \in PairCode : redeemed[c] <= 1

\* Every code that a copy can be had for is in the list the owner can withdraw it
\* from, unless a fault fell between the two commands that issue or withdraw it.
RedeemableIsListed ==
    AtRest({"issue", "revoke"}) /\ Admits(redis.meta[Source]) => redis.named \subseteq redis.listed

\* Whoever is handed the credentials of a copy is handed all of the vault, or what
\* was left of it after it was unlinked; a copy that could not be finished is not
\* handed over.
CopiesAreWhole ==
    \A r \in Slot : At(r, "copied") /\ Admits(redis.meta[Copy]) =>
        redis.records[Copy] \in {0, Chunks}
=============================================================================
