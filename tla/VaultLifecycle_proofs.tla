------------------------ MODULE VaultLifecycle_proofs ------------------------
(***************************************************************************)
(* What holds of a vault's life for any number of slots, codes, chunks,     *)
(* requests and faults.                                                     *)
(***************************************************************************)
EXTENDS VaultLifecycle, TLAPS

\* The types without the bounds of the model.
MetaShape == [token : Nat, deleting : BOOLEAN]
Item == PairCode \cup CloneCode \cup Ticket \cup {"none"}
RedisShape ==
    [meta : [Vault -> MetaShape], index : SUBSET Vault, records : [Vault -> Int],
     pairs : [PairCode -> Nat], tickets : [Ticket -> Nat],
     named : SUBSET Item, listed : SUBSET Item]
Step ==
    Guarded \cup Open \cup {"none", "free", "exists", "consult", "restore", "reindex", "authenticate",
        "markDurable", "unmark", "unindex", "unlink", "purge", "setToken", "upsert",
        "revert", "readForMirror", "mirror", "findPair", "redeem", "setTicket",
        "list", "unname", "findClone", "copy", "createDurable", "createMeta",
        "createIndex", "uncreate", "chunk", "copied"}
ReqShape ==
    [op : Guarded \cup Open \cup {"none"}, at : Step, vault : Vault, token : Nat,
     round : Nat, held : MetaShape, item : Item, count : Int]

Shaped ==
    /\ redis \in RedisShape
    /\ durable \in [Vault -> MetaShape]
    /\ req \in [Slot -> ReqShape]
    /\ minted \in Nat \ {0}
    /\ doomed \subseteq Vault
    /\ redeemed \in [PairCode -> Nat]

-----------------------------------------------------------------------------
(* Where a request may be, and what it then knows. *)

\* The steps at which a copy is made.
Building == {"createDurable", "createMeta", "createIndex", "uncreate", "chunk"}
\* The steps of a deletion once it is marked, and the steps that change a vault
\* which is not being deleted.
Ending == {"unindex", "unlink", "purge"}
Opening == {"restore", "reindex", "rotate", "setToken", "upsert", "revert",
            "delete", "markDurable", "unmark"}

\* A request that may write the metadata of its vault.
InCharge(r) == req[r].at \in Changing \cup Building

Placed(r) ==
    /\ req[r].vault = Copy => req[r].op = "clone"
    /\ req[r].at \in Building => req[r].vault = Copy
    /\ req[r].at \in {"findClone", "copy", "copied"} => req[r].op = "clone"
    /\ req[r].at \in {"exists", "consult", "restore", "reindex"} =>
          req[r].op \in Guarded \cup {"clone"}
    /\ req[r].at = "authenticate" => req[r].op \in Guarded
    /\ req[r].at = "upsert" => req[r].token # NoToken
    /\ req[r].at = "free" => req[r].op # "clone"

\* One request at a time is in charge of a vault, and one copy is made at a time.
OneInCharge ==
    \A q, r \in Slot : q # r =>
        /\ req[q].vault = req[r].vault /\ InCharge(q) => ~ InCharge(r)
        /\ req[q].op = "clone" => req[r].op # "clone"

\* What a request in charge may rely on.
Relies(r) ==
    LET v == req[r].vault
    IN  /\ req[r].at \in Opening => v \notin doomed
        /\ req[r].at \in Ending => v \in doomed
        /\ req[r].op = "clone" /\ req[r].at \notin Ending => Copy \notin doomed
        /\ req[r].at = "markDurable" => ~ Admits(redis.meta[v])
        /\ req[r].at = "purge" => redis.meta[v].token = NoToken
        /\ req[r].at = "mirror" =>
              req[r].held.token # NoToken /\ (v \in doomed => durable[v].deleting)
        /\ v = Copy /\ req[r].at \in {"createMeta", "createIndex", "chunk", "delete", "markDurable"} =>
              durable[Copy].token # NoToken

\* A doomed vault that is still in Redis keeps the mark of its node, which is there
\* as long as nobody deletes the vault.
Buried(v) ==
    /\ v = Source /\ v \notin doomed => durable[v].token # NoToken
    /\ v \in doomed => /\ ~ Admits(redis.meta[v])
                       /\ ~ Admits(durable[v])
                       /\ redis.meta[v].token # NoToken => durable[v].deleting

Final ==
    /\ OneInCharge
    /\ \A r \in Slot : Placed(r) /\ Relies(r)
    /\ \A v \in Vault : Buried(v)

-----------------------------------------------------------------------------
(* What the steps do to requests and stores. *)

\* Only the request in slot r moves, to a step of its own program.
Moves(r) ==
    /\ req' \in [Slot -> ReqShape]
    /\ \A q \in Slot \ {r} : req'[q] = req[q]

GoesOn(r, step) ==
    /\ Moves(r)
    /\ req'[r].at = step
    /\ req'[r].op = req[r].op
    /\ req'[r].item = req[r].item

LEMMA GoingOn ==
    ASSUME Shaped, NEW r \in Slot, NEW step \in Step, Goto(r, step)
    PROVE  /\ GoesOn(r, step)
           /\ req'[r].vault = req[r].vault /\ req'[r].token = req[r].token
           /\ req'[r].held = req[r].held /\ req'[r].count = req[r].count
<1>1. req[r] \in ReqShape
    BY DEF Shaped
<1>2. [req[r] EXCEPT !.at = step] \in ReqShape
    BY <1>1 DEF ReqShape
<1>3. req' = [req EXCEPT ![r] = [req[r] EXCEPT !.at = step]]
    BY DEF Goto
<1> QED
    BY <1>1, <1>2, <1>3 DEF GoesOn, Moves, Shaped, ReqShape

LEMMA HoldingOn ==
    ASSUME Shaped, NEW r \in Slot, NEW step \in Step, NEW d \in MetaShape, Hold(r, step, d)
    PROVE  /\ GoesOn(r, step)
           /\ req'[r].vault = req[r].vault /\ req'[r].token = req[r].token
           /\ req'[r].held = d
<1>1. req[r] \in ReqShape
    BY DEF Shaped
<1>2. [req[r] EXCEPT !.at = step, !.held = d] \in ReqShape
    BY <1>1 DEF ReqShape
<1>3. req' = [req EXCEPT ![r] = [req[r] EXCEPT !.at = step, !.held = d]]
    BY DEF Hold
<1> QED
    BY <1>1, <1>2, <1>3 DEF GoesOn, Moves, Shaped, ReqShape

LEMMA Minting ==
    ASSUME Shaped, NEW r \in Slot, NEW step \in Step, Mints(r, step)
    PROVE  /\ GoesOn(r, step)
           /\ req'[r].vault = req[r].vault /\ req'[r].token = minted + 1
           /\ req'[r].held = req[r].held /\ req'[r].count = req[r].count
           /\ minted' = minted + 1 /\ minted' \in Nat \ {0}
<1>1. req[r] \in ReqShape
    BY DEF Shaped
<1>0. minted + 1 \in Nat \ {0}
    BY DEF Shaped
<1>2. [req[r] EXCEPT !.at = step, !.token = minted + 1] \in ReqShape
    BY <1>0, <1>1 DEF ReqShape
<1>3. req' = [req EXCEPT ![r] = [req[r] EXCEPT !.at = step, !.token = minted + 1]]
    BY DEF Mints
<1>4. minted' = minted + 1 /\ minted' \in Nat \ {0}
    BY <1>0 DEF Mints
<1> QED
    BY <1>1, <1>2, <1>3, <1>4 DEF GoesOn, Moves, Shaped, ReqShape

LEMMA FreeShaped == Free \in ReqShape /\ NoMeta \in MetaShape
<1>1. NoMeta \in MetaShape
    BY DEF MetaShape, NoMeta, NoToken
<1>2. "none" \in Item /\ Source \in Vault /\ NoToken \in Nat
    BY DEF Item, Vault, NoToken
<1>3. "free" \in Step
    BY DEF Step
<1> HIDE DEF NoMeta
<1> QED
    BY <1>1, <1>2, <1>3 DEF Free, ReqShape

LEMMA Answering ==
    ASSUME Shaped, NEW r \in Slot, Answer(r)
    PROVE  Moves(r) /\ req'[r] = Free
    BY FreeShaped DEF Answer, Moves, Shaped

LEMMA Beginning ==
    ASSUME Shaped, NEW r \in Slot, NEW op \in Guarded \cup Open, NEW step \in Step,
           NEW token \in Nat, NEW item \in Item, Begin(r, op, step, token, item)
    PROVE  /\ Moves(r) /\ req[r].at = "free"
           /\ req'[r].op = op /\ req'[r].at = step /\ req'[r].vault = Source
           /\ req'[r].token = token /\ req'[r].item = item
           /\ UNCHANGED <<redis, durable, minted, history>>
<1> DEFINE new == [Free EXCEPT !.op = op, !.at = step, !.round = 1,
                               !.token = token, !.item = item]
<1>1. /\ new \in ReqShape
      /\ new.op = op /\ new.at = step /\ new.vault = Source
      /\ new.token = token /\ new.item = item
    BY FreeShaped DEF Free, ReqShape
<1>2. req' = [req EXCEPT ![r] = new] /\ req[r].at = "free"
    BY DEF Begin, At
<1> HIDE DEF new
<1> QED
    BY <1>1, <1>2 DEF Moves, Shaped, Begin

\* A write to Redis leaves all but the hash of the vault v alone.
Beside == <<redis.records, redis.pairs, redis.named, redis.listed>>
Rewritten(v, d) ==
    /\ redis' \in RedisShape
    /\ redis'.meta = [redis.meta EXCEPT ![v] = d]
    /\ UNCHANGED Beside

LEMMA Rewriting ==
    ASSUME Shaped, NEW v \in Vault, NEW d \in MetaShape, redis' = [redis EXCEPT !.meta[v] = d]
    PROVE  Rewritten(v, d)
<1>1. redis \in RedisShape
    BY DEF Shaped
<1>2. [redis.meta EXCEPT ![v] = d] \in [Vault -> MetaShape]
    BY <1>1 DEF RedisShape
<1>3. redis' = [redis EXCEPT !.meta = [redis.meta EXCEPT ![v] = d]]
    OBVIOUS
<1> QED
    BY <1>1, <1>2, <1>3 DEF RedisShape, Rewritten, Beside

LEMMA TokenWriting ==
    ASSUME Shaped, NEW v \in Vault, NEW t \in Nat, redis' = [redis EXCEPT !.meta[v].token = t]
    PROVE  Rewritten(v, [token |-> t, deleting |-> redis.meta[v].deleting])
<1>1. redis.meta[v] \in MetaShape
    BY DEF Shaped, RedisShape
<1>2. [redis.meta[v] EXCEPT !.token = t] = [token |-> t, deleting |-> redis.meta[v].deleting]
    BY <1>1 DEF MetaShape
<1>3. [token |-> t, deleting |-> redis.meta[v].deleting] \in MetaShape
    BY <1>1 DEF MetaShape
<1>4. redis' = [redis EXCEPT !.meta[v] = [redis.meta[v] EXCEPT !.token = t]]
    OBVIOUS
<1> QED
    BY <1>2, <1>3, <1>4, Rewriting

LEMMA MarkWriting ==
    ASSUME Shaped, NEW v \in Vault, NEW b \in BOOLEAN, redis' = [redis EXCEPT !.meta[v].deleting = b]
    PROVE  Rewritten(v, [token |-> redis.meta[v].token, deleting |-> b])
<1>1. redis.meta[v] \in MetaShape
    BY DEF Shaped, RedisShape
<1>2. [redis.meta[v] EXCEPT !.deleting = b] = [token |-> redis.meta[v].token, deleting |-> b]
    BY <1>1 DEF MetaShape
<1>3. [token |-> redis.meta[v].token, deleting |-> b] \in MetaShape
    BY <1>1 DEF MetaShape
<1>4. redis' = [redis EXCEPT !.meta[v] = [redis.meta[v] EXCEPT !.deleting = b]]
    OBVIOUS
<1> QED
    BY <1>2, <1>3, <1>4, Rewriting

LEMMA IndexWriting ==
    ASSUME Shaped, NEW S \in SUBSET Vault, redis' = [redis EXCEPT !.index = S]
    PROVE  redis' \in RedisShape /\ redis'.meta = redis.meta /\ UNCHANGED Beside
    BY DEF Shaped, RedisShape, Beside

-----------------------------------------------------------------------------
(* The actions, by what they do to the request and to the vaults. *)

Carries(r) ==
    /\ req'[r].vault = req[r].vault /\ req'[r].token = req[r].token
    /\ req'[r].held = req[r].held /\ req'[r].count = req[r].count
Kept == UNCHANGED <<redis, durable, minted, history>>
Ends(r) == Moves(r) /\ req'[r] = Free

\* A request for a vault that exists.
KnowsOn(r) ==
    /\ Carries(r)
    /\ \/ req[r].op = "clone" /\ GoesOn(r, "copy")
       \/ req[r].op # "clone" /\ (GoesOn(r, "exists") \/ GoesOn(r, "authenticate"))

LEMMA KnowingOn ==
    ASSUME Shaped, NEW r \in Slot, Known(r)
    PROVE  KnowsOn(r)
<1>1. CASE req[r].op = "clone"
    BY <1>1, GoingOn DEF Known, KnowsOn, Carries, Step
<1>2. CASE req[r].op # "clone" /\ req[r].round = 1
  <2> DEFINE new == [req[r] EXCEPT !.round = 2, !.at = "exists"]
  <2>1. req[r] \in ReqShape /\ "exists" \in Step
      BY DEF Shaped, Step
  <2>2. new \in ReqShape /\ new.at = "exists" /\ new.op = req[r].op /\ new.item = req[r].item
        /\ new.vault = req[r].vault /\ new.token = req[r].token
        /\ new.held = req[r].held /\ new.count = req[r].count
      BY <2>1 DEF ReqShape
  <2>3. req' = [req EXCEPT ![r] = new]
      BY <1>2 DEF Known
  <2> HIDE DEF new
  <2> QED
      BY <1>2, <2>2, <2>3 DEF Shaped, GoesOn, Moves, Carries, KnowsOn
<1>3. CASE req[r].op # "clone" /\ req[r].round # 1
    BY <1>3, GoingOn DEF Known, KnowsOn, Carries, Step
<1> QED
    BY <1>1, <1>2, <1>3

LEMMA LookUpDoes ==
    ASSUME Shaped, NEW r \in Slot, LookUp(r)
    PROVE  /\ req[r].at = "exists" /\ Kept
           /\ Ends(r) \/ KnowsOn(r) \/ (GoesOn(r, "consult") /\ Carries(r))
    BY GoingOn, Answering, KnowingOn
    DEF LookUp, At, Reads, Quietly, counters, Kept, Ends, Carries, Step

LEMMA ConsultDoes ==
    ASSUME Shaped, NEW r \in Slot, Consult(r)
    PROVE  /\ req[r].at = "consult" /\ Kept /\ Alone(r)
           /\ \/ Ends(r)
              \/ /\ GoesOn(r, "restore") /\ req'[r].vault = req[r].vault
                 /\ req'[r].held = durable[req[r].vault] /\ Admits(durable[req[r].vault])
<1>1. req[r].vault \in Vault /\ durable[req[r].vault] \in MetaShape /\ "restore" \in Step
    BY DEF Shaped, ReqShape, Step
<1> QED
    BY <1>1, HoldingOn, Answering
    DEF Consult, At, Reads, Quietly, counters, Kept, Ends

LEMMA RestoreDoes ==
    ASSUME Shaped, NEW r \in Slot, Restore(r)
    PROVE  /\ req[r].at = "restore" /\ GoesOn(r, "reindex") /\ Carries(r)
           /\ Rewritten(req[r].vault, [token |-> req[r].held.token,
                                       deleting |-> redis.meta[req[r].vault].deleting])
           /\ UNCHANGED <<durable, minted, history>>
<1>1. req[r].vault \in Vault /\ req[r].held.token \in Nat /\ "reindex" \in Step
    BY DEF Shaped, ReqShape, MetaShape, Step
<1> QED
    BY <1>1, GoingOn, TokenWriting DEF Restore, At, Writes, Quietly, counters, Carries

LEMMA ReindexDoes ==
    ASSUME Shaped, NEW r \in Slot, Reindex(r)
    PROVE  /\ req[r].at = "reindex" /\ KnowsOn(r)
           /\ redis' \in RedisShape /\ redis'.meta = redis.meta
           /\ UNCHANGED <<Beside, durable, minted, history>>
<1>1. redis.index \cup {req[r].vault} \in SUBSET Vault
    BY DEF Shaped, RedisShape, ReqShape
<1> QED
    BY <1>1, KnowingOn, IndexWriting DEF Reindex, At, Writes, Quietly, counters

LEMMA AuthenticateDoes ==
    ASSUME Shaped, NEW r \in Slot, Authenticate(r)
    PROVE  /\ req[r].at = "authenticate" /\ Kept
           /\ req[r].op \in {"rotate", "delete"} => Alone(r)
           /\ \/ Ends(r)
              \/ GoesOn(r, req[r].op) /\ Carries(r) /\ Admits(redis.meta[req[r].vault])
<1>1. req[r].op \in Step
    BY DEF Step, Shaped, ReqShape
<1> QED
    BY <1>1, GoingOn, Answering
    DEF Authenticate, At, Mine, Reads, Quietly, counters, Kept, Ends, Carries

LEMMA MarkDoes ==
    ASSUME Shaped, NEW r \in Slot, Mark(r)
    PROVE  /\ req[r].at = "delete" /\ GoesOn(r, "markDurable") /\ Carries(r)
           /\ Rewritten(req[r].vault, [token |-> redis.meta[req[r].vault].token, deleting |-> TRUE])
           /\ UNCHANGED <<durable, minted, history>>
<1>1. req[r].vault \in Vault /\ "markDurable" \in Step
    BY DEF Shaped, ReqShape, Step
<1> QED
    BY <1>1, GoingOn, MarkWriting DEF Mark, At, Writes, Quietly, counters, Carries

LEMMA MarkDurableDoes ==
    ASSUME Shaped, NEW r \in Slot, MarkDurable(r)
    PROVE  /\ req[r].at = "markDurable" /\ Carries(r)
           /\ UNCHANGED <<redis, minted, redeemed, cut>>
           /\ \/ GoesOn(r, "unmark") /\ UNCHANGED <<durable, doomed>>
              \/ /\ GoesOn(r, "unindex") /\ doomed' = doomed \cup {req[r].vault}
                 /\ LET d == durable[req[r].vault]
                    IN  durable' = [durable EXCEPT ![req[r].vault] =
                           [token |-> d.token, deleting |-> d.deleting \/ d.token # NoToken]]
<1>1. req[r].vault \in Vault /\ "unmark" \in Step /\ "unindex" \in Step
      /\ durable[req[r].vault] \in MetaShape
    BY DEF Shaped, ReqShape, Step
<1>2. [durable[req[r].vault] EXCEPT !.deleting = @ \/ durable[req[r].vault].token # NoToken]
      = [token |-> durable[req[r].vault].token,
         deleting |-> durable[req[r].vault].deleting \/ durable[req[r].vault].token # NoToken]
    BY <1>1 DEF MetaShape
<1> QED
    BY <1>1, <1>2, GoingOn DEF MarkDurable, At, Fails, NoFault, WritesNode, Carries

LEMMA UnmarkDoes ==
    ASSUME Shaped, NEW r \in Slot, Unmark(r)
    PROVE  /\ req[r].at = "unmark" /\ Ends(r)
           /\ Rewritten(req[r].vault, [token |-> redis.meta[req[r].vault].token, deleting |-> FALSE])
           /\ UNCHANGED <<durable, minted, history>>
<1>1. req[r].vault \in Vault
    BY DEF Shaped, ReqShape
<1> QED
    BY <1>1, Answering, MarkWriting DEF Unmark, At, Writes, Quietly, counters, Ends

LEMMA UnindexDoes ==
    ASSUME Shaped, NEW r \in Slot, Unindex(r)
    PROVE  /\ req[r].at = "unindex" /\ GoesOn(r, "unlink") /\ Carries(r)
           /\ redis' \in RedisShape /\ redis'.meta = redis.meta
           /\ UNCHANGED <<Beside, durable, minted, history>>
<1>1. redis.index \ {req[r].vault} \in SUBSET Vault /\ "unlink" \in Step
    BY DEF Shaped, RedisShape, ReqShape, Step
<1> QED
    BY <1>1, GoingOn, IndexWriting DEF Unindex, At, Writes, Quietly, counters, Carries

LEMMA UnlinkDoes ==
    ASSUME Shaped, NEW r \in Slot, Unlink(r)
    PROVE  /\ req[r].at = "unlink" /\ GoesOn(r, "purge") /\ Carries(r)
           /\ redis' \in RedisShape
           /\ redis'.meta = [redis.meta EXCEPT ![req[r].vault] = NoMeta]
           /\ redis'.records = [redis.records EXCEPT ![req[r].vault] = 0]
           /\ redis'.pairs = redis.pairs /\ redis'.named = redis.named
           /\ req[r].vault = Copy => redis'.listed = redis.listed
           /\ UNCHANGED <<durable, minted, history>>
<1> DEFINE v == req[r].vault
           rest == [redis EXCEPT !.meta[v] = NoMeta, !.records[v] = 0]
<1>1. v \in Vault /\ "purge" \in Step /\ redis \in RedisShape
    BY DEF Shaped, ReqShape, Step
<1>2. /\ rest \in RedisShape
      /\ rest.meta = [redis.meta EXCEPT ![v] = NoMeta]
      /\ rest.records = [redis.records EXCEPT ![v] = 0]
      /\ rest.pairs = redis.pairs /\ rest.named = redis.named
      /\ rest.listed = redis.listed
  <2> DEFINE meta == [redis.meta EXCEPT ![v] = NoMeta]
             records == [redis.records EXCEPT ![v] = 0]
  <2>1. meta \in [Vault -> MetaShape] /\ records \in [Vault -> Int]
      BY <1>1, FreeShaped DEF RedisShape
  <2>2. rest = [redis EXCEPT !.meta = meta, !.records = records]
      OBVIOUS
  <2> HIDE DEF meta, records, rest
  <2>3. rest \in RedisShape /\ rest.meta = meta /\ rest.records = records
        /\ rest.pairs = redis.pairs /\ rest.named = redis.named
        /\ rest.listed = redis.listed
      BY <1>1, <2>1, <2>2 DEF RedisShape
  <2> QED
      BY <2>3 DEF meta, records
<1>3. EmptyRedis.tickets \in [Ticket -> Nat]
    BY DEF EmptyRedis, NoToken
<1>4. redis' = IF v = Copy THEN rest
               ELSE [rest EXCEPT !.tickets = EmptyRedis.tickets, !.listed = {}]
    BY DEF Unlink, Writes
<1>5. GoesOn(r, "purge") /\ Carries(r)
    BY <1>1, GoingOn DEF Unlink, Carries
<1>6. req[r].at = "unlink" /\ UNCHANGED <<durable, minted, history>>
    BY DEF Unlink, At, Writes, Quietly, counters
<1> HIDE DEF v, rest
<1>7. [rest EXCEPT !.tickets = EmptyRedis.tickets, !.listed = {}] \in RedisShape
    BY <1>2, <1>3 DEF RedisShape
<1>8. /\ redis' \in RedisShape
      /\ redis'.meta = rest.meta /\ redis'.records = rest.records
      /\ redis'.pairs = rest.pairs /\ redis'.named = rest.named
      /\ v = Copy => redis'.listed = rest.listed
    BY <1>2, <1>4, <1>7 DEF RedisShape
<1> QED
    BY <1>2, <1>5, <1>6, <1>8 DEF v

LEMMA PurgeDoes ==
    ASSUME Shaped, NEW r \in Slot, Purge(r)
    PROVE  /\ req[r].at = "purge" /\ Ends(r) /\ UNCHANGED <<redis, minted, history>>
           /\ \/ durable' = durable
              \/ durable' = [durable EXCEPT ![req[r].vault] = NoMeta]
    BY Answering DEF Purge, At, Fails, NoFault, WritesNode, Ends

\* The node of the vault v gets a token, and is made if it is not there.
NodeGets(v, t) ==
    durable' = [durable EXCEPT ![v] = [token |-> t, deleting |-> durable[v].deleting]]

LEMMA Merging ==
    ASSUME Shaped, NEW r \in Slot, NEW t, Merged(r, t)
    PROVE  NodeGets(req[r].vault, t) /\ redis' = redis
<1>1. durable[req[r].vault] \in MetaShape
    BY DEF Shaped, ReqShape
<1>2. [durable[req[r].vault] EXCEPT !.token = t]
      = [token |-> t, deleting |-> durable[req[r].vault].deleting]
    BY <1>1 DEF MetaShape
<1> QED
    BY <1>2 DEF Merged, WritesNode, NodeGets

LEMMA ReadMetaDoes ==
    ASSUME Shaped, NEW r \in Slot, ReadMeta(r)
    PROVE  /\ req[r].at = "rotate" /\ Kept /\ GoesOn(r, "setToken")
           /\ req'[r].vault = req[r].vault /\ req'[r].held = redis.meta[req[r].vault]
<1>1. redis.meta[req[r].vault] \in MetaShape /\ "setToken" \in Step
    BY DEF Shaped, ReqShape, RedisShape, Step
<1> QED
    BY <1>1, HoldingOn DEF ReadMeta, At, Mine, Reads, Quietly, counters, Kept

LEMMA SetTokenDoes ==
    ASSUME Shaped, NEW r \in Slot, SetToken(r)
    PROVE  /\ req[r].at = "setToken" /\ GoesOn(r, "upsert")
           /\ req'[r].vault = req[r].vault /\ req'[r].held = req[r].held
           /\ req'[r].token = minted + 1 /\ minted' = minted + 1 /\ minted' \in Nat \ {0}
           /\ Rewritten(req[r].vault, [token |-> minted + 1,
                                       deleting |-> redis.meta[req[r].vault].deleting])
           /\ UNCHANGED <<durable, history>>
<1>1. req[r].vault \in Vault /\ minted + 1 \in Nat /\ "upsert" \in Step
    BY DEF Shaped, ReqShape, Step
<1> QED
    BY <1>1, Minting, TokenWriting DEF SetToken, At

LEMMA UpsertDoes ==
    ASSUME Shaped, NEW r \in Slot, Upsert(r)
    PROVE  /\ req[r].at = "upsert" /\ UNCHANGED <<redis, minted, history>>
           /\ \/ durable' = durable /\ GoesOn(r, "revert") /\ Carries(r)
              \/ NodeGets(req[r].vault, req[r].token) /\ Ends(r)
<1>1. "revert" \in Step
    BY DEF Step
<1> QED
    BY <1>1, GoingOn, Answering, Merging DEF Upsert, At, Fails, NoFault, Carries, Ends

LEMMA RevertDoes ==
    ASSUME Shaped, NEW r \in Slot, Revert(r)
    PROVE  /\ req[r].at = "revert" /\ Ends(r) /\ UNCHANGED <<durable, minted, history>>
           /\ LET v == req[r].vault
                  held == req[r].held
              IN  IF held.token = NoToken THEN redis' = redis
                  ELSE Rewritten(v, [token |-> held.token,
                                     deleting |-> redis.meta[v].deleting \/ held.deleting])
<1> DEFINE v == req[r].vault
           held == req[r].held
           d == [token |-> held.token, deleting |-> redis.meta[v].deleting \/ held.deleting]
<1>1. v \in Vault /\ held \in MetaShape /\ redis.meta[v] \in MetaShape
    BY DEF Shaped, ReqShape, RedisShape
<1>2. d \in MetaShape
    BY <1>1 DEF MetaShape
<1>3. redis' = IF held.token = NoToken THEN redis ELSE [redis EXCEPT !.meta[v] = d]
    BY DEF Revert, Writes
<1>4. req[r].at = "revert" /\ Ends(r) /\ UNCHANGED <<durable, minted, history>>
    BY Answering DEF Revert, At, Writes, Quietly, counters, Ends
<1> HIDE DEF d
<1>5. held.token # NoToken => Rewritten(v, d)
    BY <1>1, <1>2, <1>3, Rewriting
<1> QED
    BY <1>3, <1>4, <1>5 DEF d

LEMMA ReadForMirrorDoes ==
    ASSUME Shaped, NEW r \in Slot, ReadForMirror(r)
    PROVE  /\ req[r].at = "readForMirror" /\ Kept /\ Alone(r)
           /\ \/ Ends(r)
              \/ /\ GoesOn(r, "mirror") /\ req'[r].vault = req[r].vault
                 /\ req'[r].held = redis.meta[req[r].vault]
                 /\ redis.meta[req[r].vault].token # NoToken
<1>1. redis.meta[req[r].vault] \in MetaShape /\ "mirror" \in Step
    BY DEF Shaped, ReqShape, RedisShape, Step
<1> QED
    BY <1>1, HoldingOn, Answering
    DEF ReadForMirror, At, Mine, Reads, Quietly, counters, Kept, Ends

LEMMA MirrorMetaDoes ==
    ASSUME Shaped, NEW r \in Slot, MirrorMeta(r)
    PROVE  /\ req[r].at = "mirror" /\ Ends(r) /\ UNCHANGED <<redis, minted, history>>
           /\ durable' = durable \/ NodeGets(req[r].vault, req[r].held.token)
    BY Answering, Merging DEF MirrorMeta, At, Fails, NoFault, Ends

\* The other credentials and codes touch neither identities nor records of vaults.
Aside ==
    /\ redis' \in RedisShape /\ redis'.meta = redis.meta /\ redis'.records = redis.records
    /\ UNCHANGED <<durable, minted, doomed, cut>>

LEMMA IssuePairDoes ==
    ASSUME Shaped, NEW r \in Slot, IssuePair(r)
    PROVE  /\ req[r].at = "pair" /\ Ends(r) /\ Aside /\ redeemed' = redeemed
           /\ redeemed[req[r].item] = 0
           /\ redis'.named = redis.named /\ redis'.listed = redis.listed
           /\ \A c \in PairCode : c # req[r].item => redis'.pairs[c] = redis.pairs[c]
<1> DEFINE i == req[r].item
           code == IF redis.pairs[i] = NoToken THEN req[r].token ELSE redis.pairs[i]
           pairs == [redis.pairs EXCEPT ![i] = code]
<1>1. redis \in RedisShape /\ req[r].token \in Nat
    BY DEF Shaped, ReqShape
<1>2. pairs \in [PairCode -> Nat] /\ \A c \in PairCode : c # i => pairs[c] = redis.pairs[c]
    BY <1>1 DEF RedisShape
<1>3. redis' = [redis EXCEPT !.pairs = pairs]
    BY DEF IssuePair, Writes
<1>4. req[r].at = "pair" /\ Ends(r) /\ UNCHANGED <<durable, minted, history>> /\ redeemed[i] = 0
    BY Answering DEF IssuePair, At, Writes, Quietly, counters, Ends
<1> HIDE DEF pairs
<1>5. redis' \in RedisShape /\ redis'.meta = redis.meta /\ redis'.records = redis.records
      /\ redis'.named = redis.named /\ redis'.listed = redis.listed /\ redis'.pairs = pairs
    BY <1>1, <1>2, <1>3 DEF RedisShape
<1> QED
    BY <1>2, <1>4, <1>5 DEF Aside, history

LEMMA FindPairDoes ==
    ASSUME Shaped, NEW r \in Slot, FindPair(r)
    PROVE  /\ req[r].at = "findPair" /\ Kept
           /\ Ends(r) \/ (GoesOn(r, "redeem") /\ Carries(r))
<1>1. "redeem" \in Step
    BY DEF Step
<1> QED
    BY <1>1, GoingOn, Answering
    DEF FindPair, At, Reads, Quietly, counters, Kept, Ends, Carries

LEMMA RedeemDoes ==
    ASSUME Shaped, NEW r \in Slot, Redeem(r)
    PROVE  /\ req[r].at = "redeem" /\ Ends(r) /\ Aside
           /\ redis'.named = redis.named /\ redis'.listed = redis.listed
           /\ redis'.pairs = [redis.pairs EXCEPT ![req[r].item] = NoToken]
           /\ \/ redeemed' = redeemed
              \/ /\ redis.pairs[req[r].item] # NoToken
                 /\ redeemed' = [redeemed EXCEPT ![req[r].item] = @ + 1]
<1> DEFINE i == req[r].item
           pairs == [redis.pairs EXCEPT ![i] = NoToken]
<1>1. redis \in RedisShape /\ redeemed \in [PairCode -> Nat]
    BY DEF Shaped
<1>2. pairs \in [PairCode -> Nat]
    BY <1>1 DEF RedisShape, NoToken
<1>3. redis' = [redis EXCEPT !.pairs = pairs]
    BY DEF Redeem
<1>4. req[r].at = "redeem" /\ Ends(r) /\ UNCHANGED <<durable, minted, doomed, cut>>
    BY Answering DEF Redeem, At, GivesAway, counters, Ends
<1>5. CASE redis.pairs[i] \notin {NoToken, redis.meta[Source].token}
  <2>1. redeemed' = redeemed
      BY <1>5 DEF Redeem, GivesAway
  <2> HIDE DEF pairs
  <2>2. redis' \in RedisShape /\ redis'.meta = redis.meta /\ redis'.records = redis.records
        /\ redis'.named = redis.named /\ redis'.listed = redis.listed /\ redis'.pairs = pairs
      BY <1>1, <1>2, <1>3 DEF RedisShape
  <2> QED
      BY <1>4, <2>1, <2>2 DEF Aside, pairs
<1>6. CASE redis.pairs[i] \in {NoToken, redis.meta[Source].token}
  <2>1. redeemed' = [redeemed EXCEPT ![i] = @ + IF redis.pairs[i] = NoToken THEN 0 ELSE 1]
      BY <1>6 DEF Redeem, GivesAway
  <2>2. redis.pairs[i] = NoToken => redeemed' = redeemed
    <3>1. \A c \in PairCode : redeemed[c] + 0 = redeemed[c]
        BY <1>1
    <3> QED
        BY <1>1, <2>1, <3>1
  <2>3. redis.pairs[i] # NoToken => redeemed' = [redeemed EXCEPT ![i] = @ + 1]
      BY <2>1
  <2> HIDE DEF pairs
  <2>4. redis' \in RedisShape /\ redis'.meta = redis.meta /\ redis'.records = redis.records
        /\ redis'.named = redis.named /\ redis'.listed = redis.listed /\ redis'.pairs = pairs
      BY <1>1, <1>2, <1>3 DEF RedisShape
  <2> QED
      BY <1>4, <2>2, <2>3, <2>4 DEF Aside, pairs
<1> QED
    BY <1>5, <1>6

LEMMA ReadGenerationDoes ==
    ASSUME Shaped, NEW r \in Slot, ReadGeneration(r)
    PROVE  /\ req[r].at = "ticket" /\ Kept
           /\ Ends(r) \/ (GoesOn(r, "setTicket") /\ req'[r].vault = req[r].vault)
<1>1. redis.meta[req[r].vault] \in MetaShape /\ "setTicket" \in Step
    BY DEF Shaped, ReqShape, RedisShape, Step
<1> QED
    BY <1>1, HoldingOn, Answering
    DEF ReadGeneration, At, Mine, Reads, Quietly, counters, Kept, Ends

LEMMA SetTicketDoes ==
    ASSUME Shaped, NEW r \in Slot, SetTicket(r)
    PROVE  /\ req[r].at = "setTicket" /\ Ends(r) /\ Aside /\ redeemed' = redeemed
           /\ UNCHANGED Beside
<1> DEFINE tickets == [redis.tickets EXCEPT ![req[r].item] = req[r].held.token]
<1>1. redis \in RedisShape /\ req[r].held.token \in Nat
    BY DEF Shaped, ReqShape, MetaShape
<1>2. tickets \in [Ticket -> Nat]
    BY <1>1 DEF RedisShape
<1>3. redis' = [redis EXCEPT !.tickets = tickets]
    BY DEF SetTicket, Writes
<1>4. req[r].at = "setTicket" /\ Ends(r) /\ UNCHANGED <<durable, minted, history>>
    BY Answering DEF SetTicket, At, Writes, Quietly, counters, Ends
<1> HIDE DEF tickets
<1>5. redis' \in RedisShape /\ redis'.meta = redis.meta /\ UNCHANGED Beside
    BY <1>1, <1>2, <1>3 DEF RedisShape, Beside
<1> QED
    BY <1>4, <1>5 DEF Aside, Beside, history

LEMMA NamesWriting ==
    ASSUME Shaped, NEW named \in SUBSET Item, NEW listed \in SUBSET Item,
           \/ redis' = [redis EXCEPT !.named = named] /\ listed = redis.listed
           \/ redis' = [redis EXCEPT !.listed = listed] /\ named = redis.named
    PROVE  /\ redis' \in RedisShape /\ redis'.meta = redis.meta
           /\ redis'.records = redis.records /\ redis'.pairs = redis.pairs
           /\ redis'.named = named /\ redis'.listed = listed
    BY DEF Shaped, RedisShape

LEMMA NameCodeDoes ==
    ASSUME Shaped, NEW r \in Slot, NameCode(r)
    PROVE  /\ req[r].at = "issue" /\ GoesOn(r, "list") /\ Carries(r) /\ Aside
           /\ redis'.named = redis.named \cup {req[r].item}
           /\ redis'.listed = redis.listed /\ redis'.pairs = redis.pairs /\ redeemed' = redeemed
<1>1. redis.named \cup {req[r].item} \in SUBSET Item /\ redis.listed \in SUBSET Item /\ "list" \in Step
    BY DEF Shaped, RedisShape, ReqShape, Step
<1> QED
    BY <1>1, GoingOn, NamesWriting
    DEF NameCode, At, Writes, Quietly, counters, history, Carries, Aside

LEMMA ListCodeDoes ==
    ASSUME Shaped, NEW r \in Slot, ListCode(r)
    PROVE  /\ req[r].at = "list" /\ Ends(r) /\ Aside
           /\ redis'.listed = redis.listed \cup {req[r].item}
           /\ redis'.named = redis.named /\ redis'.pairs = redis.pairs /\ redeemed' = redeemed
<1>1. redis.listed \cup {req[r].item} \in SUBSET Item /\ redis.named \in SUBSET Item
    BY DEF Shaped, RedisShape, ReqShape
<1> QED
    BY <1>1, Answering, NamesWriting
    DEF ListCode, At, Writes, Quietly, counters, history, Ends, Aside

LEMMA UnlistDoes ==
    ASSUME Shaped, NEW r \in Slot, Unlist(r)
    PROVE  /\ req[r].at = "revoke" /\ GoesOn(r, "unname") /\ Carries(r) /\ Aside
           /\ redis'.listed = redis.listed \ {req[r].item}
           /\ redis'.named = redis.named /\ redis'.pairs = redis.pairs /\ redeemed' = redeemed
<1>1. redis.listed \ {req[r].item} \in SUBSET Item /\ redis.named \in SUBSET Item /\ "unname" \in Step
    BY DEF Shaped, RedisShape, ReqShape, Step
<1> QED
    BY <1>1, GoingOn, NamesWriting
    DEF Unlist, At, Writes, Quietly, counters, history, Carries, Aside

LEMMA UnnameDoes ==
    ASSUME Shaped, NEW r \in Slot, Unname(r)
    PROVE  /\ req[r].at = "unname" /\ Ends(r) /\ Aside
           /\ redis'.named = redis.named \ {req[r].item}
           /\ redis'.listed = redis.listed /\ redis'.pairs = redis.pairs /\ redeemed' = redeemed
<1>1. redis.named \ {req[r].item} \in SUBSET Item /\ redis.listed \in SUBSET Item
    BY DEF Shaped, RedisShape, ReqShape
<1>2. redis' = [redis EXCEPT !.named = redis.named \ {req[r].item}]
    BY DEF Unname, Writes
<1>3. /\ redis' \in RedisShape /\ redis'.meta = redis.meta
      /\ redis'.records = redis.records /\ redis'.pairs = redis.pairs
      /\ redis'.named = redis.named \ {req[r].item} /\ redis'.listed = redis.listed
    BY <1>1, <1>2, NamesWriting
<1>4. req[r].at = "unname" /\ Ends(r) /\ UNCHANGED <<durable, minted, history>>
    BY Answering DEF Unname, At, Writes, Quietly, counters, Ends
<1> QED
    BY <1>3, <1>4 DEF Aside, history

LEMMA FindCloneDoes ==
    ASSUME Shaped, NEW r \in Slot, FindClone(r)
    PROVE  /\ req[r].at = "findClone" /\ Kept
           /\ Ends(r) \/ (GoesOn(r, "exists") /\ Carries(r))
<1>1. "exists" \in Step
    BY DEF Step
<1> QED
    BY <1>1, GoingOn, Answering
    DEF FindClone, At, Reads, Quietly, counters, Kept, Ends, Carries

LEMMA ReadSourceDoes ==
    ASSUME Shaped, NEW r \in Slot, ReadSource(r)
    PROVE  /\ req[r].at = "copy" /\ Kept /\ GoesOn(r, "createDurable")
           /\ req'[r].vault = Copy /\ req'[r].count = redis.records[Source]
<1> DEFINE new == [req[r] EXCEPT !.at = "createDurable", !.vault = Copy,
                                 !.count = redis.records[Source]]
<1>1. /\ req[r] \in ReqShape /\ "createDurable" \in Step /\ Copy \in Vault
      /\ redis.records[Source] \in Int
    BY DEF Shaped, RedisShape, Vault, Step
<1>2. /\ new \in ReqShape /\ new.at = "createDurable" /\ new.op = req[r].op
      /\ new.item = req[r].item /\ new.vault = Copy /\ new.count = redis.records[Source]
    BY <1>1 DEF ReqShape
<1>3. req' = [req EXCEPT ![r] = new] /\ req[r].at = "copy" /\ Kept
    BY DEF ReadSource, At, Reads, Quietly, counters, Kept
<1> HIDE DEF new
<1> QED
    BY <1>2, <1>3 DEF Shaped, GoesOn, Moves

LEMMA CreateDurableDoes ==
    ASSUME Shaped, NEW r \in Slot, CreateDurable(r)
    PROVE  /\ req[r].at = "createDurable" /\ UNCHANGED <<redis, history>>
           /\ \/ Ends(r) /\ UNCHANGED <<durable, minted>>
              \/ /\ GoesOn(r, "createMeta") /\ req'[r].vault = req[r].vault
                 /\ req'[r].token = minted + 1 /\ req'[r].count = req[r].count
                 /\ minted' = minted + 1 /\ minted' \in Nat \ {0}
                 /\ NodeGets(req[r].vault, minted + 1)
<1>1. "createMeta" \in Step
    BY DEF Step
<1> QED
    BY <1>1, Answering, Minting, Merging
    DEF CreateDurable, At, Fails, NoFault, Ends

LEMMA CreateMetaDoes ==
    ASSUME Shaped, NEW r \in Slot, CreateMeta(r)
    PROVE  /\ req[r].at = "createMeta" /\ UNCHANGED <<durable, minted, history>> /\ Carries(r)
           /\ \/ GoesOn(r, "uncreate") /\ redis' = redis
              \/ /\ GoesOn(r, "createIndex")
                 /\ Rewritten(Copy, [token |-> req[r].token, deleting |-> redis.meta[Copy].deleting])
<1>1. "createIndex" \in Step /\ "uncreate" \in Step /\ Copy \in Vault /\ req[r].token \in Nat
    BY DEF Step, Vault, Shaped, ReqShape
<1> QED
    BY <1>1, GoingOn, TokenWriting
    DEF CreateMeta, CopyWrite, At, Fails, NoFault, Carries

LEMMA CreateIndexDoes ==
    ASSUME Shaped, NEW r \in Slot, CreateIndex(r)
    PROVE  /\ req[r].at = "createIndex" /\ UNCHANGED <<durable, minted, history>> /\ Carries(r)
           /\ GoesOn(r, "uncreate") \/ GoesOn(r, "chunk")
           /\ redis' \in RedisShape /\ redis'.meta = redis.meta /\ UNCHANGED Beside
<1>1. "chunk" \in Step /\ "uncreate" \in Step /\ redis.index \cup {Copy} \in SUBSET Vault
    BY DEF Step, Vault, Shaped, RedisShape
<1>2. redis \in RedisShape
    BY DEF Shaped
<1> QED
    BY <1>1, <1>2, GoingOn, IndexWriting
    DEF CreateIndex, CopyWrite, At, Fails, NoFault, Carries, Beside

LEMMA UncreateDoes ==
    ASSUME Shaped, NEW r \in Slot, Uncreate(r)
    PROVE  /\ req[r].at = "uncreate" /\ Ends(r) /\ UNCHANGED <<minted, history>>
           /\ durable' = [durable EXCEPT ![Copy] = NoMeta]
           /\ redis' \in RedisShape /\ UNCHANGED Beside
           /\ redis'.meta = redis.meta \/ redis'.meta = [redis.meta EXCEPT ![Copy] = NoMeta]
<1> DEFINE meta == [redis.meta EXCEPT ![Copy] = NoMeta]
           index == redis.index \ {Copy}
<1>1. redis \in RedisShape
    BY DEF Shaped
<1>2. meta \in [Vault -> MetaShape] /\ index \in SUBSET Vault
    BY <1>1, FreeShaped DEF RedisShape
<1>3. redis' = redis \/ redis' = [redis EXCEPT !.meta = meta, !.index = index]
    BY DEF Uncreate
<1>4. /\ req[r].at = "uncreate" /\ Ends(r) /\ UNCHANGED <<minted, history>>
      /\ durable' = [durable EXCEPT ![Copy] = NoMeta]
    BY Answering DEF Uncreate, At, Quietly, counters, Ends
<1> HIDE DEF meta, index
<1>5. /\ redis' \in RedisShape /\ UNCHANGED Beside
      /\ redis'.meta = redis.meta \/ redis'.meta = meta
    BY <1>1, <1>2, <1>3 DEF RedisShape, Beside
<1> QED
    BY <1>4, <1>5 DEF meta

LEMMA CopyChunkDoes ==
    ASSUME Shaped, NEW r \in Slot, CopyChunk(r)
    PROVE  /\ req[r].at = "chunk" /\ UNCHANGED <<durable, minted, history>>
           /\ \/ redis' = redis /\ GoesOn(r, "delete") /\ Carries(r)
              \/ /\ GoesOn(r, "chunk") /\ req'[r].vault = req[r].vault
                 /\ req'[r].count = req[r].count - 1
                 /\ redis' \in RedisShape /\ redis'.meta = redis.meta
                 /\ redis'.pairs = redis.pairs /\ redis'.named = redis.named
                 /\ redis'.listed = redis.listed
                 /\ redis'.records = [redis.records EXCEPT ![Copy] = @ + 1]
<1>1. req[r].at = "chunk" /\ UNCHANGED <<minted, history>> /\ "delete" \in Step
    BY DEF CopyChunk, At, Step, Guarded
<1>2. CASE redis' = redis /\ durable' = durable /\ Goto(r, "delete")
    BY <1>1, <1>2, GoingOn DEF Carries
<1>3. CASE ChunkDone(r)
  <2> DEFINE new == [req[r] EXCEPT !.count = @ - 1]
             records == [redis.records EXCEPT ![Copy] = @ + 1]
  <2>1. req[r] \in ReqShape /\ redis \in RedisShape /\ Copy \in Vault
      BY DEF Shaped, Vault
  <2>2. /\ new \in ReqShape /\ new.at = req[r].at /\ new.op = req[r].op
        /\ new.item = req[r].item /\ new.vault = req[r].vault
        /\ new.count = req[r].count - 1
      BY <2>1 DEF ReqShape
  <2>3. records \in [Vault -> Int]
    <3>1. redis.records \in [Vault -> Int]
        BY <2>1 DEF RedisShape
    <3>2. redis.records[Copy] + 1 \in Int
        BY <2>1, <3>1
    <3> QED
        BY <3>1, <3>2
  <2>4. req' = [req EXCEPT ![r] = new] /\ redis' = [redis EXCEPT !.records = records]
        /\ durable' = durable
      BY <1>3 DEF ChunkDone
  <2> HIDE DEF new, records
  <2>5. GoesOn(r, "chunk") /\ req'[r].vault = req[r].vault /\ req'[r].count = req[r].count - 1
      BY <1>1, <2>2, <2>4 DEF Shaped, GoesOn, Moves
  <2>6. /\ redis' \in RedisShape /\ redis'.meta = redis.meta
        /\ redis'.pairs = redis.pairs /\ redis'.named = redis.named
        /\ redis'.listed = redis.listed /\ redis'.records = records
      BY <2>1, <2>3, <2>4 DEF RedisShape
  <2> QED
      BY <1>1, <2>4, <2>5, <2>6 DEF records
<1> QED
    BY <1>2, <1>3 DEF CopyChunk, Fails, NoFault

LEMMA HandOverDoes ==
    ASSUME Shaped, NEW r \in Slot, HandOver(r)
    PROVE  /\ req[r].at = "chunk" /\ req[r].count = 0
           /\ Kept /\ GoesOn(r, "copied") /\ Carries(r)
<1>1. "copied" \in Step
    BY DEF Step
<1> QED
    BY <1>1, GoingOn DEF HandOver, At, Reads, Quietly, counters, Kept, Carries

LEMMA StartDoes ==
    ASSUME Shaped, NEW r \in Slot, Start(r)
    PROVE  /\ req[r].at = "free" /\ Kept /\ Moves(r) /\ req'[r].vault = Source
           /\ \/ req'[r].op \in Guarded /\ req'[r].at = "exists"
              \/ req'[r].op = "redeem" /\ req'[r].at = "findPair"
              \/ req'[r].op = "clone" /\ req'[r].at = "findClone" /\ NoCopyYet
              \/ req'[r].op = "mirror" /\ req'[r].at = "readForMirror"
<1>1. ASSUME NEW op \in Guarded, NEW token \in Token, NEW i \in Items(op),
             Begin(r, op, "exists", token, i)
      PROVE  /\ req[r].at = "free" /\ Kept /\ Moves(r) /\ req'[r].vault = Source
             /\ req'[r].op \in Guarded /\ req'[r].at = "exists"
  <2>1. i \in Item
      BY DEF Items, Item, Guarded
  <2>2. token \in Nat /\ "exists" \in Step /\ op \in Guarded \cup Open
      BY DEF Token, Step
  <2> QED
      BY <1>1, <2>1, <2>2, Beginning DEF Kept
<1>2. ASSUME NEW op \in {"redeem", "clone", "mirror"},
             NEW step \in {"findPair", "findClone", "readForMirror"},
             NEW i \in Item, Begin(r, op, step, NoToken, i)
      PROVE  /\ req[r].at = "free" /\ Kept /\ Moves(r) /\ req'[r].vault = Source
             /\ req'[r].op = op /\ req'[r].at = step
  <2>1. NoToken \in Nat /\ step \in Step /\ op \in Guarded \cup Open
      BY DEF NoToken, Step, Open
  <2> QED
      BY <1>2, <2>1, Beginning DEF Kept
<1>3. PairCode \subseteq Item /\ CloneCode \subseteq Item /\ "none" \in Item
    BY DEF Item
<1>4. CASE \E op \in Guarded, token \in Token : \E i \in Items(op) :
              Begin(r, op, "exists", token, i)
    BY <1>1, <1>4
<1>5. CASE \E c \in PairCode : Begin(r, "redeem", "findPair", NoToken, c)
    BY <1>2, <1>3, <1>5
<1>6. CASE NoCopyYet /\ \E c \in CloneCode : Begin(r, "clone", "findClone", NoToken, c)
    BY <1>2, <1>3, <1>6
<1>7. CASE Begin(r, "mirror", "readForMirror", NoToken, "none")
    BY <1>2, <1>3, <1>7
<1> QED
    BY <1>4, <1>5, <1>6, <1>7 DEF Start

LEMMA CrashDoes ==
    ASSUME Shaped, NEW r \in Slot, Crash(r)
    PROVE  /\ Ends(r) /\ cut' = cut \cup {req[r].op}
           /\ UNCHANGED <<redis, durable, minted, redeemed, doomed>>
    BY Answering DEF Crash, Fails, Ends

LEMMA LoseRedisDoes ==
    ASSUME Shaped, LoseRedis
    PROVE  /\ redis' \in RedisShape
           /\ redis'.meta = [v \in Vault |-> NoMeta]
           /\ redis'.records = [v \in Vault |-> 0]
           /\ redis'.pairs = [c \in PairCode |-> NoToken]
           /\ redis'.named = {} /\ redis'.listed = {}
           /\ UNCHANGED <<durable, req, minted, redeemed, doomed>>
           /\ cut' = cut \cup ({req[r].op : r \in Slot} \ {"none"})
<1>1. NoMeta \in MetaShape /\ NoToken \in Nat
    BY FreeShaped DEF NoToken
<1>2. redis' = EmptyRedis
    BY DEF LoseRedis
<1>3. EmptyRedis \in RedisShape
    BY <1>1 DEF EmptyRedis, RedisShape
<1> QED
    BY <1>2, <1>3 DEF LoseRedis, EmptyRedis

LEMMA ExpireDoes ==
    ASSUME Shaped, Expire
    PROVE  /\ redis' \in RedisShape /\ redis'.meta = redis.meta
           /\ redis'.records = redis.records /\ redis'.listed = redis.listed
           /\ redis'.named \subseteq redis.named
           /\ \/ redis'.pairs = redis.pairs
              \/ \E c \in PairCode : redis'.pairs = [redis.pairs EXCEPT ![c] = NoToken]
           /\ UNCHANGED <<durable, req, minted, history>>
<1>1. redis \in RedisShape
    BY DEF Shaped
<1>2. ASSUME NEW c \in PairCode, redis' = [redis EXCEPT !.pairs[c] = NoToken]
      PROVE  /\ redis' \in RedisShape /\ redis'.meta = redis.meta
             /\ redis'.records = redis.records /\ redis'.listed = redis.listed
             /\ redis'.named = redis.named
             /\ redis'.pairs = [redis.pairs EXCEPT ![c] = NoToken]
  <2> DEFINE pairs == [redis.pairs EXCEPT ![c] = NoToken]
  <2>1. pairs \in [PairCode -> Nat]
      BY <1>1 DEF RedisShape, NoToken
  <2>2. redis' = [redis EXCEPT !.pairs = pairs]
      BY <1>2
  <2> HIDE DEF pairs
  <2>3. /\ redis' \in RedisShape /\ redis'.meta = redis.meta
        /\ redis'.records = redis.records /\ redis'.listed = redis.listed
        /\ redis'.named = redis.named /\ redis'.pairs = pairs
      BY <1>1, <2>1, <2>2 DEF RedisShape
  <2> QED
      BY <2>3 DEF pairs
<1>3. ASSUME NEW c, redis' = [redis EXCEPT !.named = @ \ {c}]
      PROVE  /\ redis' \in RedisShape /\ redis'.meta = redis.meta
             /\ redis'.records = redis.records /\ redis'.listed = redis.listed
             /\ redis'.named = redis.named \ {c} /\ redis'.pairs = redis.pairs
  <2>1. redis.named \ {c} \in SUBSET Item
      BY <1>1 DEF RedisShape
  <2> QED
      BY <1>1, <1>3, <2>1 DEF RedisShape
<1> QED
    BY <1>2, <1>3 DEF Expire, counters

-----------------------------------------------------------------------------
LEMMA InitShaped == Init => Shaped
<1> SUFFICES ASSUME Init
             PROVE  Shaped
    OBVIOUS
<1>1. NoMeta \in MetaShape /\ [NoMeta EXCEPT !.token = 1] \in MetaShape
    BY DEF NoMeta, MetaShape, NoToken
<1>2. durable \in [Vault -> MetaShape]
    BY <1>1 DEF Init
<1>3. EmptyRedis \in RedisShape
    BY <1>1 DEF EmptyRedis, RedisShape, NoToken
<1>4. [EmptyRedis.records EXCEPT ![Source] = Chunks] \in [Vault -> Int]
  <2>1. EmptyRedis.records \in [Vault -> Int] /\ Chunks \in Int
      BY LifecycleBounds DEF EmptyRedis
  <2> QED
      BY <2>1
<1>5. redis = [EmptyRedis EXCEPT !.meta = durable, !.index = {Source},
                                 !.records = [EmptyRedis.records EXCEPT ![Source] = Chunks]]
    BY DEF Init
<1>6. {Source} \in SUBSET Vault
    BY DEF Vault
<1> HIDE DEF EmptyRedis
<1>7. redis \in RedisShape
    BY <1>2, <1>3, <1>4, <1>5, <1>6 DEF RedisShape
<1>8. req \in [Slot -> ReqShape]
    BY FreeShaped DEF Init
<1> QED
    BY <1>2, <1>7, <1>8 DEF Init, Shaped

LEMMA StepShaped ==
    ASSUME Shaped, [Next]_vars
    PROVE  Shaped'
<1>1. ASSUME NEW r \in Slot, Moves(r)
      PROVE  req' \in [Slot -> ReqShape]
    BY <1>1 DEF Moves
<1>2. ASSUME NEW v, NEW t \in Nat, NodeGets(v, t)
      PROVE  durable' \in [Vault -> MetaShape]
  <2>1. v \in Vault => durable[v].deleting \in BOOLEAN
      BY DEF Shaped, MetaShape
  <2> QED
      BY <1>2, <2>1 DEF NodeGets, Shaped, MetaShape
<1>3. ASSUME NEW v
      PROVE  [durable EXCEPT ![v] = NoMeta] \in [Vault -> MetaShape]
    BY FreeShaped DEF Shaped
<1>r. \A r \in Slot : req[r].vault \in Vault /\ req[r].token \in Nat /\ req[r].held.token \in Nat
    BY DEF Shaped, ReqShape, MetaShape
<1>4. ASSUME NEW r \in Slot, Start(r) \/ Existence(r)
      PROVE  Shaped'
    BY <1>1, <1>4, StartDoes, LookUpDoes, ConsultDoes, RestoreDoes, ReindexDoes,
       AuthenticateDoes
    DEF Existence, Kept, Ends, KnowsOn, GoesOn, Rewritten, history, Shaped
<1>5. ASSUME NEW r \in Slot, Deletion(r)
      PROVE  Shaped'
  <2>1. CASE MarkDurable(r)
    <3>1. LET d == durable[req[r].vault]
          IN  [token |-> d.token, deleting |-> d.deleting \/ d.token # NoToken] \in MetaShape
        BY <1>r DEF Shaped, MetaShape
    <3> QED
        BY <1>1, <1>r, <2>1, <3>1, MarkDurableDoes DEF GoesOn, Shaped
  <2>2. CASE Mark(r) \/ Unmark(r) \/ Unindex(r)
      BY <1>1, <2>2, MarkDoes, UnmarkDoes, UnindexDoes
      DEF Ends, GoesOn, Rewritten, history, Shaped
  <2>3. CASE Unlink(r)
      BY <1>1, <2>3, UnlinkDoes DEF GoesOn, history, Shaped
  <2>4. CASE Purge(r)
      BY <1>1, <1>3, <2>4, PurgeDoes DEF Ends, history, Shaped
  <2> QED
      BY <1>5, <2>1, <2>2, <2>3, <2>4 DEF Deletion
<1>6. ASSUME NEW r \in Slot, Rotation(r) \/ Mirroring(r)
      PROVE  Shaped'
    BY <1>1, <1>2, <1>6, <1>r, ReadMetaDoes, SetTokenDoes, UpsertDoes, RevertDoes,
       ReadForMirrorDoes, MirrorMetaDoes
    DEF Rotation, Mirroring, Kept, Ends, GoesOn, Rewritten, history, Shaped
<1>7. ASSUME NEW r \in Slot, Credentials(r) \/ Codes(r)
      PROVE  Shaped'
  <2>1. CASE Redeem(r)
    <3>1. [redeemed EXCEPT ![req[r].item] = @ + 1] \in [PairCode -> Nat]
      <4>1. redeemed \in [PairCode -> Nat]
          BY DEF Shaped
      <4>2. req[r].item \in PairCode => redeemed[req[r].item] + 1 \in Nat
          BY <4>1
      <4> QED
          BY <4>1, <4>2
    <3> QED
        BY <1>1, <2>1, <3>1, RedeemDoes DEF Aside, Ends, Shaped
  <2>2. CASE ~ Redeem(r)
      BY <1>1, <1>7, <2>2, IssuePairDoes, FindPairDoes, ReadGenerationDoes, SetTicketDoes,
         NameCodeDoes, ListCodeDoes, UnlistDoes, UnnameDoes
      DEF Credentials, Codes, Kept, Aside, Ends, GoesOn, history, Shaped
  <2> QED
      BY <2>1, <2>2
<1>8. ASSUME NEW r \in Slot, Cloning(r)
      PROVE  Shaped'
  <2>1. minted + 1 \in Nat
      BY DEF Shaped
  <2> QED
      BY <1>1, <1>2, <1>3, <1>8, <2>1, FindCloneDoes, ReadSourceDoes, CreateDurableDoes,
         CreateMetaDoes, CreateIndexDoes, UncreateDoes, CopyChunkDoes, HandOverDoes
      DEF Cloning, Kept, Ends, GoesOn, Rewritten, history, Shaped
<1>9. ASSUME NEW r \in Slot, Crash(r)
      PROVE  Shaped'
    BY <1>1, <1>9, CrashDoes DEF Ends, Shaped
<1>10. CASE Expire \/ LoseRedis
    BY <1>10, ExpireDoes, LoseRedisDoes DEF history, Shaped
<1>11. CASE UNCHANGED vars
    BY <1>11 DEF vars, history, counters, Shaped
<1> QED
    BY <1>4, <1>5, <1>6, <1>7, <1>8, <1>9, <1>10, <1>11 DEF Next

-----------------------------------------------------------------------------
(* A deletion is final. *)

Still == UNCHANGED <<redis.meta, durable, doomed>>
Elsewhere(v) ==
    \A u \in Vault : u # v =>
        /\ redis.meta'[u] = redis.meta[u] /\ durable'[u] = durable[u]
        /\ u \in doomed' <=> u \in doomed

\* A step of one request, by which no other one is disturbed if it is in charge of
\* what it changes.
LEMMA OneStep ==
    ASSUME Shaped, Final, NEW r \in Slot, NEW mine, mine = req[r].vault,
           Moves(r), Elsewhere(mine),
           InCharge(r) \/ Still,
           InCharge(r)' =>
              \/ InCharge(r) /\ req'[r].vault = req[r].vault
              \/ req'[r].vault = Copy
              \/ \A q \in Slot : q # r /\ req[q].vault = req'[r].vault => ~ InCharge(q),
           req'[r].op = "clone" =>
              req[r].op = "clone" \/ \A q \in Slot : req[q].op # "clone",
           Placed(r)', Relies(r)', Buried(mine)'
    PROVE  Final'
<1>1. \A q \in Slot : q # r => req'[q] = req[q]
    BY DEF Moves
<1>2. \A q \in Slot : req[q].vault \in Vault
    BY DEF Shaped, ReqShape
<1>3. \A q \in Slot : Placed(q)'
    BY <1>1 DEF Final, Placed
<1>4. OneInCharge'
  <2> SUFFICES ASSUME NEW p \in Slot, NEW q \in Slot, p # q
               PROVE  /\ req'[p].vault = req'[q].vault /\ InCharge(p)' => ~ InCharge(q)'
                      /\ req'[p].op = "clone" => req'[q].op # "clone"
      BY DEF OneInCharge
  <2>1. \A s \in Slot : s # r => (InCharge(s)' <=> InCharge(s))
      BY <1>1 DEF InCharge
  <2>2. /\ req[p].vault = req[q].vault /\ InCharge(p) => ~ InCharge(q)
        /\ req[p].op = "clone" => req[q].op # "clone"
        /\ req[q].op = "clone" => req[p].op # "clone"
      BY DEF Final, OneInCharge
  <2>3. /\ req'[p].vault = Copy => req'[p].op = "clone"
        /\ req'[q].vault = Copy => req'[q].op = "clone"
      BY <1>3 DEF Placed
  <2>4. CASE p # r /\ q # r
      BY <1>1, <2>1, <2>2, <2>4
  <2>5. CASE p = r \/ q = r
      BY <1>1, <2>1, <2>2, <2>3, <2>5
  <2> QED
      BY <2>4, <2>5
<1>5. \A v \in Vault : Buried(v)'
  <2> SUFFICES ASSUME NEW v \in Vault, v # mine
               PROVE  Buried(v)'
      OBVIOUS
  <2> QED
      BY DEF Elsewhere, Final, Buried, Admits
<1>6. ASSUME NEW q \in Slot, q # r
      PROVE  Relies(q)'
  <2> DEFINE v == req[q].vault
  <2>1. Relies(q) /\ req'[q] = req[q] /\ v \in Vault /\ Copy \in Vault
      BY <1>1, <1>2, <1>6 DEF Final, Vault
  <2>2. ASSUME redis.meta'[v] = redis.meta[v], durable'[v] = durable[v],
               v \in doomed' <=> v \in doomed, Copy \in doomed' <=> Copy \in doomed
        PROVE  Relies(q)'
      BY <2>1, <2>2 DEF Relies, Admits
  <2>3. CASE Still
      BY <2>2, <2>3 DEF Still
  <2>4. CASE ~ Still /\ v # mine /\ Copy # mine
      BY <2>1, <2>2, <2>4 DEF Elsewhere
  <2>5. CASE ~ Still /\ Copy = mine
    <3>1. req[q].op # "clone" /\ v # Copy
        BY <1>6, <2>5 DEF Final, Placed, OneInCharge
    <3>2. redis.meta'[v] = redis.meta[v] /\ durable'[v] = durable[v]
          /\ (v \in doomed' <=> v \in doomed)
        BY <2>1, <2>5, <3>1 DEF Elsewhere
    <3> QED
        BY <2>1, <3>1, <3>2 DEF Relies, Admits
  <2>6. CASE ~ Still /\ v = mine /\ Copy # mine
    <3>1. ~ InCharge(q)
        BY <1>6, <2>6 DEF Final, OneInCharge
    <3>2. Copy \in doomed' <=> Copy \in doomed
        BY <2>1, <2>6 DEF Elsewhere
    <3>3. req[q].at \notin Opening /\ req[q].at \notin Ending /\ req[q].at # "mirror"
        BY <3>1 DEF InCharge, Changing, Opening, Ending
    <3>4. req[q].at # "markDurable" /\ req[q].at # "purge"
        BY <3>3 DEF Opening, Ending
    <3> QED
        BY <2>1, <2>6, <3>2, <3>3, <3>4 DEF Relies
  <2> QED
      BY <2>3, <2>4, <2>5, <2>6
<1> QED
    BY <1>3, <1>4, <1>5, <1>6 DEF Final

\* A request that changes no vault, and is in charge of nothing new.
LEMMA Harmless ==
    ASSUME Shaped, Final, NEW r \in Slot, Moves(r), Still,
           InCharge(r)' =>
              \/ InCharge(r) /\ req'[r].vault = req[r].vault
              \/ req'[r].vault = Copy
              \/ \A q \in Slot : q # r /\ req[q].vault = req'[r].vault => ~ InCharge(q),
           req'[r].op = "clone" =>
              req[r].op = "clone" \/ \A q \in Slot : req[q].op # "clone",
           Placed(r)', Relies(r)'
    PROVE  Final'
<1>1. PICK mine : mine = req[r].vault
    OBVIOUS
<1>2. Buried(mine)'
  <2>1. mine \in Vault
      BY <1>1 DEF Shaped, ReqShape
  <2>2. Buried(mine)
      BY <2>1 DEF Final
  <2> QED
      BY <2>2 DEF Buried, Still, Admits
<1>3. Elsewhere(mine)
    BY DEF Elsewhere, Still
<1> QED
    BY <1>1, <1>2, <1>3, OneStep

\* A request that is answered relies on nothing.
LEMMA FreeIsPlaced ==
    ASSUME NEW r \in Slot, req'[r] = Free
    PROVE  Placed(r)' /\ Relies(r)' /\ ~ InCharge(r)' /\ req'[r].op # "clone"
    BY TwoVaults
    DEF Placed, Relies, InCharge, Free, Building, Opening, Ending, Changing

LEMMA AnsweredOnly ==
    ASSUME Shaped, Final, NEW r \in Slot, Ends(r), Still
    PROVE  Final'
    BY FreeIsPlaced, Harmless DEF Ends

LEMMA AloneInCharge ==
    ASSUME Shaped, Final, ~ Interleaved, NEW r \in Slot, Alone(r)
    PROVE  \A q \in Slot : q # r /\ req[q].vault = req[r].vault => ~ InCharge(q)
<1> SUFFICES ASSUME NEW q \in Slot, q # r, req[q].vault = req[r].vault
             PROVE  ~ InCharge(q)
    OBVIOUS
<1>1. req[q].at \notin Changing
    BY DEF Alone
<1>2. req[q].at \in Building => req[q].op = "clone" /\ req[r].op = "clone"
    BY DEF Final, Placed
<1> QED
    BY <1>1, <1>2 DEF InCharge, Final, OneInCharge

LEMMA StartFinal ==
    ASSUME Shaped, Final, NEW r \in Slot, Start(r)
    PROVE  Final'
<1>1. Moves(r) /\ Still
    BY StartDoes DEF Kept, Still, history
<1>2. ~ InCharge(r)' /\ Placed(r)'
    BY StartDoes, TwoVaults
    DEF InCharge, Placed, Changing, Building, Guarded
<1>3. Relies(r)'
    BY StartDoes, TwoVaults
    DEF Relies, Opening, Ending, NoCopyYet, Guarded, Kept, history
<1>4. req'[r].op = "clone" => \A q \in Slot : req[q].op # "clone"
    BY StartDoes DEF NoCopyYet, Guarded
<1> QED
    BY <1>1, <1>2, <1>3, <1>4, Harmless

\* A request that goes on between two steps at which it is in charge of nothing.
LEMMA QuietStep ==
    ASSUME Shaped, Final, NEW r \in Slot, Still, NEW step, GoesOn(r, step),
           req'[r].vault = req[r].vault,
           step \notin Changing \cup Building,
           step \in {"findClone", "copy", "copied"} => req[r].op = "clone",
           step \in {"exists", "consult"} => req[r].op \in Guarded \cup {"clone"},
           step = "authenticate" => req[r].op \in Guarded,
           step # "free", req[r].at \notin Ending
    PROVE  Final'
<1>1. Moves(r) /\ ~ InCharge(r)'
    BY DEF GoesOn, InCharge
<1>p. Placed(r) /\ Relies(r)
    BY DEF Final
<1>s. /\ step \notin Opening \cup Ending \cup Building \cup {"mirror", "upsert"}
      /\ step \notin {"restore", "reindex", "markDurable", "purge"}
      /\ step \notin {"createMeta", "createIndex", "chunk", "delete", "markDurable"}
    BY DEF Changing, Building, Opening, Ending
<1>2. Placed(r)'
    BY <1>p, <1>s DEF GoesOn, Placed
<1>3. Relies(r)'
    BY <1>p, <1>s DEF GoesOn, Relies, Still
<1> QED
    BY <1>1, <1>2, <1>3, Harmless DEF GoesOn

LEMMA KnowsFinal ==
    ASSUME Shaped, Final, NEW r \in Slot, KnowsOn(r), Still,
           req[r].at \in {"exists", "reindex"}
    PROVE  Final'
<1>1. req[r].op \in Guarded \cup {"clone"}
    BY DEF Final, Placed
<1>2. "clone" \notin Guarded
    BY DEF Guarded
<1>3. req'[r].vault = req[r].vault /\ req[r].at \notin Ending
    BY DEF KnowsOn, Carries, Ending
<1>4. ASSUME NEW step \in {"copy", "exists", "authenticate"}, GoesOn(r, step),
             step = "copy" <=> req[r].op = "clone"
      PROVE  Final'
  <2>1. step \notin Changing \cup Building
      BY DEF Changing, Building
  <2> QED
      BY <1>1, <1>2, <1>3, <1>4, <2>1, QuietStep
<1> QED
    BY <1>4 DEF KnowsOn

LEMMA ExistenceFinal ==
    ASSUME Shaped, Final, ~ Interleaved, NEW r \in Slot, Existence(r)
    PROVE  Final'
<1>p. Placed(r) /\ Relies(r) /\ req[r].vault \in Vault
    BY DEF Final, Shaped, ReqShape
<1>b. \A v \in Vault : Buried(v)
    BY DEF Final
<1>1. CASE LookUp(r)
  <2>1. Still /\ req[r].at = "exists"
      BY <1>1, LookUpDoes DEF Kept, Still, history
  <2>2. CASE Ends(r)
      BY <2>1, <2>2, AnsweredOnly
  <2>3. CASE KnowsOn(r)
      BY <2>1, <2>3, KnowsFinal
  <2>4. CASE GoesOn(r, "consult") /\ Carries(r)
    <3>1. req[r].op \in Guarded \cup {"clone"} /\ req[r].at \notin Ending
        BY <1>p, <2>1 DEF Placed, Ending
    <3>2. "consult" \notin Changing \cup Building
        BY DEF Changing, Building
    <3> QED
        BY <2>1, <2>4, <3>1, <3>2, QuietStep DEF Carries
  <2> QED
      BY <1>1, <2>2, <2>3, <2>4, LookUpDoes
<1>2. CASE Consult(r)
  <2>1. Still /\ req[r].at = "consult"
      BY <1>2, ConsultDoes DEF Kept, Still, history
  <2>2. CASE Ends(r)
      BY <2>1, <2>2, AnsweredOnly
  <2>3. CASE /\ GoesOn(r, "restore") /\ req'[r].vault = req[r].vault
             /\ Admits(durable[req[r].vault])
    <3>1. req[r].vault \notin doomed
        BY <1>b, <1>p, <2>3 DEF Buried
    <3>2. Placed(r)'
        BY <1>p, <2>1, <2>3 DEF Placed, GoesOn, Building
    <3>3. Relies(r)'
        BY <1>p, <2>1, <2>3, <3>1 DEF Relies, GoesOn, Opening, Ending, Still
    <3>4. \A q \in Slot : q # r /\ req[q].vault = req[r].vault => ~ InCharge(q)
        BY <1>2, ConsultDoes, AloneInCharge
    <3> QED
        BY <2>1, <2>3, <3>2, <3>3, <3>4, Harmless DEF GoesOn
  <2> QED
      BY <1>2, <2>2, <2>3, ConsultDoes
<1>3. CASE Restore(r)
  <2>1. /\ req[r].at = "restore" /\ GoesOn(r, "reindex") /\ req'[r].vault = req[r].vault
        /\ durable' = durable /\ doomed' = doomed
      BY <1>3, RestoreDoes DEF Carries, history
  <2>2. req[r].vault \notin doomed /\ InCharge(r)
      BY <1>p, <2>1 DEF Relies, Opening, InCharge, Changing
  <2>3. PICK v \in Vault : v = req[r].vault
      BY <1>p
  <2>4. Elsewhere(v)
      BY <1>3, <2>1, <2>3, RestoreDoes DEF Elsewhere, Rewritten, Shaped, RedisShape
  <2>5. Buried(v)'
      BY <1>b, <2>1, <2>2, <2>3 DEF Buried
  <2>6. Placed(r)'
      BY <1>p, <2>1 DEF Placed, GoesOn, Building
  <2>7. Relies(r)'
      BY <1>p, <2>1, <2>2 DEF Relies, GoesOn, Opening, Ending
  <2> QED
      BY <2>1, <2>2, <2>3, <2>4, <2>5, <2>6, <2>7, OneStep DEF GoesOn
<1>4. CASE Reindex(r)
  <2>1. Still /\ req[r].at = "reindex" /\ KnowsOn(r)
      BY <1>4, ReindexDoes DEF Still, history
  <2> QED
      BY <2>1, KnowsFinal
<1>5. CASE Authenticate(r)
  <2>1. req[r].op \in Guarded /\ req[r].op # "clone"
      BY <1>p, <1>5 DEF Placed, Authenticate, At, Guarded
  <2>2. Still /\ req[r].at = "authenticate"
      BY <1>5, <2>1, AuthenticateDoes DEF Kept, Still, history
  <2>3. CASE Ends(r)
      BY <2>2, <2>3, AnsweredOnly
  <2>4. CASE GoesOn(r, req[r].op) /\ Carries(r) /\ Admits(redis.meta[req[r].vault])
    <3>1. req'[r].at = req[r].op /\ req'[r].op = req[r].op /\ req'[r].vault = req[r].vault
        BY <2>4 DEF GoesOn, Carries
    <3>2. req[r].vault \notin doomed /\ req[r].vault # Copy
        BY <1>b, <1>p, <2>1, <2>4 DEF Buried, Placed
    <3>3. Placed(r)'
        BY <1>p, <2>1, <3>1, <3>2 DEF Placed, Building, Guarded
    <3>4. Relies(r)'
        BY <1>p, <2>1, <2>2, <3>1, <3>2 DEF Relies, Opening, Ending, Guarded, Still
    <3>5. InCharge(r)' => req[r].op \in {"rotate", "delete"}
        BY <2>1, <3>1 DEF InCharge, Changing, Building, Guarded
    <3>6. InCharge(r)' =>
            \A q \in Slot : q # r /\ req[q].vault = req[r].vault => ~ InCharge(q)
        BY <1>5, <2>1, <3>5, AuthenticateDoes, AloneInCharge
    <3> QED
        BY <2>1, <2>2, <2>4, <3>1, <3>3, <3>4, <3>6, Harmless DEF GoesOn
  <2> QED
      BY <1>5, <2>1, <2>3, <2>4, AuthenticateDoes
<1> QED
    BY <1>1, <1>2, <1>3, <1>4, <1>5 DEF Existence

LEMMA DeletionFinal ==
    ASSUME Shaped, Final, NEW r \in Slot, Deletion(r)
    PROVE  Final'
<1>p. Placed(r) /\ Relies(r)
    BY DEF Final
<1>v. PICK v \in Vault : v = req[r].vault
    BY DEF Shaped, ReqShape
<1>b. Buried(v) /\ redis.meta[v] \in MetaShape /\ durable[v] \in MetaShape
    BY DEF Final, Shaped, RedisShape
<1>f. /\ redis.meta \in [Vault -> MetaShape] /\ durable \in [Vault -> MetaShape]
      /\ doomed \subseteq Vault
    BY DEF Shaped, RedisShape
<1>n. NoMeta \in MetaShape /\ NoMeta.token = NoToken
    BY FreeShaped DEF NoMeta
<1>1. CASE Mark(r)
  <2>1. /\ req[r].at = "delete" /\ GoesOn(r, "markDurable") /\ req'[r].vault = v
        /\ redis.meta' = [redis.meta EXCEPT ![v] = [token |-> redis.meta[v].token, deleting |-> TRUE]]
        /\ durable' = durable /\ doomed' = doomed
      BY <1>1, <1>v, MarkDoes DEF Carries, Rewritten, history
  <2>2. v \notin doomed /\ InCharge(r)
      BY <1>p, <1>v, <2>1 DEF Relies, Opening, InCharge, Changing
  <2>3. Elsewhere(v) /\ Buried(v)'
      BY <1>b, <1>f, <2>1, <2>2 DEF Elsewhere, Buried
  <2>4. Placed(r)'
      BY <1>p, <1>v, <2>1 DEF Placed, GoesOn, Building
  <2>5. ~ Admits(redis.meta'[v])
      BY <1>f, <2>1 DEF Admits
  <2>6. Relies(r)'
      BY <1>p, <1>v, <2>1, <2>2, <2>5 DEF Relies, GoesOn, Opening, Ending, Admits
  <2> QED
      BY <1>v, <2>1, <2>2, <2>3, <2>4, <2>6, OneStep DEF GoesOn
<1>2. CASE MarkDurable(r)
  <2>1. req[r].at = "markDurable" /\ req'[r].vault = v /\ redis' = redis
      BY <1>2, <1>v, MarkDurableDoes DEF Carries
  <2>2. CASE GoesOn(r, "unmark") /\ UNCHANGED <<durable, doomed>>
    <3>1. Placed(r)'
        BY <1>p, <1>v, <2>1, <2>2 DEF Placed, GoesOn, Building
    <3>2. Relies(r)'
        BY <1>p, <1>v, <2>1, <2>2 DEF Relies, GoesOn, Opening, Ending
    <3>3. Still /\ InCharge(r)
        BY <2>1, <2>2 DEF Still, InCharge, Changing
    <3> QED
        BY <1>v, <2>1, <2>2, <3>1, <3>2, <3>3, Harmless DEF GoesOn
  <2>3. CASE /\ GoesOn(r, "unindex") /\ doomed' = doomed \cup {v}
             /\ durable' = [durable EXCEPT ![v] =
                   [token |-> durable[v].token,
                    deleting |-> durable[v].deleting \/ durable[v].token # NoToken]]
    <3>1. durable[v].token # NoToken
      <4>1. v \notin doomed /\ (v = Copy => durable[v].token # NoToken)
          BY <1>p, <1>v, <2>1 DEF Relies, Opening
      <4> QED
          BY <1>b, <4>1 DEF Buried, Vault
    <3>2. durable'[v].deleting /\ ~ Admits(durable'[v]) /\ ~ Admits(redis.meta[v])
        BY <1>f, <1>p, <1>v, <2>1, <2>3, <3>1 DEF Admits, Relies
    <3>3. Elsewhere(v)
        BY <1>f, <2>1, <2>3 DEF Elsewhere
    <3>4. Buried(v)'
        BY <2>1, <2>3, <3>2 DEF Buried, Admits
    <3>5. Placed(r)'
        BY <1>p, <1>v, <2>1, <2>3 DEF Placed, GoesOn, Building
    <3>6. Relies(r)'
        BY <2>1, <2>3 DEF Relies, GoesOn, Opening, Ending
    <3>7. InCharge(r)
        BY <2>1 DEF InCharge, Changing
    <3> QED
        BY <1>v, <2>1, <2>3, <3>3, <3>4, <3>5, <3>6, <3>7, OneStep DEF GoesOn
  <2> QED
      BY <1>2, <1>v, <2>2, <2>3, MarkDurableDoes
<1>3. CASE Unmark(r)
  <2>1. /\ req[r].at = "unmark" /\ Ends(r)
        /\ redis.meta' = [redis.meta EXCEPT ![v] = [token |-> redis.meta[v].token, deleting |-> FALSE]]
        /\ durable' = durable /\ doomed' = doomed
      BY <1>3, <1>v, UnmarkDoes DEF Rewritten, history
  <2>2. v \notin doomed /\ InCharge(r)
      BY <1>p, <1>v, <2>1 DEF Relies, Opening, InCharge, Changing
  <2>3. Elsewhere(v) /\ Buried(v)'
      BY <1>b, <1>f, <2>1, <2>2 DEF Elsewhere, Buried
  <2> QED
      BY <1>v, <2>1, <2>2, <2>3, FreeIsPlaced, OneStep DEF Ends
<1>4. CASE Unindex(r)
  <2>1. /\ req[r].at = "unindex" /\ GoesOn(r, "unlink") /\ req'[r].vault = v /\ Still
      BY <1>4, <1>v, UnindexDoes DEF Carries, Still, history
  <2>2. Placed(r)'
      BY <1>p, <1>v, <2>1 DEF Placed, GoesOn, Building
  <2>3. Relies(r)'
      BY <1>p, <1>v, <2>1 DEF Relies, GoesOn, Opening, Ending, Still
  <2>4. InCharge(r)
      BY <2>1 DEF InCharge, Changing
  <2> QED
      BY <1>v, <2>1, <2>2, <2>3, <2>4, Harmless DEF GoesOn
<1>5. CASE Unlink(r)
  <2>1. /\ req[r].at = "unlink" /\ GoesOn(r, "purge") /\ req'[r].vault = v
        /\ redis.meta' = [redis.meta EXCEPT ![v] = NoMeta]
        /\ durable' = durable /\ doomed' = doomed
      BY <1>5, <1>v, UnlinkDoes DEF Carries, history
  <2>2. v \in doomed /\ InCharge(r)
      BY <1>p, <1>v, <2>1 DEF Relies, Ending, InCharge, Changing
  <2>3. redis.meta'[v] = NoMeta /\ redis.meta'[v].token = NoToken
      BY <1>f, <1>n, <2>1
  <2>4. Elsewhere(v)
      BY <1>f, <2>1 DEF Elsewhere
  <2>5. Buried(v)'
      BY <1>b, <2>1, <2>2, <2>3 DEF Buried, Admits
  <2>6. Placed(r)'
      BY <1>p, <1>v, <2>1 DEF Placed, GoesOn, Building
  <2>7. Relies(r)'
      BY <2>1, <2>2, <2>3 DEF Relies, GoesOn, Opening, Ending
  <2> QED
      BY <1>v, <2>1, <2>2, <2>4, <2>5, <2>6, <2>7, OneStep DEF GoesOn
<1>6. CASE Purge(r)
  <2>1. req[r].at = "purge" /\ Ends(r) /\ redis' = redis /\ doomed' = doomed
      BY <1>6, PurgeDoes DEF history
  <2>2. v \in doomed /\ InCharge(r) /\ redis.meta[v].token = NoToken
      BY <1>p, <1>v, <2>1 DEF Relies, Ending, InCharge, Changing
  <2>3. CASE durable' = durable
      BY <2>1, <2>3, AnsweredOnly DEF Still
  <2>4. CASE durable' = [durable EXCEPT ![v] = NoMeta]
    <3>1. durable'[v].token = NoToken
        BY <1>f, <1>n, <2>4
    <3>2. Elsewhere(v)
        BY <1>f, <2>1, <2>4 DEF Elsewhere
    <3>3. Buried(v)'
        BY <1>b, <2>1, <2>2, <3>1 DEF Buried, Admits
    <3> QED
        BY <1>v, <2>1, <2>2, <3>2, <3>3, FreeIsPlaced, OneStep DEF Ends
  <2> QED
      BY <1>6, <1>v, <2>3, <2>4, PurgeDoes
<1> QED
    BY <1>1, <1>2, <1>3, <1>4, <1>5, <1>6 DEF Deletion

LEMMA RotationFinal ==
    ASSUME Shaped, Final, NEW r \in Slot, Rotation(r)
    PROVE  Final'
<1>p. Placed(r) /\ Relies(r)
    BY DEF Final
<1>v. PICK v \in Vault : v = req[r].vault
    BY DEF Shaped, ReqShape
<1>b. Buried(v) /\ redis.meta[v] \in MetaShape /\ durable[v] \in MetaShape
    BY DEF Final, Shaped, RedisShape
<1>f. /\ redis.meta \in [Vault -> MetaShape] /\ durable \in [Vault -> MetaShape]
      /\ req[r].token # NoToken => [token |-> req[r].token, deleting |-> durable[v].deleting].token # NoToken
    BY DEF Shaped, RedisShape
<1>c. req[r].at \in {"rotate", "setToken", "upsert", "revert"}
    BY ReadMetaDoes, SetTokenDoes, UpsertDoes, RevertDoes DEF Rotation
<1>d. v \notin doomed /\ InCharge(r)
    BY <1>c, <1>p, <1>v DEF Relies, Opening, InCharge, Changing
\* The request goes on to the next step of the rotation, or is answered.
<1>g. ASSUME NEW step \in {"setToken", "upsert", "revert"}, GoesOn(r, step),
             req'[r].vault = v, step = "upsert" => req'[r].token # NoToken,
             doomed' = doomed
      PROVE  Placed(r)' /\ Relies(r)'
  <2>1. Placed(r)'
      BY <1>p, <1>v, <1>g DEF Placed, GoesOn, Building
  <2>2. Relies(r)'
      BY <1>p, <1>c, <1>d, <1>g DEF Relies, GoesOn, Opening, Ending
  <2> QED
      BY <2>1, <2>2
<1>1. CASE ReadMeta(r)
  <2>1. GoesOn(r, "setToken") /\ req'[r].vault = v /\ Still
      BY <1>1, <1>v, ReadMetaDoes DEF Kept, Still, history
  <2>2. Placed(r)' /\ Relies(r)'
      BY <1>g, <2>1 DEF Still
  <2> QED
      BY <1>d, <1>v, <2>1, <2>2, Harmless DEF GoesOn
<1>2. CASE SetToken(r)
  <2>1. /\ GoesOn(r, "upsert") /\ req'[r].vault = v /\ req'[r].token # NoToken
        /\ durable' = durable /\ doomed' = doomed
        /\ redis.meta' = [redis.meta EXCEPT ![v] =
              [token |-> minted + 1, deleting |-> redis.meta[v].deleting]]
      BY <1>2, <1>v, SetTokenDoes DEF Rewritten, history, NoToken
  <2>2. Placed(r)' /\ Relies(r)'
      BY <1>g, <2>1
  <2>3. Elsewhere(v) /\ Buried(v)'
      BY <1>b, <1>d, <1>f, <2>1 DEF Elsewhere, Buried
  <2> QED
      BY <1>d, <1>v, <2>1, <2>2, <2>3, OneStep DEF GoesOn
<1>3. CASE Upsert(r)
  <2>1. req[r].at = "upsert" /\ redis' = redis /\ doomed' = doomed
      BY <1>3, UpsertDoes DEF history
  <2>2. CASE durable' = durable /\ GoesOn(r, "revert") /\ Carries(r)
    <3>1. Placed(r)' /\ Relies(r)' /\ req'[r].vault = v
        BY <1>g, <1>v, <2>1, <2>2 DEF Carries
    <3> QED
        BY <1>d, <1>v, <2>1, <2>2, <3>1, Harmless DEF GoesOn, Still
  <2>3. CASE NodeGets(v, req[r].token) /\ Ends(r)
    <3>1. durable'[v].token # NoToken
        BY <1>f, <1>p, <2>1, <2>3 DEF NodeGets, Placed
    <3>2. Elsewhere(v) /\ Buried(v)'
        BY <1>b, <1>d, <1>f, <2>1, <2>3, <3>1 DEF Elsewhere, Buried, NodeGets
    <3> QED
        BY <1>d, <1>v, <2>3, <3>2, FreeIsPlaced, OneStep DEF Ends
  <2> QED
      BY <1>3, <1>v, <2>2, <2>3, UpsertDoes
<1>4. CASE Revert(r)
  <2>1. Ends(r) /\ durable' = durable /\ doomed' = doomed
      BY <1>4, RevertDoes DEF history
  <2>2. CASE redis' = redis
      BY <2>1, <2>2, AnsweredOnly DEF Still
  <2>3. ASSUME NEW d, redis.meta' = [redis.meta EXCEPT ![v] = d]
        PROVE  Final'
    <3>1. Elsewhere(v) /\ Buried(v)'
        BY <1>b, <1>d, <1>f, <2>1, <2>3 DEF Elsewhere, Buried
    <3> QED
        BY <1>d, <1>v, <2>1, <3>1, FreeIsPlaced, OneStep DEF Ends
  <2> QED
      BY <1>4, <1>v, <2>2, <2>3, RevertDoes DEF Rewritten
<1> QED
    BY <1>1, <1>2, <1>3, <1>4 DEF Rotation

LEMMA MirroringFinal ==
    ASSUME Shaped, Final, ~ Interleaved, NEW r \in Slot, Mirroring(r)
    PROVE  Final'
<1>p. Placed(r) /\ Relies(r)
    BY DEF Final
<1>v. PICK v \in Vault : v = req[r].vault
    BY DEF Shaped, ReqShape
<1>b. Buried(v) /\ redis.meta[v] \in MetaShape /\ durable[v] \in MetaShape
    BY DEF Final, Shaped, RedisShape
<1>f. durable \in [Vault -> MetaShape]
    BY DEF Shaped
<1>1. CASE ReadForMirror(r)
  <2>1. req[r].at = "readForMirror" /\ Still
      BY <1>1, ReadForMirrorDoes DEF Kept, Still, history
  <2>2. CASE Ends(r)
      BY <2>1, <2>2, AnsweredOnly
  <2>3. CASE /\ GoesOn(r, "mirror") /\ req'[r].vault = v
             /\ req'[r].held = redis.meta[v] /\ redis.meta[v].token # NoToken
    <3>1. Placed(r)'
        BY <1>p, <1>v, <2>1, <2>3 DEF Placed, GoesOn, Building
    <3>2. Relies(r)'
        BY <1>b, <1>p, <2>1, <2>3 DEF Relies, GoesOn, Opening, Ending, Still, Buried
    <3>3. \A q \in Slot : q # r /\ req[q].vault = req[r].vault => ~ InCharge(q)
        BY <1>1, ReadForMirrorDoes, AloneInCharge
    <3> QED
        BY <1>v, <2>1, <2>3, <3>1, <3>2, <3>3, Harmless DEF GoesOn
  <2> QED
      BY <1>1, <1>v, <2>2, <2>3, ReadForMirrorDoes
<1>2. CASE MirrorMeta(r)
  <2>1. req[r].at = "mirror" /\ Ends(r) /\ redis' = redis /\ doomed' = doomed
      BY <1>2, MirrorMetaDoes DEF history
  <2>2. CASE durable' = durable
      BY <2>1, <2>2, AnsweredOnly DEF Still
  <2>3. CASE NodeGets(v, req[r].held.token)
    <3>1. req[r].held.token # NoToken /\ (v \in doomed => durable[v].deleting)
        BY <1>p, <1>v, <2>1 DEF Relies
    <3>2. durable'[v].token # NoToken /\ durable'[v].deleting = durable[v].deleting
        BY <1>f, <2>3, <3>1 DEF NodeGets
    <3>3. Elsewhere(v)
        BY <1>f, <2>1, <2>3 DEF Elsewhere, NodeGets
    <3>4. Buried(v)'
        BY <1>b, <2>1, <3>1, <3>2 DEF Buried, Admits
    <3>5. InCharge(r)
        BY <2>1 DEF InCharge, Changing
    <3> QED
        BY <1>v, <2>1, <3>3, <3>4, <3>5, FreeIsPlaced, OneStep DEF Ends
  <2> QED
      BY <1>2, <1>v, <2>2, <2>3, MirrorMetaDoes
<1> QED
    BY <1>1, <1>2 DEF Mirroring

LEMMA CredentialsFinal ==
    ASSUME Shaped, Final, NEW r \in Slot, Credentials(r) \/ Codes(r)
    PROVE  Final'
<1>1. Still /\ req[r].at \notin Ending
    BY IssuePairDoes, FindPairDoes, RedeemDoes, ReadGenerationDoes, SetTicketDoes,
       NameCodeDoes, ListCodeDoes, UnlistDoes, UnnameDoes
    DEF Credentials, Codes, Kept, Aside, Still, history, Ending
<1>2. \/ Ends(r)
      \/ /\ req'[r].vault = req[r].vault
         /\ \E step \in {"redeem", "setTicket", "list", "unname"} : GoesOn(r, step)
    BY IssuePairDoes, FindPairDoes, RedeemDoes, ReadGenerationDoes, SetTicketDoes,
       NameCodeDoes, ListCodeDoes, UnlistDoes, UnnameDoes
    DEF Credentials, Codes, Carries
<1>3. ASSUME NEW step \in {"redeem", "setTicket", "list", "unname"}, GoesOn(r, step),
             req'[r].vault = req[r].vault
      PROVE  Final'
  <2>1. step \notin Changing \cup Building
      BY DEF Changing, Building
  <2> QED
      BY <1>1, <1>3, <2>1, QuietStep
<1> QED
    BY <1>1, <1>2, <1>3, AnsweredOnly

LEMMA CloningFinal ==
    ASSUME Shaped, Final, NEW r \in Slot, Cloning(r)
    PROVE  Final'
<1>p. Placed(r) /\ Relies(r)
    BY DEF Final
<1>f. /\ redis.meta \in [Vault -> MetaShape] /\ durable \in [Vault -> MetaShape]
      /\ Buried(Copy) /\ Copy \in Vault
    BY DEF Shaped, RedisShape, Final, Vault
\* While it makes a copy, the request is the only one on it.
<1>c. ASSUME req[r].at \in Building
      PROVE  /\ req[r].vault = Copy /\ req[r].op = "clone" /\ Copy \notin doomed /\ InCharge(r)
             /\ req[r].at \notin Ending
    BY <1>p, <1>c DEF Placed, Relies, Building, Ending, InCharge
<1>g. ASSUME req[r].at \in Building, Copy \notin doomed', req'[r].vault = Copy,
             NEW step \in {"createMeta", "createIndex", "uncreate", "chunk", "delete"},
             GoesOn(r, step), step # "uncreate" => durable'[Copy].token # NoToken
      PROVE  Placed(r)' /\ Relies(r)'
  <2>1. Placed(r)'
      BY <1>c, <1>g DEF Placed, GoesOn, Building
  <2>2. Relies(r)'
      BY <1>c, <1>g DEF Relies, GoesOn, Opening, Ending
  <2> QED
      BY <2>1, <2>2
<1>1. CASE FindClone(r)
  <2>1. req[r].at = "findClone" /\ Still
      BY <1>1, FindCloneDoes DEF Kept, Still, history
  <2>2. CASE Ends(r)
      BY <2>1, <2>2, AnsweredOnly
  <2>3. CASE GoesOn(r, "exists") /\ Carries(r)
    <3>1. req[r].op = "clone" /\ req[r].at \notin Ending /\ req'[r].vault = req[r].vault
        BY <1>p, <2>1, <2>3 DEF Placed, Ending, Carries
    <3>2. "exists" \notin Changing \cup Building
        BY DEF Changing, Building
    <3> QED
        BY <2>1, <2>3, <3>1, <3>2, QuietStep
  <2> QED
      BY <1>1, <2>2, <2>3, FindCloneDoes
<1>2. CASE ReadSource(r)
  <2>1. req[r].at = "copy" /\ Still /\ GoesOn(r, "createDurable") /\ req'[r].vault = Copy
      BY <1>2, ReadSourceDoes DEF Kept, Still, history
  <2>2. req[r].op = "clone" /\ Copy \notin doomed
      BY <1>p, <2>1 DEF Placed, Relies, Ending
  <2>3. Placed(r)'
      BY <2>1, <2>2 DEF Placed, GoesOn
  <2>4. Relies(r)'
      BY <2>1, <2>2 DEF Relies, GoesOn, Opening, Ending, Still
  <2> QED
      BY <2>1, <2>2, <2>3, <2>4, Harmless DEF GoesOn
<1>3. CASE CreateDurable(r)
  <2>1. req[r].at = "createDurable" /\ redis' = redis /\ doomed' = doomed
      BY <1>3, CreateDurableDoes DEF history
  <2>2. CASE Ends(r) /\ durable' = durable
      BY <2>1, <2>2, AnsweredOnly DEF Still
  <2>3. CASE /\ GoesOn(r, "createMeta") /\ req'[r].vault = req[r].vault
             /\ minted + 1 \in Nat \ {0} /\ NodeGets(req[r].vault, minted + 1)
    <3>1. /\ req[r].vault = Copy /\ Copy \notin doomed /\ InCharge(r)
          /\ req[r].at \in Building /\ req[r].op = "clone"
        BY <1>c, <2>1 DEF Building
    <3>2. durable'[Copy].token # NoToken
        BY <1>f, <2>3, <3>1 DEF NodeGets, NoToken
    <3>3. Elsewhere(Copy) /\ Buried(Copy)'
        BY <1>f, <2>1, <2>3, <3>1, <3>2 DEF Elsewhere, Buried, NodeGets
    <3>4. Placed(r)' /\ Relies(r)'
        BY <1>g, <2>1, <2>3, <3>1, <3>2
    <3> QED
        BY <1>f, <2>3, <3>1, <3>3, <3>4, OneStep DEF GoesOn
  <2> QED
      BY <1>3, <2>2, <2>3, CreateDurableDoes
<1>4. CASE CreateMeta(r)
  <2>1. req[r].at = "createMeta" /\ durable' = durable /\ doomed' = doomed
        /\ req'[r].vault = req[r].vault
      BY <1>4, CreateMetaDoes DEF Carries, history
  <2>2. /\ req[r].vault = Copy /\ Copy \notin doomed /\ InCharge(r)
        /\ req[r].at \in Building /\ req[r].op = "clone"
      BY <1>c, <2>1 DEF Building
  <2>3. durable[Copy].token # NoToken
      BY <1>p, <2>1, <2>2 DEF Relies
  <2>4. CASE GoesOn(r, "uncreate") /\ redis' = redis
    <3>1. Placed(r)' /\ Relies(r)'
        BY <1>g, <2>1, <2>2, <2>4
    <3> QED
        BY <2>1, <2>2, <2>4, <3>1, Harmless DEF GoesOn, Still
  <2>5. ASSUME GoesOn(r, "createIndex"), NEW d, redis.meta' = [redis.meta EXCEPT ![Copy] = d]
        PROVE  Final'
    <3>1. Placed(r)' /\ Relies(r)'
        BY <1>g, <2>1, <2>2, <2>3, <2>5
    <3>2. Elsewhere(Copy) /\ Buried(Copy)'
        BY <1>f, <2>1, <2>2, <2>5 DEF Elsewhere, Buried
    <3> QED
        BY <1>f, <2>1, <2>2, <2>5, <3>1, <3>2, OneStep DEF GoesOn
  <2> QED
      BY <1>4, <2>4, <2>5, CreateMetaDoes DEF Rewritten
<1>5. CASE CreateIndex(r)
  <2>1. req[r].at = "createIndex" /\ Still /\ req'[r].vault = req[r].vault
        /\ (GoesOn(r, "uncreate") \/ GoesOn(r, "chunk"))
      BY <1>5, CreateIndexDoes DEF Carries, Still, history
  <2>2. /\ req[r].vault = Copy /\ Copy \notin doomed /\ InCharge(r)
        /\ req[r].at \in Building /\ req[r].op = "clone"
      BY <1>c, <2>1 DEF Building
  <2>3. durable[Copy].token # NoToken
      BY <1>p, <2>1, <2>2 DEF Relies
  <2>4. Placed(r)' /\ Relies(r)'
      BY <1>g, <2>1, <2>2, <2>3 DEF Still
  <2> QED
      BY <2>1, <2>2, <2>4, Harmless DEF GoesOn
<1>6. CASE Uncreate(r)
  <2>1. /\ req[r].at = "uncreate" /\ Ends(r) /\ doomed' = doomed
        /\ durable' = [durable EXCEPT ![Copy] = NoMeta]
        /\ redis.meta' = redis.meta \/ redis.meta' = [redis.meta EXCEPT ![Copy] = NoMeta]
      BY <1>6, UncreateDoes DEF history
  <2>2. req[r].vault = Copy /\ Copy \notin doomed /\ InCharge(r)
      BY <1>c, <2>1 DEF Building
  <2>3. Elsewhere(Copy) /\ Buried(Copy)'
      BY <1>f, <2>1, <2>2, TwoVaults DEF Elsewhere, Buried
  <2> QED
      BY <1>f, <2>1, <2>2, <2>3, FreeIsPlaced, OneStep DEF Ends
<1>7. CASE CopyChunk(r)
  <2>1. /\ req[r].at = "chunk" /\ Still /\ req'[r].vault = req[r].vault
        /\ (GoesOn(r, "delete") \/ GoesOn(r, "chunk"))
      BY <1>7, CopyChunkDoes DEF Carries, Still, history
  <2>2. /\ req[r].vault = Copy /\ Copy \notin doomed /\ InCharge(r)
        /\ req[r].at \in Building /\ req[r].op = "clone"
      BY <1>c, <2>1 DEF Building
  <2>3. durable[Copy].token # NoToken
      BY <1>p, <2>1, <2>2 DEF Relies
  <2>4. Placed(r)' /\ Relies(r)'
      BY <1>g, <2>1, <2>2, <2>3 DEF Still
  <2> QED
      BY <2>1, <2>2, <2>4, Harmless DEF GoesOn
<1>8. CASE HandOver(r)
  <2>1. req[r].at = "chunk" /\ Still /\ GoesOn(r, "copied") /\ req'[r].vault = req[r].vault
      BY <1>8, HandOverDoes DEF Kept, Carries, Still, history
  <2>2. req[r].op = "clone" /\ req[r].at \notin Ending
      BY <1>c, <2>1 DEF Building
  <2>3. "copied" \notin Changing \cup Building
      BY DEF Changing, Building
  <2> QED
      BY <2>1, <2>2, <2>3, QuietStep
<1> QED
    BY <1>1, <1>2, <1>3, <1>4, <1>5, <1>6, <1>7, <1>8 DEF Cloning

LEMMA InitFinal == Init => Final
<1> SUFFICES ASSUME Init
             PROVE  Final
    OBVIOUS
<1>1. \A r \in Slot : req[r] = Free
    BY DEF Init
<1>2. doomed = {} /\ durable[Source].token # NoToken
    BY DEF Init, NoMeta, Vault, NoToken
<1>3. \A r \in Slot : Placed(r) /\ Relies(r) /\ ~ InCharge(r) /\ req[r].op # "clone"
    BY <1>1, <1>2, TwoVaults
    DEF Placed, Relies, InCharge, Free, Building, Opening, Ending, Changing
<1>4. \A v \in Vault : Buried(v)
    BY <1>2 DEF Buried
<1> QED
    BY <1>3, <1>4 DEF Final, OneInCharge

LEMMA StepFinal ==
    ASSUME Shaped, Final, ~ Interleaved, [Next]_vars
    PROVE  Final'
<1>1. CASE \E r \in Slot : Crash(r)
  <2>1. PICK r \in Slot : Crash(r)
      BY <1>1
  <2> QED
      BY <2>1, CrashDoes, AnsweredOnly DEF Still
<1>2. CASE UNCHANGED <<redis.meta, durable, req, doomed>>
    BY <1>2
    DEF Final, OneInCharge, Placed, Relies, Buried, InCharge, Admits
<1>3. CASE LoseRedis
  <2>1. /\ UNCHANGED <<durable, req, doomed>>
        /\ \A v \in Vault : redis.meta'[v].token = NoToken
      BY <1>3, LoseRedisDoes DEF NoMeta
  <2>2. \A r \in Slot : req[r].vault \in Vault
      BY DEF Shaped, ReqShape
  <2>3. \A r \in Slot : Relies(r)'
      BY <2>1, <2>2 DEF Final, Relies, Admits
  <2>4. \A v \in Vault : Buried(v)'
      BY <2>1 DEF Final, Buried, Admits
  <2> QED
      BY <2>1, <2>3, <2>4 DEF Final, OneInCharge, Placed, InCharge
<1>4. Expire \/ UNCHANGED vars => UNCHANGED <<redis.meta, durable, req, doomed>>
    BY ExpireDoes DEF vars, history
<1> QED
    BY <1>1, <1>2, <1>3, <1>4, StartFinal, ExistenceFinal, DeletionFinal, RotationFinal,
       MirroringFinal, CredentialsFinal, CloningFinal
    DEF Next

\* Whatever requests, restorations and faults surround it, a vault whose deletion is marked in
\* both stores lets nobody in again, for any number of requests at once and of copies
\* that fail, as long as no two requests change the metadata of one vault at a time.
THEOREM DeletionIsFinal ==
    ASSUME ~ Interleaved
    PROVE  Spec => []DeletionSticks
<1>1. Shaped /\ Final /\ [Next]_vars => Shaped' /\ Final'
    BY StepShaped, StepFinal
<1>2. Shaped /\ Final => DeletionSticks
    BY DEF Shaped, Final, Buried, DeletionSticks
<1> QED
    BY <1>1, <1>2, InitShaped, InitFinal, PTL DEF Spec

-----------------------------------------------------------------------------
(* A pair code is used once. *)

\* A code that still hands something out has never been given away.
Unused ==
    \A c \in PairCode :
        /\ redeemed[c] <= 1
        /\ redis.pairs[c] # NoToken => redeemed[c] = 0

LEMMA StepUnused ==
    ASSUME Shaped, Unused, [Next]_vars
    PROVE  Unused'
<1>t. redeemed \in [PairCode -> Nat] /\ redis.pairs \in [PairCode -> Nat]
    BY DEF Shaped, RedisShape
<1>1. CASE redeemed' = redeemed /\ redis.pairs' = redis.pairs
    BY <1>1 DEF Unused
<1>2. ASSUME NEW r \in Slot, IssuePair(r)
      PROVE  Unused'
  <2>1. /\ redeemed' = redeemed /\ redeemed[req[r].item] = 0
        /\ \A c \in PairCode : c # req[r].item => redis.pairs'[c] = redis.pairs[c]
      BY <1>2, IssuePairDoes
  <2> QED
      BY <2>1 DEF Unused
<1>3. ASSUME NEW r \in Slot, Redeem(r)
      PROVE  Unused'
  <2> DEFINE i == req[r].item
  <2>1. redis.pairs' = [redis.pairs EXCEPT ![i] = NoToken]
      BY <1>3, RedeemDoes
  <2>2. \/ redeemed' = redeemed
        \/ redis.pairs[i] # NoToken /\ redeemed' = [redeemed EXCEPT ![i] = @ + 1]
      BY <1>3, RedeemDoes
  <2>3. \A c \in PairCode : c # i => redis.pairs'[c] = redis.pairs[c] /\ redeemed'[c] = redeemed[c]
      BY <1>t, <2>1, <2>2
  <2>4. i \in PairCode => redis.pairs'[i] = NoToken /\ redeemed'[i] <= 1
      BY <1>t, <2>1, <2>2 DEF Unused
  <2> QED
      BY <2>3, <2>4 DEF Unused
<1>4. CASE Expire \/ LoseRedis
  <2>1. redeemed' = redeemed
      BY <1>4, ExpireDoes, LoseRedisDoes DEF history
  <2>2. \A c \in PairCode : redis.pairs'[c] \in {redis.pairs[c], NoToken}
      BY <1>4, <1>t, ExpireDoes, LoseRedisDoes
  <2> QED
      BY <2>1, <2>2 DEF Unused
<1>5. ASSUME NEW r \in Slot, Start(r) \/ Existence(r) \/ Rotation(r) \/ Mirroring(r) \/ Crash(r)
      PROVE  redeemed' = redeemed /\ redis.pairs' = redis.pairs
    BY <1>5, StartDoes, LookUpDoes, ConsultDoes, RestoreDoes, ReindexDoes, AuthenticateDoes,
       ReadMetaDoes, SetTokenDoes, UpsertDoes, RevertDoes, ReadForMirrorDoes,
       MirrorMetaDoes, CrashDoes
    DEF Existence, Rotation, Mirroring, Kept, Rewritten, Beside, history
<1>6. ASSUME NEW r \in Slot, Deletion(r) \/ Cloning(r)
      PROVE  redeemed' = redeemed /\ redis.pairs' = redis.pairs
    BY <1>6, MarkDoes, MarkDurableDoes, UnmarkDoes, UnindexDoes, UnlinkDoes, PurgeDoes,
       FindCloneDoes, ReadSourceDoes, CreateDurableDoes, CreateMetaDoes, CreateIndexDoes,
       UncreateDoes, CopyChunkDoes, HandOverDoes
    DEF Deletion, Cloning, Kept, Rewritten, Beside, history
<1>7. ASSUME NEW r \in Slot, Credentials(r) \/ Codes(r), ~ IssuePair(r), ~ Redeem(r)
      PROVE  redeemed' = redeemed /\ redis.pairs' = redis.pairs
    BY <1>7, FindPairDoes, ReadGenerationDoes, SetTicketDoes, NameCodeDoes, ListCodeDoes,
       UnlistDoes, UnnameDoes
    DEF Credentials, Codes, Kept, Beside, history
<1>8. UNCHANGED vars => redeemed' = redeemed /\ redis.pairs' = redis.pairs
    BY DEF vars, history
<1> QED
    BY <1>1, <1>2, <1>3, <1>4, <1>5, <1>6, <1>7, <1>8 DEF Next

\* A pair code gives the credentials away once at most, for any number of codes and of requests that
\* redeem one at the same time, whatever happens to Redis between them.
THEOREM CodesAreUsedOnce == Spec => []RedeemedOnce
<1>1. Init => Unused
    BY DEF Init, Unused, EmptyRedis, NoToken
<1>2. Unused => RedeemedOnce
    BY DEF Unused, RedeemedOnce
<1> QED
    BY <1>1, <1>2, InitShaped, StepShaped, StepUnused, PTL DEF Spec

-----------------------------------------------------------------------------
(* The codes a copy can be had for are listed. *)

\* What a request does with the list of codes is part of issuing or withdrawing one.
Working(r) ==
    /\ req[r].at \in {"issue", "list"} => req[r].op = "issue"
    /\ req[r].at \in {"revoke", "unname"} => req[r].op = "revoke"

\* A code that is named and not listed is about to be listed, or withdrawn.
Tended ==
    Source \notin doomed /\ cut \cap {"issue", "revoke"} = {} =>
        \A c \in redis.named :
            \/ c \in redis.listed
            \/ \E r \in Slot : req[r].item = c /\ req[r].at \in {"list", "unname"}

Listing == Tended /\ \A r \in Slot : Working(r)

\* A request that does not touch the list, and was not about to.
LEMMA ListUntouched ==
    ASSUME Listing, NEW r \in Slot, Moves(r), Working(r)',
           req[r].at \notin {"list", "unname"} \/ req[r].op \in cut',
           doomed \subseteq doomed', cut \subseteq cut',
           redis.named' \subseteq redis.named,
           Source \notin doomed' => redis.listed' = redis.listed
    PROVE  Listing'
<1>1. \A q \in Slot : q # r => req'[q] = req[q]
    BY DEF Moves
<1>2. \A q \in Slot : Working(q)'
    BY <1>1 DEF Listing, Working
<1>3. ASSUME Source \notin doomed', cut' \cap {"issue", "revoke"} = {}, NEW c \in redis.named',
             c \notin redis.listed'
      PROVE  \E q \in Slot : req'[q].item = c /\ req'[q].at \in {"list", "unname"}
  <2>1. PICK q \in Slot : req[q].item = c /\ req[q].at \in {"list", "unname"}
      BY <1>3 DEF Listing, Tended
  <2>2. q # r
      BY <1>3, <2>1 DEF Listing, Working
  <2> QED
      BY <1>1, <2>1, <2>2
<1> QED
    BY <1>2, <1>3 DEF Listing, Tended

LEMMA StepListing ==
    ASSUME Shaped, Final, Listing, [Next]_vars
    PROVE  Listing'
<1>e. ASSUME NEW r \in Slot, Ends(r)
      PROVE  Moves(r) /\ Working(r)'
    BY <1>e DEF Ends, Working, Free
<1>g. ASSUME NEW r \in Slot, NEW step, GoesOn(r, step),
             step \notin {"issue", "list", "revoke", "unname"} \/ step = req[r].op
      PROVE  Moves(r) /\ Working(r)'
  <2>1. req[r].op \notin {"list", "unname"}
      BY DEF Shaped, ReqShape, Guarded, Open
  <2> QED
      BY <1>g, <2>1 DEF GoesOn, Working
<1>1. ASSUME NEW r \in Slot, Start(r) \/ Existence(r)
      PROVE  Listing'
  <2>1. /\ doomed' = doomed /\ cut' = cut
        /\ redis.named' = redis.named /\ redis.listed' = redis.listed
        /\ req[r].at \notin {"list", "unname"}
      BY <1>1, StartDoes, LookUpDoes, ConsultDoes, RestoreDoes, ReindexDoes, AuthenticateDoes
      DEF Existence, Kept, Rewritten, Beside, history
  <2>2. Moves(r) /\ Working(r)'
    <3>1. CASE Start(r)
        BY <3>1, StartDoes DEF Working
    <3>2. CASE KnowsOn(r)
        BY <1>g, <3>2 DEF KnowsOn
    <3>3. CASE GoesOn(r, "consult") \/ GoesOn(r, "restore") \/ GoesOn(r, "reindex")
               \/ GoesOn(r, req[r].op)
        BY <1>g, <3>3
    <3> QED
        BY <1>1, <1>e, <3>1, <3>2, <3>3, LookUpDoes, ConsultDoes, RestoreDoes, ReindexDoes,
           AuthenticateDoes
        DEF Existence
  <2> QED
      BY <2>1, <2>2, ListUntouched
<1>2. ASSUME NEW r \in Slot, Deletion(r)
      PROVE  Listing'
  <2>1. /\ doomed \subseteq doomed' /\ cut' = cut /\ redis.named' = redis.named
        /\ req[r].at \notin {"list", "unname"}
      BY <1>2, MarkDoes, MarkDurableDoes, UnmarkDoes, UnindexDoes, UnlinkDoes, PurgeDoes
      DEF Deletion, Rewritten, Beside, history
  <2>2. Source \notin doomed' => redis.listed' = redis.listed
    <3>1. CASE Unlink(r)
      <4>1. req[r].vault \in doomed /\ req[r].vault \in Vault
          BY <3>1, UnlinkDoes DEF Final, Relies, Ending, Shaped, ReqShape
      <4> QED
          BY <2>1, <3>1, <4>1, UnlinkDoes DEF Vault
    <3> QED
        BY <1>2, <3>1, MarkDoes, MarkDurableDoes, UnmarkDoes, UnindexDoes, PurgeDoes
        DEF Deletion, Rewritten, Beside
  <2>3. Moves(r) /\ Working(r)'
      BY <1>2, <1>e, <1>g, MarkDoes, MarkDurableDoes, UnmarkDoes, UnindexDoes, UnlinkDoes,
         PurgeDoes
      DEF Deletion
  <2> QED
      BY <2>1, <2>2, <2>3, ListUntouched
<1>3. ASSUME NEW r \in Slot, Rotation(r) \/ Mirroring(r)
      PROVE  Listing'
  <2>1. /\ doomed' = doomed /\ cut' = cut
        /\ redis.named' = redis.named /\ redis.listed' = redis.listed
        /\ req[r].at \notin {"list", "unname"}
      BY <1>3, ReadMetaDoes, SetTokenDoes, UpsertDoes, RevertDoes, ReadForMirrorDoes,
         MirrorMetaDoes
      DEF Rotation, Mirroring, Kept, Rewritten, Beside, history
  <2>2. Moves(r) /\ Working(r)'
      BY <1>3, <1>e, <1>g, ReadMetaDoes, SetTokenDoes, UpsertDoes, RevertDoes,
         ReadForMirrorDoes, MirrorMetaDoes
      DEF Rotation, Mirroring
  <2> QED
      BY <2>1, <2>2, ListUntouched
<1>4. ASSUME NEW r \in Slot, Credentials(r)
      PROVE  Listing'
  <2>1. /\ doomed' = doomed /\ cut' = cut
        /\ redis.named' = redis.named /\ redis.listed' = redis.listed
        /\ req[r].at \notin {"list", "unname"}
      BY <1>4, IssuePairDoes, FindPairDoes, RedeemDoes, ReadGenerationDoes, SetTicketDoes
      DEF Credentials, Kept, Aside, Beside, history
  <2>2. Moves(r) /\ Working(r)'
      BY <1>4, <1>e, <1>g, IssuePairDoes, FindPairDoes, RedeemDoes, ReadGenerationDoes,
         SetTicketDoes
      DEF Credentials
  <2> QED
      BY <2>1, <2>2, ListUntouched
<1>5. ASSUME NEW r \in Slot, Cloning(r)
      PROVE  Listing'
  <2>1. /\ doomed' = doomed /\ cut' = cut
        /\ redis.named' = redis.named /\ redis.listed' = redis.listed
        /\ req[r].at \notin {"list", "unname"}
      BY <1>5, FindCloneDoes, ReadSourceDoes, CreateDurableDoes, CreateMetaDoes,
         CreateIndexDoes, UncreateDoes, CopyChunkDoes, HandOverDoes
      DEF Cloning, Kept, Rewritten, Beside, history
  <2>2. Moves(r) /\ Working(r)'
      BY <1>5, <1>e, <1>g, FindCloneDoes, ReadSourceDoes, CreateDurableDoes, CreateMetaDoes,
         CreateIndexDoes, UncreateDoes, CopyChunkDoes, HandOverDoes
      DEF Cloning
  <2> QED
      BY <2>1, <2>2, ListUntouched
<1>6. ASSUME NEW r \in Slot, Codes(r)
      PROVE  Listing'
  <2>1. doomed' = doomed /\ cut' = cut /\ \A q \in Slot : q # r => req'[q] = req[q]
      BY <1>6, NameCodeDoes, ListCodeDoes, UnlistDoes, UnnameDoes
      DEF Codes, Aside, Ends, GoesOn, Moves
  <2>2. \A q \in Slot : Working(q)'
    <3>1. Working(r)'
        BY <1>6, NameCodeDoes, ListCodeDoes, UnlistDoes, UnnameDoes
        DEF Codes, Listing, Working, GoesOn, Ends, Free
    <3> QED
        BY <2>1, <3>1 DEF Listing, Working
  <2>3. \A c \in redis.named' : c \notin redis.listed' /\ c # req[r].item =>
            c \in redis.named /\ c \notin redis.listed
      BY <1>6, NameCodeDoes, ListCodeDoes, UnlistDoes, UnnameDoes DEF Codes
  <2>4. req[r].item \in redis.named' /\ req[r].item \notin redis.listed' =>
            req'[r].item = req[r].item /\ req'[r].at \in {"list", "unname"}
      BY <1>6, NameCodeDoes, ListCodeDoes, UnlistDoes, UnnameDoes DEF Codes, GoesOn
  <2>5. Tended'
    <3> SUFFICES ASSUME Source \notin doomed, cut \cap {"issue", "revoke"} = {},
                        NEW c \in redis.named', c \notin redis.listed'
                 PROVE  \E q \in Slot : req'[q].item = c /\ req'[q].at \in {"list", "unname"}
        BY <2>1 DEF Tended
    <3>1. CASE c = req[r].item
        BY <2>4, <3>1
    <3>2. CASE c # req[r].item
      <4>1. PICK q \in Slot : req[q].item = c /\ req[q].at \in {"list", "unname"}
          BY <2>3, <3>2 DEF Listing, Tended
      <4> QED
          BY <2>1, <3>2, <4>1
    <3> QED
        BY <3>1, <3>2
  <2> QED
      BY <2>2, <2>5 DEF Listing
<1>7. ASSUME NEW r \in Slot, Crash(r)
      PROVE  Listing'
    BY <1>7, <1>e, CrashDoes, ListUntouched
<1>8. CASE Expire \/ LoseRedis \/ UNCHANGED vars
  <2>1. /\ req' = req /\ doomed' = doomed /\ cut \subseteq cut'
        /\ redis.named' = {} \/ (redis.named' \subseteq redis.named /\ redis.listed' = redis.listed)
      BY <1>8, ExpireDoes, LoseRedisDoes DEF vars, history
  <2> QED
      BY <2>1 DEF Listing, Tended, Working
<1> QED
    BY <1>1, <1>2, <1>3, <1>4, <1>5, <1>6, <1>7, <1>8 DEF Next

\* A copy can be had for no code that the owner does not see, unless the vault is
\* deleted or a fault fell between the two commands.
THEOREM CodesAreListed ==
    ASSUME ~ Interleaved
    PROVE  Spec => []RedeemableIsListed
<1>1. Init => Listing
    BY DEF Init, Listing, Tended, Working, Free, EmptyRedis
<1>2. Shaped /\ Final /\ Listing /\ [Next]_vars => Shaped' /\ Final' /\ Listing'
    BY StepShaped, StepFinal, StepListing
<1>3. Final /\ Listing => RedeemableIsListed
  <2> SUFFICES ASSUME Final, Listing, AtRest({"issue", "revoke"}), Admits(redis.meta[Source]),
                      NEW c \in redis.named
               PROVE  c \in redis.listed
      BY DEF RedeemableIsListed
  <2>1. Source \notin doomed
      BY DEF Final, Buried, Vault
  <2> QED
      BY <2>1 DEF Listing, Tended, Working, AtRest
<1> QED
    BY <1>1, <1>2, <1>3, InitShaped, InitFinal, PTL DEF Spec

-----------------------------------------------------------------------------
(* The two stores agree on the token. *)

Rotating == {"rotate", "setToken", "upsert", "revert"}

\* What a request has read of the vault's token is what the node has, and during a rotation
\* what it is to be set back to.
Matches(r) ==
    /\ req[r].at \in Rotating => req[r].op = "rotate"
    /\ Source \notin doomed /\ "rotate" \notin cut /\ req[r].vault = Source =>
          /\ req[r].at = "rotate" => redis.meta[Source].token # NoToken
          /\ req[r].at \in {"restore", "mirror", "setToken", "upsert", "revert"} =>
                req[r].held.token = durable[Source].token
          /\ req[r].at \in {"setToken", "upsert", "revert"} => req[r].held.token # NoToken
          /\ req[r].at = "upsert" => req[r].token = redis.meta[Source].token

\* Between the two writes of a rotation the tokens differ, and at no other time.
Mirrored ==
    /\ Source \notin doomed /\ "rotate" \notin cut /\ redis.meta[Source].token # NoToken
    /\ \A r \in Slot : req[r].vault = Source => req[r].at \notin {"upsert", "revert"}
    => redis.meta[Source].token = durable[Source].token

Agreeing == Mirrored /\ \A r \in Slot : Matches(r)

LEMMA IdleMatches ==
    ASSUME NEW r \in Slot, req'[r].at \notin Rotating \cup {"restore", "mirror"}
    PROVE  Matches(r)'
    BY DEF Matches, Rotating

Grows == doomed \subseteq doomed' /\ cut \subseteq cut'

\* A step that is not the last one of a rotation and leaves both tokens.
LEMMA TokensKept ==
    ASSUME Agreeing, Grows, NEW r \in Slot, Moves(r), Matches(r)',
           redis.meta'[Source].token = redis.meta[Source].token,
           durable'[Source].token = durable[Source].token,
           req[r].vault = Source => req[r].at \notin {"upsert", "revert"}
    PROVE  Agreeing'
<1>1. \A q \in Slot : q # r => req'[q] = req[q]
    BY DEF Moves
<1>2. \A q \in Slot : Matches(q)'
    BY <1>1 DEF Agreeing, Matches, Grows
<1>3. Mirrored'
    BY <1>1 DEF Agreeing, Mirrored, Grows
<1> QED
    BY <1>2, <1>3 DEF Agreeing

\* A step by which the one request in charge of the vault sets a token.
LEMMA TokensSet ==
    ASSUME Final, Agreeing, Grows, NEW r \in Slot, Moves(r), Matches(r)', Mirrored',
           InCharge(r), req[r].vault = Source
    PROVE  Agreeing'
<1>1. \A q \in Slot : q # r => req'[q] = req[q]
    BY DEF Moves
<1>2. ASSUME NEW q \in Slot, q # r
      PROVE  Matches(q)'
  <2>1. CASE req[q].vault = Source
    <3>1. ~ InCharge(q)
        BY <1>2, <2>1 DEF Final, OneInCharge
    <3>2. req[q].at \notin Rotating \cup {"restore", "mirror"}
        BY <3>1 DEF InCharge, Changing, Rotating
    <3> QED
        BY <1>1, <1>2, <3>2, IdleMatches
  <2>2. CASE req[q].vault # Source
      BY <1>1, <1>2, <2>2 DEF Agreeing, Matches
  <2> QED
      BY <2>1, <2>2
<1> QED
    BY <1>2 DEF Agreeing

\* Nothing is asked of a vault that is deleted, or where a rotation was cut short.
LEMMA NoAgreement ==
    ASSUME Agreeing, NEW r \in Slot, Moves(r), Source \in doomed' \/ "rotate" \in cut',
           req'[r].at \in Rotating => req'[r].op = "rotate"
    PROVE  Agreeing'
<1>1. \A q \in Slot : q # r => req'[q] = req[q]
    BY DEF Moves
<1> QED
    BY <1>1 DEF Agreeing, Matches, Mirrored

LEMMA ExistenceAgreeing ==
    ASSUME Shaped, Final, Agreeing, NEW r \in Slot, Start(r) \/ Existence(r)
    PROVE  Agreeing'
<1>p. Placed(r) /\ Matches(r) /\ req[r].vault \in Vault
    BY DEF Final, Agreeing, Shaped, ReqShape
<1>f. redis.meta \in [Vault -> MetaShape] /\ durable \in [Vault -> MetaShape] /\ Source \in Vault
    BY DEF Shaped, RedisShape, Vault
<1>e. Ends(r) => Moves(r) /\ Matches(r)'
    BY IdleMatches DEF Ends, Free, Rotating
<1>k. KnowsOn(r) => Moves(r) /\ Matches(r)'
    BY IdleMatches DEF KnowsOn, GoesOn, Rotating
<1>1. CASE Start(r) \/ LookUp(r) \/ Reindex(r)
  <2>1. Moves(r) /\ Matches(r)'
    <3>1. CASE Start(r)
        BY <3>1, StartDoes, IdleMatches DEF Rotating
    <3>2. CASE GoesOn(r, "consult")
        BY <3>2, IdleMatches DEF Rotating, GoesOn
    <3> QED
        BY <1>1, <1>e, <1>k, <3>1, <3>2, LookUpDoes, ReindexDoes
  <2>2. /\ redis.meta' = redis.meta /\ durable' = durable /\ Grows
        /\ req[r].at \notin {"upsert", "revert"}
      BY <1>1, StartDoes, LookUpDoes, ReindexDoes DEF Kept, history, Grows
  <2> QED
      BY <2>1, <2>2, TokensKept
<1>2. CASE Consult(r)
  <2>1. /\ redis.meta' = redis.meta /\ durable' = durable /\ Grows
        /\ req[r].at \notin {"upsert", "revert"}
      BY <1>2, ConsultDoes DEF Kept, history, Grows
  <2>2. Moves(r) /\ Matches(r)'
    <3>1. CASE /\ GoesOn(r, "restore") /\ req'[r].vault = req[r].vault
               /\ req'[r].held = durable[req[r].vault]
        BY <2>1, <3>1 DEF GoesOn, Matches, Rotating
    <3> QED
        BY <1>2, <1>e, <3>1, ConsultDoes
  <2> QED
      BY <2>1, <2>2, TokensKept
<1>3. CASE Restore(r)
  <2>1. /\ req[r].at = "restore" /\ GoesOn(r, "reindex") /\ Grows
        /\ durable' = durable /\ doomed' = doomed /\ cut' = cut
        /\ redis.meta' = [redis.meta EXCEPT ![req[r].vault] =
              [token |-> req[r].held.token, deleting |-> redis.meta[req[r].vault].deleting]]
      BY <1>3, RestoreDoes DEF Rewritten, history, Grows
  <2>2. Moves(r) /\ Matches(r)'
      BY <2>1, IdleMatches DEF GoesOn, Rotating
  <2>3. CASE req[r].vault = Source
    <3>1. redis.meta'[Source].token = req[r].held.token
        BY <1>f, <2>1, <2>3
    <3>2. Mirrored'
        BY <1>p, <2>1, <2>3, <3>1 DEF Mirrored, Matches
    <3>3. InCharge(r)
        BY <2>1 DEF InCharge, Changing
    <3> QED
        BY <2>1, <2>2, <2>3, <3>2, <3>3, TokensSet
  <2>4. CASE req[r].vault # Source
    <3>1. redis.meta'[Source] = redis.meta[Source]
        BY <1>f, <2>1, <2>4
    <3> QED
        BY <2>1, <2>2, <2>4, <3>1, TokensKept
  <2> QED
      BY <2>3, <2>4
<1>4. CASE Authenticate(r)
  <2>1. /\ redis.meta' = redis.meta /\ durable' = durable /\ Grows
        /\ req[r].at = "authenticate" /\ req[r].op \in Guarded
      BY <1>4, <1>p, AuthenticateDoes DEF Kept, history, Grows, Placed
  <2>2. Moves(r) /\ Matches(r)'
    <3>1. CASE GoesOn(r, req[r].op) /\ Carries(r) /\ Admits(redis.meta[req[r].vault])
      <4>1. req'[r].at = req[r].op /\ req'[r].op = req[r].op /\ req'[r].vault = req[r].vault
          BY <3>1 DEF GoesOn, Carries
      <4>2. req[r].op = "rotate" \/ req[r].op \notin Rotating \cup {"restore", "mirror"}
          BY <2>1 DEF Guarded, Rotating
      <4>3. CASE req[r].op = "rotate"
          BY <2>1, <3>1, <4>1, <4>3 DEF Matches, Admits, GoesOn
      <4>4. CASE req[r].op \notin Rotating \cup {"restore", "mirror"}
          BY <3>1, <4>1, <4>4, IdleMatches DEF GoesOn
      <4> QED
          BY <4>2, <4>3, <4>4
    <3> QED
        BY <1>4, <1>e, <3>1, AuthenticateDoes
  <2> QED
      BY <2>1, <2>2, TokensKept
<1> QED
    BY <1>1, <1>2, <1>3, <1>4 DEF Existence

LEMMA DeletionAgreeing ==
    ASSUME Shaped, Final, Agreeing, NEW r \in Slot, Deletion(r)
    PROVE  Agreeing'
<1>v. PICK v \in Vault : v = req[r].vault
    BY DEF Shaped, ReqShape
<1>f. /\ redis.meta \in [Vault -> MetaShape] /\ durable \in [Vault -> MetaShape]
      /\ Source \in Vault /\ Relies(r)
    BY DEF Shaped, RedisShape, Vault, Final
<1>m. Moves(r) /\ Matches(r)' /\ Grows /\ req[r].at \notin {"upsert", "revert"}
  <2>1. \/ Ends(r)
        \/ \E step \in {"markDurable", "unmark", "unindex", "unlink", "purge"} : GoesOn(r, step)
      BY MarkDoes, MarkDurableDoes, UnmarkDoes, UnindexDoes, UnlinkDoes, PurgeDoes DEF Deletion
  <2>2. Moves(r) /\ req'[r].at \notin Rotating \cup {"restore", "mirror"}
      BY <2>1 DEF Ends, GoesOn, Free, Rotating
  <2>3. Grows /\ req[r].at \notin {"upsert", "revert"}
      BY MarkDoes, MarkDurableDoes, UnmarkDoes, UnindexDoes, UnlinkDoes, PurgeDoes
      DEF Deletion, Grows, history
  <2> QED
      BY <2>2, <2>3, IdleMatches
<1>1. CASE Mark(r) \/ Unmark(r)
  <2>1. PICK b \in BOOLEAN : redis.meta' = [redis.meta EXCEPT ![v] =
                                   [token |-> redis.meta[v].token, deleting |-> b]]
      BY <1>1, <1>v, MarkDoes, UnmarkDoes DEF Rewritten
  <2>2. redis.meta'[Source].token = redis.meta[Source].token
      BY <1>f, <2>1
  <2>3. durable' = durable
      BY <1>1, MarkDoes, UnmarkDoes
  <2> QED
      BY <1>m, <2>2, <2>3, TokensKept
<1>2. CASE MarkDurable(r)
  <2>1. redis' = redis /\
        \/ durable' = durable
        \/ durable' = [durable EXCEPT ![v] =
              [token |-> durable[v].token,
               deleting |-> durable[v].deleting \/ durable[v].token # NoToken]]
      BY <1>2, <1>v, MarkDurableDoes
  <2>2. durable'[Source].token = durable[Source].token
      BY <1>f, <2>1
  <2> QED
      BY <1>m, <2>1, <2>2, TokensKept
<1>3. CASE Unindex(r)
    BY <1>3, <1>m, UnindexDoes, TokensKept
<1>4. CASE Unlink(r) \/ Purge(r)
  <2>1. req[r].at \in Ending /\ doomed' = doomed
      BY <1>4, UnlinkDoes, PurgeDoes DEF Ending, history
  <2>2. CASE v = Source
    <3>1. Source \in doomed'
        BY <1>f, <1>v, <2>1, <2>2 DEF Relies
    <3>2. req'[r].at \in Rotating => req'[r].op = "rotate"
        BY <1>m DEF Matches
    <3> QED
        BY <1>m, <3>1, <3>2, NoAgreement
  <2>3. CASE v # Source
    <3>1. /\ redis.meta' = redis.meta \/ redis.meta' = [redis.meta EXCEPT ![v] = NoMeta]
          /\ durable' = durable \/ durable' = [durable EXCEPT ![v] = NoMeta]
        BY <1>4, <1>v, UnlinkDoes, PurgeDoes
    <3>2. redis.meta'[Source] = redis.meta[Source] /\ durable'[Source] = durable[Source]
        BY <1>f, <2>3, <3>1
    <3> QED
        BY <1>m, <3>2, TokensKept
  <2> QED
      BY <2>2, <2>3
<1> QED
    BY <1>1, <1>2, <1>3, <1>4 DEF Deletion

LEMMA RotationAgreeing ==
    ASSUME Shaped, Final, Agreeing, NEW r \in Slot, Rotation(r)
    PROVE  Agreeing'
<1>c. req[r].at \in Rotating
    BY ReadMetaDoes, SetTokenDoes, UpsertDoes, RevertDoes DEF Rotation, Rotating
<1>v. req[r].vault = Source /\ req[r].op = "rotate" /\ Matches(r)
    BY <1>c DEF Agreeing, Matches, Final, Placed, Shaped, ReqShape, Vault
<1>f. /\ redis.meta \in [Vault -> MetaShape] /\ durable \in [Vault -> MetaShape]
      /\ Source \in Vault /\ InCharge(r)
    BY <1>c DEF Shaped, RedisShape, Vault, InCharge, Rotating, Changing
\* Nobody else is between the two writes.
<1>o. \A q \in Slot : q # r /\ req[q].vault = Source => req[q].at \notin {"upsert", "revert"}
    BY <1>f, <1>v DEF Final, OneInCharge, InCharge, Changing
<1>1. CASE ReadMeta(r)
  <2>1. /\ req[r].at = "rotate" /\ GoesOn(r, "setToken") /\ Grows
        /\ req'[r].vault = Source /\ req'[r].held = redis.meta[Source]
        /\ redis' = redis /\ durable' = durable /\ cut' = cut /\ doomed' = doomed
      BY <1>1, <1>v, ReadMetaDoes DEF Kept, history, Grows
  <2>2. Source \notin doomed /\ "rotate" \notin cut =>
          /\ redis.meta[Source].token # NoToken
          /\ redis.meta[Source].token = durable[Source].token
      BY <1>o, <1>v, <2>1 DEF Agreeing, Mirrored, Matches
  <2>3. Matches(r)'
      BY <1>v, <2>1, <2>2 DEF Matches, GoesOn
  <2> QED
      BY <2>1, <2>3, TokensKept DEF GoesOn
<1>2. CASE SetToken(r)
  <2>1. /\ req[r].at = "setToken" /\ GoesOn(r, "upsert") /\ Grows
        /\ req'[r].vault = Source /\ req'[r].held = req[r].held /\ req'[r].token = minted + 1
        /\ durable' = durable /\ cut' = cut /\ doomed' = doomed
        /\ redis.meta' = [redis.meta EXCEPT ![Source] =
              [token |-> minted + 1, deleting |-> redis.meta[Source].deleting]]
      BY <1>2, <1>v, SetTokenDoes DEF Rewritten, history, Grows
  <2>2. redis.meta'[Source].token = minted + 1
      BY <1>f, <2>1
  <2>3. Matches(r)'
      BY <1>v, <2>1, <2>2 DEF Matches, GoesOn
  <2>4. Mirrored'
      BY <2>1 DEF Mirrored, GoesOn
  <2> QED
      BY <1>f, <1>v, <2>1, <2>3, <2>4, TokensSet DEF GoesOn
<1>3. CASE Upsert(r)
  <2>1. req[r].at = "upsert" /\ redis' = redis /\ Grows /\ cut' = cut /\ doomed' = doomed
      BY <1>3, UpsertDoes DEF history, Grows
  <2>2. CASE durable' = durable /\ GoesOn(r, "revert") /\ Carries(r)
    <3>1. Matches(r)'
        BY <1>v, <2>1, <2>2 DEF Matches, GoesOn, Carries
    <3>2. Mirrored'
        BY <1>v, <2>2 DEF Mirrored, GoesOn, Carries
    <3> QED
        BY <1>f, <1>v, <2>1, <2>2, <3>1, <3>2, TokensSet DEF GoesOn
  <2>3. CASE NodeGets(Source, req[r].token) /\ Ends(r)
    <3>1. durable'[Source].token = req[r].token
        BY <1>f, <2>3 DEF NodeGets
    <3>2. Matches(r)'
        BY <2>3, IdleMatches DEF Ends, Free, Rotating
    <3>3. Mirrored'
        BY <1>v, <2>1, <3>1 DEF Mirrored, Matches
    <3> QED
        BY <1>f, <1>v, <2>1, <2>3, <3>2, <3>3, TokensSet DEF Ends
  <2> QED
      BY <1>3, <1>v, <2>2, <2>3, UpsertDoes
<1>4. CASE Revert(r)
  <2>1. req[r].at = "revert" /\ Ends(r) /\ Grows /\ UNCHANGED <<durable, cut, doomed>>
      BY <1>4, RevertDoes DEF history, Grows
  <2>2. Matches(r)'
      BY <2>1, IdleMatches DEF Ends, Free, Rotating
  <2>3. Mirrored'
    <3>1. CASE req[r].held.token = NoToken
        BY <1>v, <2>1, <3>1 DEF Mirrored, Matches
    <3>2. CASE req[r].held.token # NoToken
      <4>1. redis.meta' = [redis.meta EXCEPT ![Source] =
               [token |-> req[r].held.token,
                deleting |-> redis.meta[Source].deleting \/ req[r].held.deleting]]
          BY <1>4, <1>v, <3>2, RevertDoes DEF Rewritten
      <4>2. redis.meta'[Source].token = req[r].held.token
          BY <1>f, <4>1
      <4> QED
          BY <1>v, <2>1, <4>2 DEF Mirrored, Matches
    <3> QED
        BY <3>1, <3>2
  <2> QED
      BY <1>f, <1>v, <2>1, <2>2, <2>3, TokensSet DEF Ends
<1> QED
    BY <1>1, <1>2, <1>3, <1>4 DEF Rotation

LEMMA MirroringAgreeing ==
    ASSUME Shaped, Final, Agreeing, ~ Interleaved, NEW r \in Slot, Mirroring(r)
    PROVE  Agreeing'
<1>f. /\ durable \in [Vault -> MetaShape] /\ Source \in Vault /\ Matches(r)
    BY DEF Shaped, Vault, Agreeing
<1>v. PICK v \in Vault : v = req[r].vault
    BY DEF Shaped, ReqShape
<1>e. Ends(r) => Moves(r) /\ Matches(r)'
    BY IdleMatches DEF Ends, Free, Rotating
<1>1. CASE ReadForMirror(r)
  <2>1. /\ req[r].at = "readForMirror" /\ Alone(r) /\ Grows
        /\ UNCHANGED <<redis, durable, cut, doomed>>
      BY <1>1, ReadForMirrorDoes DEF Kept, history, Grows
  <2>2. ASSUME GoesOn(r, "mirror"), req'[r].vault = v,
               req'[r].held = redis.meta[v], redis.meta[v].token # NoToken
        PROVE  Matches(r)'
    <3>1. CASE v = Source
      <4>1. \A q \in Slot : q # r /\ req[q].vault = Source => req[q].at \notin {"upsert", "revert"}
          BY <1>v, <2>1, <3>1, AloneInCharge DEF InCharge, Changing
      <4>2. Source \notin doomed /\ "rotate" \notin cut =>
               redis.meta[Source].token = durable[Source].token
          BY <2>1, <2>2, <3>1, <4>1 DEF Agreeing, Mirrored
      <4> QED
          BY <2>1, <2>2, <3>1, <4>2 DEF Matches, GoesOn, Rotating
    <3>2. CASE v # Source
        BY <2>1, <2>2, <3>2 DEF Matches, GoesOn, Rotating
    <3> QED
        BY <3>1, <3>2
  <2>3. Moves(r) /\ Matches(r)'
      BY <1>1, <1>e, <1>v, <2>2, ReadForMirrorDoes DEF GoesOn
  <2> QED
      BY <2>1, <2>3, TokensKept
<1>2. CASE MirrorMeta(r)
  <2>1. /\ req[r].at = "mirror" /\ Ends(r) /\ redis' = redis /\ Grows
        /\ UNCHANGED <<cut, doomed>>
      BY <1>2, MirrorMetaDoes DEF history, Grows
  <2>2. CASE durable'[Source] = durable[Source]
      BY <1>e, <2>1, <2>2, TokensKept
  <2>3. CASE v = Source /\ NodeGets(v, req[r].held.token)
    <3>1. durable'[Source].token = req[r].held.token
        BY <1>f, <2>3 DEF NodeGets
    <3>2. CASE Source \in doomed \/ "rotate" \in cut
        BY <1>e, <2>1, <3>2, NoAgreement DEF Matches
    <3>3. CASE ~ (Source \in doomed \/ "rotate" \in cut)
      <4>1. durable'[Source].token = durable[Source].token
          BY <1>f, <1>v, <2>1, <2>3, <3>1, <3>3 DEF Matches
      <4> QED
          BY <1>e, <2>1, <4>1, TokensKept
    <3> QED
        BY <3>2, <3>3
  <2>4. CASE v # Source /\ NodeGets(v, req[r].held.token)
      BY <1>f, <2>2, <2>4 DEF NodeGets
  <2> QED
      BY <1>2, <1>v, <2>2, <2>3, <2>4, MirrorMetaDoes
<1> QED
    BY <1>1, <1>2 DEF Mirroring

LEMMA CredentialsAgreeing ==
    ASSUME Agreeing, Shaped, NEW r \in Slot, Credentials(r) \/ Codes(r)
    PROVE  Agreeing'
<1>1. /\ redis.meta' = redis.meta /\ durable' = durable /\ Grows
      /\ req[r].at \notin {"upsert", "revert"}
    BY IssuePairDoes, FindPairDoes, RedeemDoes, ReadGenerationDoes, SetTicketDoes,
       NameCodeDoes, ListCodeDoes, UnlistDoes, UnnameDoes
    DEF Credentials, Codes, Kept, Aside, Grows, history
<1>2. \/ Ends(r)
      \/ \E step \in {"redeem", "setTicket", "list", "unname"} : GoesOn(r, step)
    BY IssuePairDoes, FindPairDoes, RedeemDoes, ReadGenerationDoes, SetTicketDoes,
       NameCodeDoes, ListCodeDoes, UnlistDoes, UnnameDoes
    DEF Credentials, Codes
<1>3. Moves(r) /\ Matches(r)'
    BY <1>2, IdleMatches DEF Ends, GoesOn, Free, Rotating
<1> QED
    BY <1>1, <1>3, TokensKept

LEMMA CloningAgreeing ==
    ASSUME Shaped, Final, Agreeing, NEW r \in Slot, Cloning(r)
    PROVE  Agreeing'
<1>f. /\ redis.meta \in [Vault -> MetaShape] /\ durable \in [Vault -> MetaShape]
      /\ Source \in Vault
    BY DEF Shaped, RedisShape, Vault
<1>1. /\ Grows /\ req[r].at \notin {"upsert", "revert"}
      /\ \/ Ends(r)
         \/ \E step \in {"exists", "createDurable", "createMeta", "uncreate", "createIndex",
                         "chunk", "delete", "copied"} : GoesOn(r, step)
    BY FindCloneDoes, ReadSourceDoes, CreateDurableDoes, CreateMetaDoes, CreateIndexDoes,
       UncreateDoes, CopyChunkDoes, HandOverDoes
    DEF Cloning, Kept, Grows, history
<1>2. Moves(r) /\ Matches(r)'
    BY <1>1, IdleMatches DEF Ends, GoesOn, Free, Rotating
<1>3. req[r].at = "createDurable" => req[r].vault = Copy
    BY DEF Final, Placed, Building
<1>4. /\ redis.meta' = redis.meta \/ \E d : redis.meta' = [redis.meta EXCEPT ![Copy] = d]
      /\ durable' = durable \/ \E d : durable' = [durable EXCEPT ![Copy] = d]
  <2>1. CASE FindClone(r) \/ ReadSource(r) \/ HandOver(r) \/ CopyChunk(r) \/ CreateIndex(r)
      BY <2>1, FindCloneDoes, ReadSourceDoes, HandOverDoes, CopyChunkDoes, CreateIndexDoes
      DEF Kept
  <2>2. CASE CreateDurable(r)
    <3>1. req[r].vault = Copy /\ redis' = redis
        BY <1>3, <2>2, CreateDurableDoes
    <3>2. durable' = durable \/ \E t : NodeGets(Copy, t)
        BY <2>2, <3>1, CreateDurableDoes
    <3> QED
        BY <3>1, <3>2 DEF NodeGets
  <2>3. CASE CreateMeta(r)
      BY <2>3, CreateMetaDoes DEF Rewritten
  <2>4. CASE Uncreate(r)
      BY <2>4, UncreateDoes
  <2> QED
      BY <2>1, <2>2, <2>3, <2>4 DEF Cloning
<1>5. redis.meta'[Source] = redis.meta[Source] /\ durable'[Source] = durable[Source]
    BY <1>f, <1>4, TwoVaults
<1> QED
    BY <1>1, <1>2, <1>5, TokensKept

LEMMA StepAgreeing ==
    ASSUME Shaped, Final, Agreeing, ~ Interleaved, [Next]_vars
    PROVE  Agreeing'
<1>1. ASSUME NEW r \in Slot, Crash(r)
      PROVE  Agreeing'
  <2>1. /\ Ends(r) /\ Grows /\ cut' = cut \cup {req[r].op}
        /\ UNCHANGED <<redis, durable, doomed>>
      BY <1>1, CrashDoes DEF Grows
  <2>2. Moves(r) /\ Matches(r)'
      BY <2>1, IdleMatches DEF Ends, Free, Rotating
  <2>3. CASE req[r].at \in Rotating
      BY <2>1, <2>2, <2>3, NoAgreement DEF Agreeing, Matches
  <2>4. CASE req[r].at \notin Rotating
      BY <2>1, <2>2, <2>4, TokensKept DEF Rotating
  <2> QED
      BY <2>3, <2>4
<1>2. CASE LoseRedis
  <2>1. /\ redis.meta'[Source].token = NoToken
        /\ UNCHANGED <<durable, req, doomed>>
        /\ cut' = cut \cup ({req[r].op : r \in Slot} \ {"none"})
      BY <1>2, LoseRedisDoes DEF Vault, NoMeta
  <2>2. \A r \in Slot : req[r].at \in Rotating => "rotate" \in cut'
    <3> SUFFICES ASSUME NEW r \in Slot, req[r].at \in Rotating
                 PROVE  "rotate" \in cut'
        OBVIOUS
    <3>1. req[r].op = "rotate"
        BY DEF Agreeing, Matches
    <3>2. req[r].op \in {req[q].op : q \in Slot}
        OBVIOUS
    <3>3. "rotate" # "none"
        OBVIOUS
    <3> QED
        BY <2>1, <3>1, <3>2, <3>3
  <2>3. cut \subseteq cut'
      BY <2>1
  <2>4. \A r \in Slot : Matches(r)'
      BY <2>1, <2>2, <2>3 DEF Agreeing, Matches, Rotating
  <2> QED
      BY <2>1, <2>4 DEF Agreeing, Mirrored
<1>3. CASE UNCHANGED <<redis.meta, durable, req, doomed, cut>>
    BY <1>3 DEF Agreeing, Mirrored, Matches
<1>4. Expire \/ UNCHANGED vars => UNCHANGED <<redis.meta, durable, req, doomed, cut>>
    BY ExpireDoes DEF vars, history
<1> QED
    BY <1>1, <1>2, <1>3, <1>4, ExistenceAgreeing, DeletionAgreeing, RotationAgreeing,
       MirroringAgreeing, CredentialsAgreeing, CloningAgreeing
    DEF Next

\* The token that Redis checks is the one that a restoration would bring back, however
\* rotations, restorations, mirrorings and deletions of the vault follow each other, as
\* long as no two of them change its metadata at once.
THEOREM StoresAgree ==
    ASSUME ~ Interleaved
    PROVE  Spec => []StoresAgreeOnToken
<1>1. Init => Agreeing
  <2> SUFFICES ASSUME Init
               PROVE  Agreeing
      OBVIOUS
  <2>1. redis.meta = durable
      BY DEF Init, EmptyRedis
  <2>2. \A r \in Slot : req[r].at = "free"
      BY DEF Init, Free
  <2> QED
      BY <2>1, <2>2 DEF Agreeing, Mirrored, Matches, Rotating
<1>2. Shaped /\ Final /\ Agreeing /\ [Next]_vars => Shaped' /\ Final' /\ Agreeing'
    BY StepShaped, StepFinal, StepAgreeing
<1>3. Final /\ Agreeing => StoresAgreeOnToken
  <2> SUFFICES ASSUME Final, Agreeing, AtRest({"rotate"}), Admits(redis.meta[Source])
               PROVE  durable[Source].token = redis.meta[Source].token
      BY DEF StoresAgreeOnToken
  <2>1. Source \notin doomed /\ redis.meta[Source].token # NoToken /\ "rotate" \notin cut
      BY DEF Final, Buried, Vault, Admits, AtRest
  <2>2. \A r \in Slot : req[r].at \notin {"upsert", "revert"}
      BY DEF Agreeing, Matches, Rotating, AtRest
  <2> QED
      BY <2>1, <2>2 DEF Agreeing, Mirrored
<1> QED
    BY <1>1, <1>2, <1>3, InitShaped, InitFinal, PTL DEF Spec

-----------------------------------------------------------------------------
(* What is handed over is whole. *)

\* Before the first batch of a copy.
Early == {"findClone", "exists", "consult", "restore", "reindex", "copy", "createDurable",
          "createMeta", "createIndex", "uncreate"}

\* What was copied and what is still to be copied make up the vault.
Counts(r) ==
    LET done == redis.records[Copy]
    IN  /\ req[r].op = "clone" /\ req[r].at \in Early => done = 0
        /\ req[r].at \in {"createDurable", "createMeta", "createIndex"} =>
              req[r].count \in {0, Chunks}
        /\ req[r].at = "chunk" /\ Admits(redis.meta[Copy]) => req[r].count + done \in {0, Chunks}
        /\ req[r].at = "copied" /\ Admits(redis.meta[Copy]) => done \in {0, Chunks}

\* A copy has records only once it has a node.
Whole ==
    /\ redis.records[Source] \in {0, Chunks}
    /\ redis.records[Copy] # 0 => durable[Copy].token # NoToken \/ Copy \in doomed
    /\ \A r \in Slot : Counts(r)

CopyKept ==
    /\ redis.meta'[Copy] = redis.meta[Copy] /\ redis.records'[Copy] = redis.records[Copy]
    /\ durable'[Copy] = durable[Copy]

\* Only the request that makes the copy changes it.
LEMMA WholeStep ==
    ASSUME Final, Whole, NEW r \in Slot, Moves(r), Counts(r)', doomed \subseteq doomed',
           redis.records'[Source] \in {0, redis.records[Source]},
           \/ CopyKept
           \/ /\ req[r].op = "clone"
              /\ redis.records'[Copy] # 0 => durable'[Copy].token # NoToken \/ Copy \in doomed'
    PROVE  Whole'
<1>1. ASSUME NEW q \in Slot, q # r
      PROVE  Counts(q)'
  <2>1. req'[q] = req[q] /\ Counts(q)
      BY <1>1 DEF Moves, Whole
  <2>2. CASE CopyKept
      BY <2>1, <2>2 DEF Counts, CopyKept, Admits
  <2>3. CASE req[r].op = "clone"
    <3>1. req[q].op # "clone" /\ Placed(q)
        BY <1>1, <2>3 DEF Final, OneInCharge
    <3>2. req[q].at \notin {"createDurable", "createMeta", "createIndex", "chunk", "copied"}
        BY <3>1 DEF Placed, Building
    <3> QED
        BY <2>1, <3>1, <3>2 DEF Counts
  <2> QED
      BY <2>2, <2>3
<1>2. redis.records'[Copy] # 0 => durable'[Copy].token # NoToken \/ Copy \in doomed'
    BY DEF Whole, CopyKept
<1>3. redis.records'[Source] \in {0, Chunks}
    BY DEF Whole
<1> QED
    BY <1>1, <1>2, <1>3 DEF Whole

\* A request elsewhere in its program counts nothing.
LEMMA IdleCounts ==
    ASSUME NEW r \in Slot, req'[r].at \notin Early \cup {"chunk", "copied"}
    PROVE  Counts(r)'
    BY DEF Counts, Early

LEMMA ExistenceWhole ==
    ASSUME Shaped, Final, Whole, NEW r \in Slot, Start(r) \/ Existence(r)
    PROVE  Whole'
<1>p. Placed(r) /\ Counts(r) /\ Copy \in Vault /\ redis.meta \in [Vault -> MetaShape]
    BY DEF Final, Whole, Vault, Shaped, RedisShape
<1>v. PICK v \in Vault : v = req[r].vault
    BY DEF Shaped, ReqShape
<1>e. Ends(r) => Moves(r) /\ Counts(r)'
    BY IdleCounts DEF Ends, Free, Early
<1>1. CASE Start(r)
  <2>1. CopyKept /\ Moves(r) /\ doomed' = doomed /\ redis' = redis
      BY <1>1, StartDoes DEF Kept, CopyKept, history
  <2>2. CASE NoCopyYet
    <3>1. redis.records[Copy] = 0
        BY <2>2 DEF Whole, NoCopyYet, NoMeta
    <3> QED
        BY <1>1, <2>1, <3>1, StartDoes, WholeStep DEF Counts
  <2>3. CASE ~ NoCopyYet
    <3>1. req'[r].op # "clone" /\ req'[r].at \in {"exists", "findPair", "readForMirror"}
        BY <1>1, <2>3, StartDoes DEF Guarded
    <3>2. Counts(r)'
        BY <3>1 DEF Counts
    <3> QED
        BY <2>1, <3>2, WholeStep
  <2> QED
      BY <2>2, <2>3
<1>2. CASE LookUp(r) \/ Consult(r) \/ Restore(r) \/ Reindex(r)
  <2>1. /\ req[r].at \in {"exists", "consult", "restore", "reindex"}
        /\ redis.records' = redis.records /\ durable' = durable /\ doomed' = doomed
        /\ \/ Ends(r) \/ KnowsOn(r)
           \/ GoesOn(r, "consult") \/ GoesOn(r, "restore") \/ GoesOn(r, "reindex")
        /\ redis.meta' = redis.meta \/ \E d : redis.meta' = [redis.meta EXCEPT ![v] = d]
      BY <1>2, <1>v, LookUpDoes, ConsultDoes, RestoreDoes, ReindexDoes
      DEF Kept, Beside, Rewritten, history
  <2>2. Moves(r) /\ Counts(r)'
    <3>1. req[r].op = "clone" => redis.records[Copy] = 0
        BY <1>p, <2>1 DEF Counts, Early
    <3>2. ASSUME NEW step \in {"exists", "consult", "restore", "reindex", "copy", "authenticate"},
                 GoesOn(r, step)
          PROVE  Moves(r) /\ Counts(r)'
        BY <2>1, <3>1, <3>2 DEF GoesOn, Counts
    <3> QED
        BY <1>e, <2>1, <3>2 DEF KnowsOn
  <2>3. CASE v = Copy
    <3>1. req[r].op = "clone"
        BY <1>p, <1>v, <2>3 DEF Placed
    <3> QED
        BY <2>1, <2>2, <3>1, WholeStep DEF Whole
  <2>4. CASE v # Copy
    <3>1. CopyKept
        BY <1>p, <2>1, <2>4 DEF CopyKept
    <3> QED
        BY <2>1, <2>2, <3>1, WholeStep
  <2> QED
      BY <2>3, <2>4
<1>3. CASE Authenticate(r)
  <2>1. CopyKept /\ doomed' = doomed /\ redis' = redis /\ req[r].op \in Guarded
      BY <1>3, <1>p, AuthenticateDoes DEF Kept, CopyKept, history, Placed
  <2>2. Moves(r) /\ Counts(r)'
    <3>1. CASE GoesOn(r, req[r].op)
        BY <2>1, <3>1, IdleCounts DEF GoesOn, Guarded, Early
    <3> QED
        BY <1>3, <1>e, <3>1, AuthenticateDoes
  <2> QED
      BY <2>1, <2>2, WholeStep
<1> QED
    BY <1>1, <1>2, <1>3 DEF Existence

LEMMA DeletionWhole ==
    ASSUME Shaped, Final, Whole, NEW r \in Slot, Deletion(r)
    PROVE  Whole'
<1>p. /\ Placed(r) /\ Relies(r) /\ Copy \in Vault /\ Source \in Vault
      /\ redis.meta \in [Vault -> MetaShape] /\ durable \in [Vault -> MetaShape]
      /\ redis.records \in [Vault -> Int]
    BY DEF Final, Vault, Shaped, RedisShape
<1>v. PICK v \in Vault : v = req[r].vault
    BY DEF Shaped, ReqShape
<1>1. /\ Moves(r) /\ doomed \subseteq doomed'
      /\ req'[r].at \in {"free", "markDurable", "unmark", "unindex", "unlink", "purge"}
  <2>1. \/ Ends(r)
        \/ \E step \in {"markDurable", "unmark", "unindex", "unlink", "purge"} : GoesOn(r, step)
      BY MarkDoes, MarkDurableDoes, UnmarkDoes, UnindexDoes, UnlinkDoes, PurgeDoes DEF Deletion
  <2>2. Moves(r) /\ req'[r].at \in {"free", "markDurable", "unmark", "unindex", "unlink", "purge"}
      BY <2>1 DEF Ends, GoesOn, Free
  <2>3. doomed \subseteq doomed'
      BY MarkDoes, MarkDurableDoes, UnmarkDoes, UnindexDoes, UnlinkDoes, PurgeDoes
      DEF Deletion, history
  <2> QED
      BY <2>2, <2>3
<1>2. Counts(r)'
    BY <1>1, IdleCounts DEF Early
<1>3. CASE Mark(r) \/ MarkDurable(r) \/ Unmark(r) \/ Unindex(r)
  <2>1. /\ redis.records' = redis.records
        /\ redis.meta' = redis.meta \/ \E d : redis.meta' = [redis.meta EXCEPT ![v] = d]
    <3>1. CASE MarkDurable(r)
        BY <3>1, MarkDurableDoes
    <3> QED
        BY <1>3, <1>v, <3>1, MarkDoes, UnmarkDoes, UnindexDoes DEF Rewritten, Beside
  <2>2. \/ durable' = durable
        \/ durable' = [durable EXCEPT ![v] =
              [token |-> durable[v].token,
               deleting |-> durable[v].deleting \/ durable[v].token # NoToken]]
      BY <1>3, <1>v, MarkDoes, MarkDurableDoes, UnmarkDoes, UnindexDoes
  <2>3. CASE v = Copy
    <3>1. req[r].op = "clone" /\ durable'[Copy].token = durable[Copy].token
        BY <1>p, <1>v, <2>2, <2>3 DEF Placed
    <3> QED
        BY <1>1, <1>2, <2>1, <3>1, WholeStep DEF Whole
  <2>4. CASE v # Copy
    <3>1. CopyKept
        BY <1>p, <2>1, <2>2, <2>4 DEF CopyKept
    <3> QED
        BY <1>1, <1>2, <2>1, <3>1, WholeStep
  <2> QED
      BY <2>3, <2>4
<1>4. CASE Unlink(r)
  <2>1. /\ redis.records' = [redis.records EXCEPT ![v] = 0]
        /\ redis.meta' = [redis.meta EXCEPT ![v] = NoMeta] /\ durable' = durable
      BY <1>4, <1>v, UnlinkDoes
  <2>2. redis.records'[Source] \in {0, redis.records[Source]}
      BY <1>p, <2>1
  <2>3. CASE v = Copy
    <3>1. req[r].op = "clone" /\ redis.records'[Copy] = 0
        BY <1>p, <1>v, <2>1, <2>3 DEF Placed
    <3> QED
        BY <1>1, <1>2, <2>2, <3>1, WholeStep
  <2>4. CASE v # Copy
    <3>1. CopyKept
        BY <1>p, <2>1, <2>4 DEF CopyKept
    <3> QED
        BY <1>1, <1>2, <2>2, <3>1, WholeStep
  <2> QED
      BY <2>3, <2>4
<1>5. CASE Purge(r)
  <2>1. req[r].at = "purge" /\ redis' = redis /\ doomed' = doomed
        /\ (durable' = durable \/ durable' = [durable EXCEPT ![v] = NoMeta])
      BY <1>5, <1>v, PurgeDoes DEF history
  <2>2. CASE v = Copy
    <3>1. req[r].op = "clone" /\ Copy \in doomed'
        BY <1>p, <1>v, <2>1, <2>2 DEF Placed, Relies, Ending
    <3> QED
        BY <1>1, <1>2, <2>1, <3>1, WholeStep
  <2>3. CASE v # Copy
    <3>1. CopyKept
        BY <1>p, <2>1, <2>3 DEF CopyKept
    <3> QED
        BY <1>1, <1>2, <2>1, <3>1, WholeStep
  <2> QED
      BY <2>2, <2>3
<1> QED
    BY <1>3, <1>4, <1>5 DEF Deletion

\* A rotation or a mirroring gives a token to the node of its vault.
LEMMA RotationWhole ==
    ASSUME Shaped, Final, Whole, NEW r \in Slot, Rotation(r) \/ Mirroring(r)
    PROVE  Whole'
<1>p. /\ Placed(r) /\ Relies(r) /\ Copy \in Vault
      /\ redis.meta \in [Vault -> MetaShape] /\ durable \in [Vault -> MetaShape]
    BY DEF Final, Vault, Shaped, RedisShape
<1>v. PICK v \in Vault : v = req[r].vault
    BY DEF Shaped, ReqShape
<1>1. /\ Moves(r) /\ doomed' = doomed /\ redis.records' = redis.records
      /\ req'[r].at \in {"free", "setToken", "upsert", "revert", "mirror"}
  <2>1. doomed' = doomed /\ redis.records' = redis.records
    <3>1. CASE Revert(r)
      <4>1. redis' = redis \/ redis.records' = redis.records
          BY <3>1, RevertDoes DEF Rewritten, Beside
      <4> QED
          BY <3>1, <4>1, RevertDoes DEF history
    <3>2. CASE SetToken(r)
        BY <3>2, SetTokenDoes DEF Rewritten, Beside, history
    <3> QED
        BY <3>1, <3>2, ReadMetaDoes, UpsertDoes, ReadForMirrorDoes, MirrorMetaDoes
        DEF Rotation, Mirroring, Kept, history
  <2>2. Ends(r) \/ \E step \in {"setToken", "upsert", "revert", "mirror"} : GoesOn(r, step)
      BY ReadMetaDoes, SetTokenDoes, UpsertDoes, RevertDoes, ReadForMirrorDoes, MirrorMetaDoes
      DEF Rotation, Mirroring
  <2>3. Moves(r) /\ req'[r].at \in {"free", "setToken", "upsert", "revert", "mirror"}
      BY <2>2 DEF Ends, GoesOn, Free
  <2> QED
      BY <2>1, <2>3
<1>2. Counts(r)'
    BY <1>1, IdleCounts DEF Early
<1>3. redis.meta' = redis.meta \/ \E d : redis.meta' = [redis.meta EXCEPT ![v] = d]
  <2>1. CASE Revert(r)
      BY <1>v, <2>1, RevertDoes DEF Rewritten
  <2> QED
      BY <1>v, <2>1, ReadMetaDoes, SetTokenDoes, UpsertDoes, ReadForMirrorDoes, MirrorMetaDoes
      DEF Rotation, Mirroring, Kept, Rewritten
<1>4. durable' = durable \/ \E t : t # NoToken /\ NodeGets(v, t)
  <2>1. CASE Upsert(r)
      BY <1>p, <1>v, <2>1, UpsertDoes DEF Placed
  <2>2. CASE MirrorMeta(r)
      BY <1>p, <1>v, <2>2, MirrorMetaDoes DEF Relies
  <2> QED
      BY <2>1, <2>2, ReadMetaDoes, SetTokenDoes, RevertDoes, ReadForMirrorDoes
      DEF Rotation, Mirroring, Kept
<1>5. CASE v = Copy
  <2>1. req[r].op = "clone"
      BY <1>p, <1>v, <1>5 DEF Placed
  <2>2. durable'[Copy] = durable[Copy] \/ durable'[Copy].token # NoToken
      BY <1>p, <1>4, <1>5 DEF NodeGets
  <2> QED
      BY <1>1, <1>2, <2>1, <2>2, WholeStep DEF Whole
<1>6. CASE v # Copy
  <2>1. CopyKept
      BY <1>p, <1>1, <1>3, <1>4, <1>6 DEF CopyKept, NodeGets
  <2> QED
      BY <1>1, <1>2, <2>1, WholeStep
<1> QED
    BY <1>5, <1>6

LEMMA CloningWhole ==
    ASSUME Shaped, Final, Whole, NEW r \in Slot, Cloning(r)
    PROVE  Whole'
<1>p. /\ Placed(r) /\ Relies(r) /\ Counts(r) /\ Copy \in Vault /\ Source \in Vault
      /\ redis.meta \in [Vault -> MetaShape] /\ durable \in [Vault -> MetaShape]
      /\ redis.records \in [Vault -> Int] /\ req[r].count \in Int /\ Chunks \in Int
    BY LifecycleBounds DEF Final, Whole, Vault, Shaped, RedisShape, ReqShape
<1>c. /\ req[r].op = "clone"
      /\ req[r].at \in Building => req[r].vault = Copy
      /\ req[r].at \in Early => redis.records[Copy] = 0
  <2>1. req[r].at \in Building \cup {"findClone", "copy"}
      BY FindCloneDoes, ReadSourceDoes, CreateDurableDoes, CreateMetaDoes, CreateIndexDoes,
         UncreateDoes, CopyChunkDoes, HandOverDoes
      DEF Cloning, Building
  <2> QED
      BY <1>p, <2>1 DEF Placed, Counts
<1>e. Ends(r) => Moves(r) /\ Counts(r)'
    BY IdleCounts DEF Ends, Free, Early
<1>d. doomed' = doomed
    BY FindCloneDoes, ReadSourceDoes, CreateDurableDoes, CreateMetaDoes, CreateIndexDoes,
       UncreateDoes, CopyChunkDoes, HandOverDoes
    DEF Cloning, Kept, history
<1>1. CASE FindClone(r)
  <2>1. req[r].at = "findClone" /\ Kept /\ (Ends(r) \/ GoesOn(r, "exists"))
      BY <1>1, FindCloneDoes
  <2>2. GoesOn(r, "exists") => Moves(r) /\ Counts(r)'
      BY <1>c, <2>1 DEF GoesOn, Counts, Early, Kept
  <2> QED
      BY <1>d, <1>e, <2>1, <2>2, WholeStep DEF Kept, CopyKept
<1>2. CASE ReadSource(r)
  <2>1. /\ req[r].at = "copy" /\ Kept /\ GoesOn(r, "createDurable")
        /\ req'[r].count = redis.records[Source]
      BY <1>2, ReadSourceDoes
  <2>2. Moves(r) /\ Counts(r)'
      BY <1>c, <2>1 DEF GoesOn, Counts, Early, Kept, Whole
  <2> QED
      BY <1>d, <2>1, <2>2, WholeStep DEF Kept, CopyKept
<1>3. CASE CreateDurable(r)
  <2>1. req[r].at = "createDurable" /\ redis' = redis
      BY <1>3, CreateDurableDoes
  <2>2. CASE Ends(r) /\ durable' = durable
      BY <1>d, <1>e, <2>1, <2>2, WholeStep DEF CopyKept
  <2>3. CASE GoesOn(r, "createMeta") /\ req'[r].count = req[r].count
    <3>1. redis.records[Copy] = 0
        BY <1>c, <2>1 DEF Early
    <3>2. Moves(r) /\ Counts(r)'
        BY <1>p, <2>1, <2>3, <3>1 DEF GoesOn, Counts
    <3> QED
        BY <1>c, <1>d, <2>1, <3>1, <3>2, WholeStep
  <2> QED
      BY <1>3, <2>2, <2>3, CreateDurableDoes
<1>4. CASE CreateMeta(r) \/ CreateIndex(r)
  <2>1. /\ req[r].at \in {"createMeta", "createIndex"} /\ req'[r].count = req[r].count
        /\ GoesOn(r, "uncreate") \/ GoesOn(r, "createIndex") \/ GoesOn(r, "chunk")
        /\ redis.records' = redis.records
      BY <1>4, CreateMetaDoes, CreateIndexDoes DEF Carries, Rewritten, Beside
  <2>2. redis.records[Copy] = 0
      BY <1>c, <2>1 DEF Early
  <2>3. Moves(r) /\ Counts(r)'
    <3>1. req[r].count \in {0, Chunks} /\ req[r].count + 0 = req[r].count
        BY <1>p, <2>1 DEF Counts
    <3> QED
        BY <2>1, <2>2, <3>1 DEF GoesOn, Counts
  <2> QED
      BY <1>c, <1>d, <2>1, <2>2, <2>3, WholeStep
<1>5. CASE Uncreate(r)
  <2>1. req[r].at = "uncreate" /\ Ends(r) /\ redis.records' = redis.records
      BY <1>5, UncreateDoes DEF Beside
  <2>2. redis.records[Copy] = 0
      BY <1>c, <2>1 DEF Early
  <2> QED
      BY <1>c, <1>d, <1>e, <2>1, <2>2, WholeStep
<1>6. CASE CopyChunk(r)
  <2>1. req[r].at = "chunk" /\ durable' = durable
      BY <1>6, CopyChunkDoes
  <2>2. durable[Copy].token # NoToken
      BY <1>c, <1>p, <2>1 DEF Relies, Building
  <2>3. CASE redis' = redis /\ GoesOn(r, "delete")
    <3>1. Moves(r) /\ Counts(r)'
        BY <2>3, IdleCounts DEF GoesOn, Early
    <3> QED
        BY <1>d, <2>1, <2>3, <3>1, WholeStep DEF CopyKept
  <2>4. CASE /\ GoesOn(r, "chunk") /\ req'[r].count = req[r].count - 1
             /\ redis.meta' = redis.meta
             /\ redis.records' = [redis.records EXCEPT ![Copy] = @ + 1]
    <3>1. /\ redis.records'[Copy] = redis.records[Copy] + 1
          /\ redis.records'[Source] = redis.records[Source]
        BY <1>p, <2>4, TwoVaults
    <3>2. redis.records[Copy] \in Int
        BY <1>p
    <3>3. req'[r].count + redis.records'[Copy] = req[r].count + redis.records[Copy]
        BY <1>p, <2>4, <3>1, <3>2
    <3>4. Moves(r) /\ Counts(r)'
        BY <1>p, <2>1, <2>4, <3>3 DEF GoesOn, Counts, Early
    <3> QED
        BY <1>c, <1>d, <2>1, <2>2, <3>1, <3>4, WholeStep
  <2> QED
      BY <1>6, <2>3, <2>4, CopyChunkDoes
<1>7. CASE HandOver(r)
  <2>1. req[r].at = "chunk" /\ req[r].count = 0 /\ Kept /\ GoesOn(r, "copied")
      BY <1>7, HandOverDoes
  <2>2. redis.records[Copy] \in Int /\ 0 + redis.records[Copy] = redis.records[Copy]
      BY <1>p
  <2>3. Moves(r) /\ Counts(r)'
      BY <1>p, <2>1, <2>2 DEF GoesOn, Counts, Early, Kept
  <2> QED
      BY <1>d, <2>1, <2>3, WholeStep DEF Kept, CopyKept
<1> QED
    BY <1>1, <1>2, <1>3, <1>4, <1>5, <1>6, <1>7 DEF Cloning

LEMMA StepWhole ==
    ASSUME Shaped, Final, Whole, [Next]_vars
    PROVE  Whole'
<1>1. ASSUME NEW r \in Slot, Credentials(r) \/ Codes(r)
      PROVE  Whole'
  <2>1. /\ redis.meta' = redis.meta /\ redis.records' = redis.records
        /\ durable' = durable /\ doomed' = doomed
      BY <1>1, IssuePairDoes, FindPairDoes, RedeemDoes, ReadGenerationDoes, SetTicketDoes,
         NameCodeDoes, ListCodeDoes, UnlistDoes, UnnameDoes
      DEF Credentials, Codes, Kept, Aside, history
  <2>2. \/ Ends(r)
        \/ \E step \in {"redeem", "setTicket", "list", "unname"} : GoesOn(r, step)
      BY <1>1, IssuePairDoes, FindPairDoes, RedeemDoes, ReadGenerationDoes, SetTicketDoes,
         NameCodeDoes, ListCodeDoes, UnlistDoes, UnnameDoes
      DEF Credentials, Codes
  <2>3. Moves(r) /\ Counts(r)'
      BY <2>2, IdleCounts DEF Ends, GoesOn, Free, Early
  <2> QED
      BY <2>1, <2>3, WholeStep DEF CopyKept
<1>2. ASSUME NEW r \in Slot, Crash(r)
      PROVE  Whole'
  <2>1. Moves(r) /\ Counts(r)'
      BY <1>2, CrashDoes, IdleCounts DEF Ends, Free, Early
  <2> QED
      BY <1>2, <2>1, CrashDoes, WholeStep DEF CopyKept
<1>3. CASE LoseRedis
  <2>1. /\ redis.meta'[Copy].token = NoToken
        /\ redis.records'[Source] = 0 /\ redis.records'[Copy] = 0 /\ req' = req
      BY <1>3, LoseRedisDoes DEF Vault, NoMeta
  <2> QED
      BY <2>1 DEF Whole, Counts, Admits
<1>4. CASE UNCHANGED <<redis.meta, redis.records, durable, req, doomed>>
    BY <1>4 DEF Whole, Counts
<1>5. Expire \/ UNCHANGED vars => UNCHANGED <<redis.meta, redis.records, durable, req, doomed>>
    BY ExpireDoes DEF vars, history
<1> QED
    BY <1>1, <1>2, <1>3, <1>4, <1>5, ExistenceWhole, DeletionWhole, RotationWhole, CloningWhole
    DEF Next

\* Whoever gets the credentials of a copy gets a whole one, for a vault of any size and
\* wherever a batch fails, the process dies or Redis loses its data.
THEOREM HandedOverWhole ==
    ASSUME ~ Interleaved
    PROVE  Spec => []CopiesAreWhole
<1>1. Init => Whole
  <2> SUFFICES ASSUME Init
               PROVE  Whole
      OBVIOUS
  <2>1. redis.records = [EmptyRedis.records EXCEPT ![Source] = Chunks]
      BY DEF Init, EmptyRedis
  <2>2. redis.records[Source] = Chunks /\ redis.records[Copy] = 0
      BY <2>1, TwoVaults DEF EmptyRedis, Vault
  <2>3. \A r \in Slot : req[r].at = "free"
      BY DEF Init, Free
  <2> QED
      BY <2>2, <2>3 DEF Whole, Counts, Early
<1>2. Shaped /\ Final /\ Whole /\ [Next]_vars => Shaped' /\ Final' /\ Whole'
    BY StepShaped, StepFinal, StepWhole
<1>3. Whole => CopiesAreWhole
    BY DEF Whole, Counts, CopiesAreWhole, At
<1> QED
    BY <1>1, <1>2, <1>3, InitShaped, InitFinal, PTL DEF Spec
=============================================================================
