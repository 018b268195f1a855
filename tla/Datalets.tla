------------------------------ MODULE Datalets ------------------------------
(***************************************************************************)
(* The datalets of one browser: the registry in localStorage that holds    *)
(* the only copy of each vault's token (datalets.ts), the guarded switch   *)
(* from one to another, of which only the open one is resident             *)
(* (dataletSwitch.ts), pairing, leaving and rotation (remoteSyncEngine.ts, *)
(* SyncSettings.tsx), and erasure (dataletRemoval.ts).                     *)
(*                                                                         *)
(* One page.  Its flows wait for the server in between their steps, where  *)
(* the others and the user go on; a page that is reloaded forgets all of   *)
(* them.  What a user has made is a set of items; the records the app      *)
(* makes by itself (BOOTSTRAP_ONLY_IDS) are not among them.  A vault is    *)
(* what its requests make of it: VaultLifecycle and VaultStore have more.  *)
(***************************************************************************)
EXTENDS Naturals, Sequences, SequencesExt, FiniteSets

CONSTANTS
    Vault,          \* vault ids; also the graphs of their records
    Elsewhere,      \* the vaults that exist in the beginning
    Uuid,           \* other ids of registry entries; a model bound too: see Leave
    Local,          \* the graph of this device
    NoVault,        \* of an entry that is not paired
    Item,           \* what the user makes
    Budget,         \* retries of fetchVaultSnapshotSettled
    MaxToken,       \* model bound: rotations
    MaxGestures,    \* model bound: what the user does, other than making items
    MaxFaults       \* model bound: closed pages, failed requests, bad snapshots

ASSUME ElsewhereAreVaults == Elsewhere \subseteq Vault
ASSUME VaultsAreNotLocal == Local \notin Vault /\ NoVault \notin Vault
ASSUME IdsAreThere == Uuid # {}
ASSUME DataletBounds ==
    Budget \in Nat /\ MaxToken \in Nat \ {0} /\ MaxGestures \in Nat /\ MaxFaults \in Nat

VARIABLES
    registry,       \* the entries, and the id of the active one
    page,           \* the vault the page was loaded for, and its token
    disk,           \* the items of each graph in this browser
    outbox,         \* the items not sent, of each vault
    server,         \* of each vault: its state, token, items taken and items shown
    flow,           \* of each kind of flow: how far it is
    made,           \* the items made so far
    parted,         \* history: items the user gave up: erased, made in an erased vault,
                    \* or replaced by a vault joined
    hasty,          \* history: an item was made in an unpaired datalet on its way out, a
                    \* snapshot replaced items still queued, a rotation was not
                    \* answered, or a switch ended in an eviction
    doubled,        \* history: two entries came to share an id
    gestures, faults

browser == <<registry, page, disk, outbox>>
history == <<parted, hasty, doubled>>
bounds == <<gestures, faults>>
vars == <<browser, server, flow, made, history, bounds>>

Kind == {"open", "add", "pair", "rotate", "erase"}
Id == Vault \cup Uuid
Graph == Vault \cup {Local}
Token == 0 .. MaxToken

Entry == [id : Id, vault : Vault \cup {NoVault}, token : Token, archived : BOOLEAN]
Flow == [step : {"idle", "asked", "fetch"}, id : Id, vault : Vault \cup {NoVault},
         token : Token, created : BOOLEAN, tries : 0 .. Budget]

LocalEntry(id) == [id |-> id, vault |-> NoVault, token |-> 0, archived |-> FALSE]
PairedEntry(id, v, token) == [LocalEntry(id) EXCEPT !.vault = v, !.token = token]
Unused == {u \in Uuid : \A i \in DOMAIN registry.entries : registry.entries[i].id # u}
NewId == CHOOSE u \in Unused : TRUE
Idle == [step |-> "idle", id |-> CHOOSE u \in Uuid : TRUE, vault |-> NoVault,
         token |-> 0, created |-> FALSE, tries |-> 0]
NoVaultYet == [state |-> "none", token |-> 0, taken |-> {}, shown |-> {}]

TypeOK ==
    /\ registry \in [active : Id, entries : Seq(Entry)]
    /\ page \in [vault : Vault \cup {NoVault}, token : Token]
    /\ disk \in [Graph -> SUBSET Item]
    /\ outbox \in [Vault -> SUBSET Item]
    /\ server \in [Vault -> [state : {"none", "live", "erased"}, token : Token,
                            taken : SUBSET Item, shown : SUBSET Item]]
    /\ \A v \in Vault : server[v].shown \subseteq server[v].taken
    /\ flow \in [Kind -> Flow]
    /\ made \subseteq Item /\ parted \subseteq made
    /\ hasty \in BOOLEAN /\ doubled \in BOOLEAN
    /\ gestures \in 0 .. MaxGestures /\ faults \in 0 .. MaxFaults

\* A browser that was never used, or one that was paired before there was a registry.
Init ==
    /\ server = [v \in Vault |-> IF v \in Elsewhere
                                 THEN [NoVaultYet EXCEPT !.state = "live", !.token = 1]
                                 ELSE NoVaultYet]
    /\ \E e \in {LocalEntry(Idle.id)} \cup {PairedEntry(v, v, 1) : v \in Elsewhere} :
          /\ registry = [active |-> e.id, entries |-> <<e>>]
          /\ page = [vault |-> e.vault, token |-> e.token]
    /\ disk = [g \in Graph |-> {}] /\ outbox = [v \in Vault |-> {}]
    /\ flow = [k \in Kind |-> Idle]
    /\ made = {} /\ parted = {} /\ hasty = FALSE /\ doubled = FALSE
    /\ gestures = 0 /\ faults = 0

-----------------------------------------------------------------------------
(* The registry. *)

ActiveEntry(reg) ==
    reg.entries[SelectInSeq(reg.entries, LAMBDA e : e.id = reg.active)]
GraphOf(e) == IF e.vault = NoVault THEN Local ELSE e.vault
Holders(v) == {e \in Range(registry.entries) : e.vault = v}

\* Two entries sharing one id would make the registry ambiguous.
IdsDiffer ==
    \A i, j \in DOMAIN registry.entries :
        registry.entries[i].id = registry.entries[j].id => i = j

Updated(entries, id, New(_)) ==
    [i \in DOMAIN entries |-> IF entries[i].id = id THEN New(entries[i]) ELSE entries[i]]

\* pairActiveDatalet.
Paired(reg, v, token) ==
    LET ToVault(e) == [e EXCEPT !.vault = v, !.token = token]
    IN  [reg EXCEPT !.entries = Updated(@, reg.active, ToVault)]

\* Mutant of Unpaired: the vault's entry is not kept.
UnpairedDropping(reg) ==
    LET ToLocal(e) == LocalEntry(e.id)
    IN  [reg EXCEPT !.entries = Updated(@, reg.active, ToLocal)]

\* unpairActiveDatalet: the vault stays, archived, under a new id.
Unpaired(reg) ==
    LET ToLocal(e) == LocalEntry(e.id)
        vault == ActiveEntry(reg)
        Kept == [PairedEntry(NewId, vault.vault, vault.token) EXCEPT !.archived = TRUE]
    IN  [reg EXCEPT !.entries = Append(Updated(@, reg.active, ToLocal), Kept)]

\* setActiveDatalet: only one that is listed.
Activated(id) ==
    IF \E e \in Range(registry.entries) : e.id = id
    THEN [registry EXCEPT !.active = id] ELSE registry

\* addDatalet: one entry for each vault.
Added(v, token) ==
    IF Holders(v) # {} THEN registry
    ELSE [registry EXCEPT !.entries = Append(@, PairedEntry(v, v, token))]

Archived(reg, id, put) ==
    LET Marked(e) == [e EXCEPT !.archived = put]
    IN  IF put /\ id = reg.active THEN reg
        ELSE [reg EXCEPT !.entries = Updated(@, id, Marked)]

\* The entries without those of one id.
Without(entries, id) ==
    LET kept[n \in 0 .. Len(entries)] ==
            IF n = 0 THEN <<>>
            ELSE IF entries[n].id = id THEN kept[n - 1]
            ELSE Append(kept[n - 1], entries[n])
    IN  kept[Len(entries)]

\* forgetDatalet: the last one stays, and there is always an active one.
Forgotten(id) ==
    LET left == Without(registry.entries, id)
    IN  IF left = <<>> THEN registry
        ELSE [entries |-> left,
              active |-> IF \E e \in Range(left) : e.id = registry.active
                         THEN registry.active ELSE Head(left).id]

-----------------------------------------------------------------------------
(* Making items, and the vault they go to. *)

\* The snapshot of the datalet to open next is on its way.
OnItsWayOut == \E k \in {"open", "add"} : flow[k].step = "fetch"

\* An edit, and its place in the outbox if the page was loaded for a vault.
Make(i) ==
    /\ i \notin made /\ made' = made \cup {i}
    /\ disk' = [disk EXCEPT ![GraphOf(page)] = @ \cup {i}]
    /\ outbox' = IF page.vault = NoVault THEN outbox
                 ELSE [outbox EXCEPT ![page.vault] = @ \cup {i}]
    /\ hasty' = (hasty \/ (page.vault = NoVault /\ OnItsWayOut))
    /\ parted' = IF page.vault # NoVault /\ server[page.vault].state = "erased"
                 THEN parted \cup {i} ELSE parted
    /\ UNCHANGED <<registry, page, server, flow, doubled, bounds>>

Answers(v, token) == server[v].state = "live" /\ server[v].token = token

\* flushOutbox; only of the open datalet.
Send(i) ==
    /\ page.vault # NoVault /\ i \in outbox[page.vault]
    /\ Answers(page.vault, page.token)
    /\ outbox' = [outbox EXCEPT ![page.vault] = @ \ {i}]
    /\ server' = [server EXCEPT ![page.vault].taken = @ \cup {i}]
    /\ UNCHANGED <<registry, page, disk, flow, made, history, bounds>>

\* The materializer, one record after the other.
Show(v, i) ==
    /\ server[v].state = "live" /\ i \in server[v].taken \ server[v].shown
    /\ server' = [server EXCEPT ![v].shown = @ \cup {i}]
    /\ UNCHANGED <<browser, flow, made, history, bounds>>

-----------------------------------------------------------------------------
(* Gestures, requests and reloads. *)

Gesture == gestures < MaxGestures /\ gestures' = gestures + 1 /\ UNCHANGED faults
Fault == faults < MaxFaults /\ faults' = faults + 1 /\ UNCHANGED gestures
Switching == flow["open"].step # "idle"
Adding == flow["add"].step # "idle"

\* Mutant of CanLeave: an unpaired datalet can be left with what it holds.
CanLeaveUnpaired ==
    LET a == ActiveEntry(registry)
    IN  a.vault # NoVault => outbox[a.vault] = {}

\* canLeaveActiveDatalet: nothing that exists only here.
CanLeave ==
    LET a == ActiveEntry(registry)
    IN  IF a.vault = NoVault THEN disk[Local] = {} ELSE outbox[a.vault] = {}

Begun(k, step, id, v, token, created) ==
    flow' = [flow EXCEPT ![k] = [step |-> step, id |-> id, vault |-> v, token |-> token,
                                 created |-> created, tries |-> 0]]
Ended(k) == flow' = [flow EXCEPT ![k] = Idle]

\* window.location.reload, by flow k or by nobody's.
Reload(reg, k) ==
    /\ registry' = reg
    /\ page' = [vault |-> ActiveEntry(reg).vault, token |-> ActiveEntry(reg).token]
    /\ flow' = [f \in Kind |-> Idle]
    /\ hasty' = \/ hasty
                \/ k # "rotate" /\ flow["rotate"].step # "idle"
                \/ k \in {"open", "add", "pair"} /\ outbox[flow[k].vault] # {}
    /\ UNCHANGED doubled

ClosePage ==
    /\ Fault
    /\ Reload(registry, "none")
    /\ UNCHANGED <<disk, outbox, server, made, parted>>

\* A request that gets no answer, or a snapshot too large for this browser; with the
\* answer to a rotation the new token is lost.
RequestFails(k) ==
    /\ Fault /\ k # "erase" /\ flow[k].step # "idle"
    /\ Ended(k)
    /\ hasty' = (hasty \/ k = "rotate")
    /\ UNCHANGED <<browser, server, made, parted, doubled>>

\* A vault from POST /sync/vaults, from a COPY code, or the one a code is for: an LG1
\* code may be that of an erased one, as nobody is asked.
NewVault(v, items) ==
    /\ server[v].state = "none"
    /\ server' = [server EXCEPT ![v] = [state |-> "live", token |-> 1,
                                       taken |-> items, shown |-> {}]]
Offered(v) ==
    \/ NewVault(v, {})
    \/ \E w \in Vault : server[w].state = "live" /\ NewVault(v, server[w].taken)
    \/ (server[v].state # "none" /\ UNCHANGED server)

-----------------------------------------------------------------------------
(* Opening and adding datalets. *)

\* switchToDatalet, up to the request.
Open(e) ==
    /\ Gesture /\ ~Switching /\ ~Adding
    /\ e.id # registry.active /\ e.vault # NoVault
    /\ CanLeave
    /\ Begun("open", "fetch", e.id, e.vault, e.token, FALSE)
    /\ UNCHANGED <<browser, server, made, history>>

\* Start an empty one, or redeemDataletCode.
Add(v) ==
    /\ Gesture /\ ~Adding
    /\ CanLeave
    /\ Offered(v)
    /\ Begun("add", "asked", Idle.id, v, server'[v].token, FALSE)
    /\ UNCHANGED <<browser, made, history>>

\* adoptVaultAsDatalet: asked again whether the open one can be left.
Adopt ==
    LET f == flow["add"]
        reg == Added(f.vault, f.token)
        e == reg.entries[SelectInSeq(reg.entries, LAMBDA x : x.vault = f.vault)]
    IN  /\ f.step = "asked"
        /\ IF CanLeave
           THEN registry' = reg /\ Begun("add", "fetch", e.id, e.vault, e.token, FALSE)
           ELSE UNCHANGED registry /\ Ended("add")
        /\ doubled' = (doubled \/ ~IdsDiffer')
        /\ UNCHANGED <<page, disk, outbox, server, made, parted, hasty, bounds>>

Fetching(k) == k \in {"open", "add"} /\ flow[k].step = "fetch"
Unsettled(k) ==
    /\ k = "add" /\ flow[k].tries < Budget
    /\ server[flow[k].vault].shown # server[flow[k].vault].taken

FetchRefused(k) ==
    /\ Fetching(k) /\ ~Answers(flow[k].vault, flow[k].token)
    /\ Ended(k)
    /\ UNCHANGED <<browser, server, made, history, bounds>>

FetchAgain(k) ==
    /\ Fetching(k) /\ Answers(flow[k].vault, flow[k].token)
    /\ Unsettled(k)
    /\ flow' = [flow EXCEPT ![k].tries = @ + 1]
    /\ UNCHANGED <<browser, server, made, history, bounds>>

\* Evicted first, so that no two are in storage at once.
Left(k) ==
    LET a == ActiveEntry(registry)
    IN  IF a.id = flow[k].id THEN disk ELSE [disk EXCEPT ![GraphOf(a)] = {}]

\* adopt, from the snapshot to the reload.
Arrives(k) ==
    LET f == flow[k]
    IN  /\ Fetching(k) /\ Answers(f.vault, f.token) /\ ~Unsettled(k)
        /\ disk' = [Left(k) EXCEPT ![f.vault] = server[f.vault].shown]
        /\ Reload(Archived(Activated(f.id), f.id, FALSE), k)
        /\ UNCHANGED <<outbox, server, made, parted, bounds>>

\* The snapshot fails validation, after the eviction; the page stays.
ArrivesInvalid(k) ==
    /\ Fault
    /\ Fetching(k) /\ Answers(flow[k].vault, flow[k].token) /\ ~Unsettled(k)
    /\ disk' = Left(k)
    /\ Ended(k)
    /\ hasty' = TRUE
    /\ UNCHANGED <<registry, page, outbox, server, made, parted, doubled>>

-----------------------------------------------------------------------------
(* Pairing the open datalet, and leaving its vault. *)

PairBegins(v, created) ==
    /\ Gesture /\ page.vault = NoVault /\ flow["pair"].step = "idle"
    /\ IF created THEN NewVault(v, {}) ELSE server[v].state # "none" /\ UNCHANGED server
    /\ Begun("pair", "fetch", Idle.id, v, server'[v].token, created)
    /\ UNCHANGED <<browser, made, history>>

\* setVaultConfig: a vault made for this datalet takes its records along; a vault
\* joined replaces them.
PairEnds ==
    LET f == flow["pair"]
        carried == IF f.created THEN disk[Local] ELSE {}
    IN  /\ f.step = "fetch" /\ Answers(f.vault, f.token)
        /\ disk' = IF carried = {} THEN [disk EXCEPT ![f.vault] = server[f.vault].shown]
                   ELSE [disk EXCEPT ![Local] = {}, ![f.vault] = carried]
        /\ outbox' = [outbox EXCEPT ![f.vault] = @ \cup carried]
        /\ parted' = IF f.created THEN parted ELSE parted \cup disk[Local]
        /\ Reload(Paired(registry, f.vault, f.token), "pair")
        /\ UNCHANGED <<server, made, bounds>>

PairRefused ==
    /\ flow["pair"].step = "fetch" /\ ~Answers(flow["pair"].vault, flow["pair"].token)
    /\ Ended("pair")
    /\ UNCHANGED <<browser, server, made, history, bounds>>

\* Mutant of Leave: the records are copied and not moved.
LeaveCopies ==
    LET v == ActiveEntry(registry).vault
    IN  /\ Gesture /\ page.vault # NoVault /\ Unused # {}
        /\ disk' = IF disk[v] = {} THEN disk ELSE [disk EXCEPT ![Local] = disk[v]]
        /\ outbox' = [outbox EXCEPT ![v] = {}]
        /\ Reload(Unpaired(registry), "leave")
        /\ UNCHANGED <<server, made, parted>>

\* clearVaultConfig.
Leave ==
    LET v == ActiveEntry(registry).vault
    IN  /\ Gesture /\ page.vault # NoVault /\ Unused # {}
        /\ disk' = IF disk[v] = {} THEN disk
                   ELSE [disk EXCEPT ![v] = {}, ![Local] = disk[v]]
        /\ outbox' = [outbox EXCEPT ![v] = {}]
        /\ Reload(Unpaired(registry), "leave")
        /\ UNCHANGED <<server, made, parted>>

\* rotateVaultToken: the new token is in the answer only, until it is stored.
Rotate ==
    LET v == page.vault
    IN  /\ Gesture /\ v # NoVault /\ flow["rotate"].step = "idle"
        /\ Answers(v, ActiveEntry(registry).token) /\ server[v].token < MaxToken
        /\ server' = [server EXCEPT ![v].token = @ + 1]
        /\ Begun("rotate", "asked", Idle.id, v, server[v].token + 1, FALSE)
        /\ UNCHANGED <<browser, made, history>>

Rotated ==
    LET f == flow["rotate"]
    IN  /\ f.step = "asked"
        /\ Reload(Paired(registry, f.vault, f.token), "rotate")
        /\ UNCHANGED <<disk, outbox, server, made, parted, bounds>>

-----------------------------------------------------------------------------
(* Putting away and erasing. *)

PutAway(e, put) ==
    /\ Gesture /\ ~Switching /\ ~Adding
    /\ e.id # registry.active /\ e.archived # put
    /\ registry' = Archived(registry, e.id, put)
    /\ UNCHANGED <<page, disk, outbox, server, flow, made, history>>

\* removeDataletPermanently, up to the request; only of an archived datalet.
Erase(e) ==
    /\ Gesture /\ ~Switching /\ ~Adding
    /\ flow["erase"].step = "idle"
    /\ e.archived /\ e.id # registry.active
    /\ IF e.vault = NoVault THEN registry' = Forgotten(e.id) /\ UNCHANGED flow
       ELSE UNCHANGED registry /\ Begun("erase", "asked", e.id, e.vault, e.token, FALSE)
    /\ UNCHANGED <<page, disk, outbox, server, made, history>>

Erases(v, token) ==
    IF Answers(v, token)
    THEN /\ server' = [server EXCEPT ![v].state = "erased"]
         /\ parted' = parted \cup (made \cap (server[v].taken \cup outbox[v]))
    ELSE UNCHANGED <<server, parted>>

\* Gone, or gone already; a token that does not fit changes nothing.
EraseAnswered ==
    LET f == flow["erase"]
    IN  /\ f.step = "asked"
        /\ Erases(f.vault, f.token)
        /\ IF server'[f.vault].state = "erased" THEN registry' = Forgotten(f.id)
           ELSE UNCHANGED registry
        /\ Ended("erase")
        /\ UNCHANGED <<page, disk, outbox, made, hasty, doubled, bounds>>

\* Timed out, cancelled or cut off: the vault may be gone or not.
EraseUnanswered ==
    LET f == flow["erase"]
    IN  /\ Fault /\ f.step = "asked"
        /\ Erases(f.vault, f.token) \/ UNCHANGED <<server, parted>>
        /\ Ended("erase")
        /\ UNCHANGED <<browser, made, hasty, doubled>>

-----------------------------------------------------------------------------
Work == \E i \in Item : Make(i) \/ Send(i) \/ \E v \in Vault : Show(v, i)
Gestures ==
    \/ \E e \in Range(registry.entries) :
          Open(e) \/ Erase(e) \/ \E put \in BOOLEAN : PutAway(e, put)
    \/ \E v \in Vault : Add(v) \/ \E created \in BOOLEAN : PairBegins(v, created)
    \/ Leave \/ Rotate
Answered ==
    \/ Adopt \/ PairEnds \/ PairRefused \/ Rotated \/ EraseAnswered
    \/ \E k \in Kind : FetchRefused(k) \/ FetchAgain(k) \/ Arrives(k)
Faults ==
    \/ ClosePage \/ EraseUnanswered
    \/ \E k \in Kind : RequestFails(k) \/ ArrivesInvalid(k)

Next == Work \/ Gestures \/ Answered \/ Faults
Spec == Init /\ [][Next]_vars

-----------------------------------------------------------------------------
(* Properties. *)

\* What the user made and did not give up is in reach of this browser: in the open
\* datalet, in this device's own graph, or with a vault whose token is at hand, taken
\* by it or queued for it.
AtHand(v) ==
    /\ server[v].state = "live"
    /\ \/ \E e \in Holders(v) : e.token = server[v].token
       \/ flow["rotate"].step = "asked" /\ flow["rotate"].vault = v

WorkSurvives ==
    ~doubled /\ ~hasty => \A i \in made \ parted :
        \/ i \in disk[GraphOf(ActiveEntry(registry))] \cup disk[Local]
        \/ \E v \in Vault : AtHand(v) /\ i \in server[v].taken \cup outbox[v]

\* An entry for a vault goes only when the vault has gone: it holds the one token it
\* can be erased with.
VaultsStayErasable ==
    [][IdsDiffer => \A v \in Vault : Holders(v) # {} =>
          Holders(v)' # {} \/ server'[v].state = "erased"]_vars

\* One datalet is open, listed and not put away, and only its records are in this
\* browser, beside those in the graph of the device.
OneResident == ~doubled =>
    /\ \E e \in Range(registry.entries) : e.id = registry.active /\ ~e.archived
    /\ \A v \in Vault : disk[v] # {} => v = page.vault

\* Never evict an unpaired datalet, never with a full outbox.
NothingUnsentIsEvicted ==
    [][\A i \in made : i \in disk[GraphOf(page)] /\ (\A g \in Graph : i \notin disk'[g]) =>
          \E v \in Vault : i \in server[v].taken]_vars

\* A switch that fails leaves the datalet that is open.
FailedSwitchKeeps ==
    [][page' = page => \A i \in disk[GraphOf(page)] : i \in disk'[GraphOf(page)]]_vars
=============================================================================
