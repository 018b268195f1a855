----------------------------- MODULE LocalEngine -----------------------------
(***************************************************************************)
(* The browser's record store (localNgEngine.ts) in the tabs of one origin: *)
(* edits and their undo, the BroadcastChannel that carries them to the     *)
(* other tabs, batches and snapshots from the vault, and localStorage,     *)
(* where every record has a key of its own and one more key lists them.    *)
(* The tabs share localStorage without a lock, and each writes the list    *)
(* from what it knows itself.                                              *)
(*                                                                         *)
(* One datalet and one shape.  A tab runs one task at a time; saving is    *)
(* one task, but other tabs run between two of its writes.                 *)
(***************************************************************************)
EXTENDS PatchAlgebra, SequencesExt

CONSTANTS
    Tab,
    Stored,         \* what localStorage holds in the beginning
    EditOf,         \* EditOf[t]: the batches that are made in tab t
    Incoming,       \* the snapshots and backups that come from elsewhere
    UndoLimit,      \* UNDO_LIMIT
    MaxOps,         \* model bound: edits, undos, batches and snapshots
    MaxFaults,      \* model bound: failing saves and killed tabs
    NoTarget        \* no run of edits to one property

\* Records whose identity is not in order are refused wherever they come from.
FullRecord == {r \in Record : r.identity = "full"}
Store == [Subject -> FullRecord \cup {Absent}]
Nothing == [s \in Subject |-> Absent]

ASSUME NamesAreFinite == IsFiniteSet(Subject) /\ IsFiniteSet(Scalar) /\ IsFiniteSet(SetField)
ASSUME NoTargetIsNoField == NoTarget \notin Field
ASSUME StoredIsStore == Stored \in Store /\ Incoming \subseteq Store
ASSUME EditsArePatches == \A t \in Tab : EditOf[t] \subseteq Seq(Patch)
ASSUME EngineBounds ==
    UndoLimit \in Nat \ {0} /\ MaxOps \in Nat /\ MaxFaults \in Nat

VARIABLES
    disk,       \* localStorage: the record under each key, and the list
    state,      \* "closed", "open", or "leaving": about to reload
    store,      \* the records in memory
    dirty,      \* dirtyIds: records not saved
    known,      \* recordByteLengths: records this tab takes to be on disk
    saving,     \* persistNow in progress, and what it has yet to write
    paused,     \* persistenceDisabled
    inbox,      \* messages of the channel not handled yet
    undo,       \* the undo stack: inverse batches, newest last
    run,        \* the property whose edits continue the newest entry
    before,     \* history: for each entry, the records before its edits and
                \* the cells that others have changed since
    raced,      \* history: a tab came, went or lost its records, or met a snapshot,
                \* while there were changes unsaved or unread
    contested,  \* history: places of records that two tabs changed at once, or that
                \* an undo brought back over what others had made of them
    ops, faults

memory == <<store, dirty>>
saves == <<known, saving, paused>>
undoing == <<undo, run, before>>
counters == <<ops, faults>>
history == <<raced, contested>>
vars == <<disk, state, memory, saves, inbox, undoing, history, counters>>

Target == (Subject \X Scalar) \cup {NoTarget}
Places == Subject \X (Field \cup {NoTarget})
NotSaving == [on |-> FALSE, writes |-> {}, list |-> {}, relist |-> FALSE]

Open == {t \in Tab : state[t] # "closed"}
Free(t) == state[t] = "open" /\ ~saving[t].on
Loaded == [s \in Subject |-> IF s \in disk.list THEN disk.records[s] ELSE Absent]
Present(st) == {s \in Subject : st[s] # Absent}

\* Nothing unsaved, unread or under way in a tab; or in any of them.
AtRest(t) == dirty[t] = {} /\ inbox[t] = <<>> /\ ~paused[t] /\ ~saving[t].on
Settled == \A t \in Open : AtRest(t)

TypeOK ==
    /\ disk \in [records : Store, list : SUBSET Subject]
    /\ state \in [Tab -> {"closed", "open", "leaving"}]
    /\ store \in [Tab -> Store]
    /\ dirty \in [Tab -> SUBSET Subject] /\ known \in [Tab -> SUBSET Subject]
    /\ saving \in [Tab -> [on : BOOLEAN, writes : SUBSET Subject,
                          list : SUBSET Subject, relist : BOOLEAN]]
    /\ paused \in [Tab -> BOOLEAN]
    /\ \A t \in Tab : \A i \in DOMAIN inbox[t] : inbox[t][i].snapshots \in Store
    /\ undo \in [Tab -> Seq(Seq(Patch))] /\ run \in [Tab -> Target]
    /\ before \in [Tab -> Seq([store : Store, foreign : SUBSET Places])]
    /\ \A t \in Tab : Len(undo[t]) <= UndoLimit /\ Len(before[t]) = Len(undo[t])
    /\ raced \in BOOLEAN /\ contested \subseteq Places
    /\ ops \in 0 .. MaxOps /\ faults \in 0 .. MaxFaults

Init ==
    /\ disk = [records |-> Stored, list |-> Present(Stored)]
    /\ state = [t \in Tab |-> "closed"]
    /\ store = [t \in Tab |-> Nothing]
    /\ dirty = [t \in Tab |-> {}] /\ known = [t \in Tab |-> {}]
    /\ saving = [t \in Tab |-> NotSaving]
    /\ paused = [t \in Tab |-> FALSE]
    /\ inbox = [t \in Tab |-> <<>>]
    /\ undo = [t \in Tab |-> <<>>] /\ run = [t \in Tab |-> NoTarget]
    /\ before = [t \in Tab |-> <<>>]
    /\ raced = FALSE /\ contested = {} /\ ops = 0 /\ faults = 0

-----------------------------------------------------------------------------
(* Records and batches. *)

\* The place in a record a patch is about; no field for the record itself.
Place(p) == <<p.on, IF "prop" \in DOMAIN p THEN p.prop ELSE NoTarget>>
OnRoot(p) == p.op \in {"create", "drop"}
Rooted(b, s) == \E p \in Range(b) : p.on = s /\ OnRoot(p)

\* snapshotPatches: a record as a batch.
ScalarPatches(s, r) ==
    SetToSeq({Assign(s, f, r.scalar[f]) : f \in {g \in Scalar : r.scalar[g] # Missing}})
MembersPatches(s, r) ==
    SetToSeq({Insert(s, f, r.members[f]) : f \in {g \in SetField : r.members[g] # {}}})
Whole(s, r) == <<Create(s), Identify(s)>> \o ScalarPatches(s, r) \o MembersPatches(s, r)

Joined(S, Batch(_)) == FlattenSeq([i \in DOMAIN SetToSeq(S) |-> Batch(SetToSeq(S)[i])])

\* omitDuplicateCreations: nothing is done to a record that is there by a batch
\* that creates it.
Creates(b, s) == Create(s) \in Range(b)
WithoutDuplicates(b, st) ==
    Restrict(b, {i \in DOMAIN b : ~(st[b[i].on] # Absent /\ Creates(b, b[i].on))})

\* isNoOpPatch.
NoOp(p, st) ==
    LET r == st[p.on]
    IN  IF OnRoot(p) \/ r = Absent THEN p.op = "drop" /\ r = Absent
        ELSE CASE p.op = "insert" -> p.value \subseteq r.members[p.prop]
               [] p.op = "discard" -> p.value \cap r.members[p.prop] = {}
               [] p.op = "assign" -> r.scalar[p.prop] = p.value
               [] p.op = "erase" -> p.prop \in Scalar /\ r.scalar[p.prop] = Missing
               [] OTHER -> FALSE

\* batchIsInert: set patches one by one, of the others the last for each place.
Inert(b, st) ==
    \A i \in DOMAIN b :
        \/ NoOp(b[i], st)
        \/ ~IsSetPatch(b[i]) /\ \E j \in DOMAIN b : j > i /\ Place(b[j]) = Place(b[i])

\* inversePatchesFor: for each record the batch names, from what it is now.
FieldInverse(s, f, r) ==
    <<Erase(s, f)>> \o
    (IF f \in Scalar THEN IF r.scalar[f] = Missing THEN <<>> ELSE <<Assign(s, f, r.scalar[f])>>
     ELSE IF r.members[f] = {} THEN <<>> ELSE <<Insert(s, f, r.members[f])>>)

RecordInverse(b, s, r) ==
    IF r = Absent THEN <<Drop(s)>>
    ELSE IF Rooted(b, s) THEN <<Drop(s)>> \o Whole(s, r)
    ELSE LET F == {f \in Field : \E p \in Range(b) : Place(p) = <<s, f>>}
             OfField(f) == FieldInverse(s, f, r)
         IN  Joined(F, OfField)

InverseOf(b, st) ==
    LET OfRecord(s) == RecordInverse(b, s, st[s])
    IN  Joined(Touched(b), OfRecord)

\* singleFieldTarget.
SingleField(b) ==
    LET places == {Place(b[i]) : i \in DOMAIN b}
    IN  IF Cardinality(places) = 1 /\ places \subseteq Subject \X Scalar
        THEN CHOOSE c \in places : TRUE ELSE NoTarget

-----------------------------------------------------------------------------
(* What the tasks of a tab have in common. *)

At(st, c) ==
    IF st[c[1]] = Absent THEN {}
    ELSE IF c[2] = NoTarget THEN {NoTarget}
    ELSE IF c[2] \in Scalar THEN {st[c[1]].scalar[c[2]]} ELSE {st[c[1]].members[c[2]]}
Differ(st1, st2) == {c \in Places : At(st1, c) # At(st2, c)}

\* applyPatchesToStore, which remembers what to save.
Applied(t, b) ==
    /\ store' = [store EXCEPT ![t] = ApplyPatches(b, @, BrowserFresh)]
    /\ dirty' = [dirty EXCEPT ![t] = @ \cup Touched(b)]

\* postCrossTabPatches: with the records as they are after the batch.
Message(b, st) ==
    [patches |-> b, whole |-> FALSE,
     snapshots |-> [s \in Subject |-> IF s \in Touched(b) THEN st[s] ELSE Absent]]
Posted(t, m) ==
    inbox' = [u \in Tab |-> IF u \in Open \ {t} THEN Append(inbox[u], m) ELSE inbox[u]]

\* The change that was made is somebody else's (history).
Foreign(t) ==
    before' = [before EXCEPT ![t] =
        [i \in DOMAIN before[t] |->
            [before[t][i] EXCEPT !.foreign = @ \cup Differ(store[t], store'[t])]]]

Alone(t) == Open \subseteq {t}
SnapshotUnread(t) == \E m \in Range(inbox[t]) : m.whole
Racing(race) == raced' = (raced \/ race)

\* Components and the vault change records that are there, or create them.
Fits(b, st) == \A s \in Touched(b) : st[s] # Absent \/ Creates(b, s)

\* Where two batches get in each other's way: everywhere in a record that one of
\* them makes or deletes, else in the properties that both change.
Met(b, c) ==
    {x \in Places :
        /\ x[1] \in Touched(b) \cap Touched(c)
        /\ \/ Rooted(b, x[1]) \/ Rooted(c, x[1])
           \/ x[2] \in Field /\ \E p \in Range(b), q \in Range(c) : Place(p) = x /\ Place(q) = x}

\* What the batch b changes in t meets in the changes t has not read, or restores
\* over a record that is there, which other tabs ignore (omitDuplicateCreations).
Contesting(t, b) ==
    contested' = contested
        \cup (UNION {Met(b, m.patches) : m \in Range(inbox[t])})
        \cup {x \in Places : store[t][x[1]] # Absent /\ Creates(b, x[1])}

Operation(t) ==
    Free(t) /\ ops < MaxOps /\ ops' = ops + 1

-----------------------------------------------------------------------------
(* graph_orm_update and undoLastLocalChange. *)

\* Mutant of Pushed: edits of any one property continue the run.
PushedAnyway(t, entry, b, soon) ==
    LET target == SingleField(b)
        continues == target # NoTarget /\ run[t] # NoTarget /\ soon /\ undo[t] # <<>>
        Kept(s) == IF Len(s) > UndoLimit THEN Tail(s) ELSE s
    IN  /\ run' = [run EXCEPT ![t] = target]
        /\ IF continues THEN UNCHANGED <<undo, before>>
           ELSE /\ undo' = [undo EXCEPT ![t] = Kept(Append(@, entry))]
                /\ before' = [before EXCEPT ![t] =
                      Kept(Append(@, [store |-> store[t], foreign |-> {}]))]

\* pushUndo: an edit that soon follows one of the same property is undone with it.
Pushed(t, entry, b, soon) ==
    LET target == SingleField(b)
        continues == target # NoTarget /\ target = run[t] /\ soon /\ undo[t] # <<>>
        Kept(s) == IF Len(s) > UndoLimit THEN Tail(s) ELSE s
    IN  /\ run' = [run EXCEPT ![t] = target]
        /\ IF continues THEN UNCHANGED <<undo, before>>
           ELSE /\ undo' = [undo EXCEPT ![t] = Kept(Append(@, entry))]
                /\ before' = [before EXCEPT ![t] =
                      Kept(Append(@, [store |-> store[t], foreign |-> {}]))]

Edit(t, edit, soon) ==
    LET b == WithoutDuplicates(edit, store[t])
    IN  /\ Operation(t)
        /\ DOMAIN b # {} /\ Fits(b, store[t]) /\ ~Inert(b, store[t])
        /\ Pushed(t, InverseOf(b, store[t]), b, soon)
        /\ Applied(t, b)
        /\ Posted(t, Message(b, store'[t]))
        /\ Racing(SnapshotUnread(t)) /\ Contesting(t, b)
        /\ UNCHANGED <<disk, state, saves, faults>>

Undo(t) ==
    /\ Operation(t)
    /\ undo[t] # <<>>
    /\ Applied(t, Last(undo[t]))
    /\ Posted(t, Message(Last(undo[t]), store'[t]))
    /\ undo' = [undo EXCEPT ![t] = Front(@)]
    /\ before' = [before EXCEPT ![t] = Front(@)]
    /\ run' = [run EXCEPT ![t] = NoTarget]
    /\ Racing(SnapshotUnread(t)) /\ Contesting(t, Last(undo[t]))
    /\ UNCHANGED <<disk, state, saves, faults>>

-----------------------------------------------------------------------------
(* Changes from elsewhere. *)

\* recoverMissedCreations: a record that is not here is taken whole from the message.
Missed(b, st, snapshots) == {s \in Touched(b) : st[s] = Absent /\ snapshots[s] # Absent}

Recovered(b, st, snapshots) ==
    [s \in Subject |->
        IF s \in Missed(b, st, snapshots)
        THEN After(Whole(s, snapshots[s]), s, st[s], BrowserFresh)
        ELSE After(b, s, st[s], BrowserFresh)]

\* Mutant of External: what comes from elsewhere is left to others to save.
ExternalUntracked(t, patches, snapshots) ==
    LET b == WithoutDuplicates(patches, store[t])
    IN  /\ store' = [store EXCEPT ![t] = Recovered(b, @, snapshots)]
        /\ UNCHANGED dirty

\* applyExternalPatches, relayed or not.
External(t, patches, snapshots) ==
    LET b == WithoutDuplicates(patches, store[t])
    IN  /\ store' = [store EXCEPT ![t] = Recovered(b, @, snapshots)]
        /\ dirty' = [dirty EXCEPT ![t] = @ \cup Touched(b)]

\* applyRemoteSyncPatches.
Remote(t, edit) ==
    LET b == WithoutDuplicates(edit, store[t])
    IN  /\ Operation(t)
        /\ DOMAIN b # {} /\ Fits(b, store[t])
        /\ External(t, edit, Nothing)
        /\ Foreign(t)
        /\ Posted(t, Message(b, store'[t]))
        /\ Racing(SnapshotUnread(t)) /\ Contesting(t, b)
        /\ UNCHANGED <<disk, state, saves, undo, run, faults>>

\* A snapshot in place of all records; applied as removals and whole records.
Replaced(t, st) ==
    /\ store' = [store EXCEPT ![t] = st]
    /\ dirty' = [dirty EXCEPT ![t] = @ \cup Present(store[t]) \cup Present(st)]

\* reconcileGraphSnapshot.
Adopt(t, st) ==
    /\ Operation(t)
    /\ Racing(~Settled)
    /\ Replaced(t, st)
    /\ Foreign(t)
    /\ Posted(t, [patches |-> <<>>, whole |-> TRUE, snapshots |-> st])
    /\ UNCHANGED <<disk, state, saves, undo, run, contested, faults>>

\* Mutant of Receive: the batch is applied to records that are not here.
ReceiveUnrecovered(t) ==
    LET m == Head(inbox[t])
    IN  /\ Free(t) /\ inbox[t] # <<>>
        /\ inbox' = [inbox EXCEPT ![t] = Tail(@)]
        /\ IF m.whole THEN Replaced(t, m.snapshots)
           ELSE External(t, m.patches, Nothing)
        /\ Foreign(t)
        /\ UNCHANGED <<disk, state, saves, undo, run, history, counters>>

\* onChannelMessage.
Receive(t) ==
    LET m == Head(inbox[t])
    IN  /\ Free(t) /\ inbox[t] # <<>>
        /\ inbox' = [inbox EXCEPT ![t] = Tail(@)]
        /\ IF m.whole THEN Replaced(t, m.snapshots)
           ELSE External(t, m.patches, m.snapshots)
        /\ Foreign(t)
        /\ UNCHANGED <<disk, state, saves, undo, run, history, counters>>

-----------------------------------------------------------------------------
(* Saving. *)

\* Records to be written, and what the list becomes.
Writes(t, d, st) == {s \in d : st[s] # Absent \/ s \in known[t]}
NextList(t, d, st) == (known[t] \ d) \cup {s \in d : st[s] # Absent}

\* persistNow begins; the list is written only if it becomes another one than this
\* tab knows.
Begin(t, d, st) ==
    saving' = [saving EXCEPT ![t] =
        [on |-> TRUE, writes |-> Writes(t, d, st), list |-> NextList(t, d, st),
         relist |-> NextList(t, d, st) # known[t]]]

\* The timer, the page being hidden or left.
Persist(t) ==
    /\ Free(t)
    /\ dirty[t] # {} /\ ~paused[t]
    /\ Begin(t, dirty[t], store[t])
    /\ UNCHANGED <<disk, state, memory, known, paused, inbox, undoing, history, counters>>

WriteRecord(t) ==
    /\ saving[t].on
    /\ \E s \in saving[t].writes :
          /\ disk' = [disk EXCEPT !.records[s] = store[t][s]]
          /\ known' = [known EXCEPT ![t] = IF store[t][s] = Absent THEN @ \ {s} ELSE @ \cup {s}]
          /\ saving' = [saving EXCEPT ![t].writes = @ \ {s}]
    /\ UNCHANGED <<state, memory, paused, inbox, undoing, history, counters>>

\* The list comes last.
WriteList(t) ==
    /\ saving[t].on /\ saving[t].writes = {}
    /\ disk' = IF saving[t].relist THEN [disk EXCEPT !.list = saving[t].list] ELSE disk
    /\ dirty' = [dirty EXCEPT ![t] = {}]
    /\ saving' = [saving EXCEPT ![t] = NotSaving]
    /\ UNCHANGED <<state, store, known, paused, inbox, undoing, history, counters>>

\* Mutant of SaveFails: what could not be written is forgotten.
SaveFailsClean(t) ==
    /\ saving[t].on /\ faults < MaxFaults /\ faults' = faults + 1
    /\ Racing(~Alone(t))
    /\ paused' = [paused EXCEPT ![t] = TRUE]
    /\ saving' = [saving EXCEPT ![t] = NotSaving]
    /\ dirty' = [dirty EXCEPT ![t] = {}]
    /\ UNCHANGED <<disk, state, store, known, inbox, undoing, contested, ops>>

\* Too much to save, or the browser refuses one of the writes: saving is over for
\* this page.
SaveFails(t) ==
    /\ saving[t].on /\ faults < MaxFaults /\ faults' = faults + 1
    /\ Racing(~Alone(t))
    /\ paused' = [paused EXCEPT ![t] = TRUE]
    /\ saving' = [saving EXCEPT ![t] = NotSaving]
    /\ UNCHANGED <<disk, state, memory, known, inbox, undoing, contested, ops>>

-----------------------------------------------------------------------------
(* Pages. *)

\* loadStore; nothing is undone beyond a page.
OpenTab(t) ==
    /\ state[t] = "closed"
    /\ Racing(~Settled)
    /\ state' = [state EXCEPT ![t] = "open"]
    /\ store' = [store EXCEPT ![t] = Loaded]
    /\ known' = [known EXCEPT ![t] = Present(Loaded)]
    /\ UNCHANGED <<disk, dirty, saving, paused, inbox, undoing, contested, counters>>

Gone(t) ==
    /\ state' = [state EXCEPT ![t] = "closed"]
    /\ store' = [store EXCEPT ![t] = Nothing]
    /\ dirty' = [dirty EXCEPT ![t] = {}]
    /\ known' = [known EXCEPT ![t] = {}]
    /\ saving' = [saving EXCEPT ![t] = NotSaving]
    /\ paused' = [paused EXCEPT ![t] = FALSE]
    /\ inbox' = [inbox EXCEPT ![t] = <<>>]
    /\ undo' = [undo EXCEPT ![t] = <<>>]
    /\ run' = [run EXCEPT ![t] = NoTarget]
    /\ before' = [before EXCEPT ![t] = <<>>]
    /\ UNCHANGED <<disk, contested>>

\* pagehide has saved what can be saved; a reload is this and OpenTab.
Close(t) ==
    /\ t \in Open /\ ~saving[t].on
    /\ dirty[t] = {} \/ paused[t]
    /\ Racing(~Alone(t) /\ ~Settled)
    /\ Gone(t)
    /\ UNCHANGED counters

Kill(t) ==
    /\ t \in Open
    /\ faults < MaxFaults /\ faults' = faults + 1
    /\ Racing(~Alone(t) /\ ~Settled)
    /\ Gone(t)
    /\ UNCHANGED ops

\* replaceGraphAndReload: memory, then localStorage, then a reload.  The other tabs
\* are not told.
Replace(t, st) ==
    /\ Racing(~Alone(t))
    /\ Replaced(t, st)
    /\ state' = [state EXCEPT ![t] = "leaving"]
    /\ IF paused[t] THEN UNCHANGED saving ELSE Begin(t, dirty'[t], st)
    /\ Foreign(t)
    /\ UNCHANGED <<disk, known, paused, inbox, undo, run, contested, faults>>

\* importGraphBackup, and evictGraph, whose callers reload.
Import(t) == Operation(t) /\ \E st \in Incoming : Replace(t, st)
Evict(t) == Operation(t) /\ Replace(t, Nothing)

-----------------------------------------------------------------------------
Change(t) ==
    \/ \E edit \in EditOf[t] :
          Remote(t, edit) \/ \E soon \in BOOLEAN : Edit(t, edit, soon)
    \/ Undo(t) \/ Receive(t)
    \/ \E st \in Incoming : Adopt(t, st)
    \/ Import(t) \/ Evict(t)
Save(t) == Persist(t) \/ WriteRecord(t) \/ WriteList(t) \/ SaveFails(t)
Page(t) == OpenTab(t) \/ Close(t) \/ Kill(t)

Next == \E t \in Tab : Change(t) \/ Save(t) \/ Page(t)

Spec == Init /\ [][Next]_vars

-----------------------------------------------------------------------------
(* Properties. *)

\* When every tab has saved and read what there is, a reload would give every tab
\* the records it shows: the tabs agree, and none has written the list over what
\* another one put there, though each writes it from its own knowledge.  Places
\* that two tabs changed at once are excepted (the channel does not order their
\* batches: see contested), and so are tabs that come or go, lose their records or
\* take a snapshot in the middle of this (see raced).
SettledIsSaved ==
    Settled /\ ~raced => \A t \in Open : Differ(store[t], Loaded) \subseteq contested

\* The same of tabs that come and go as they like, which does not hold.
SettledAlwaysSaved ==
    Settled => \A t \in Open : Differ(store[t], Loaded) \subseteq contested

\* In the only tab a record that is not waiting to be saved is what a reload
\* gives, at every point of a save, and after one that failed half way.
CleanIsSaved ==
    \A t \in Tab : ~raced /\ Open = {t} =>
        \A x \in Differ(store[t], Loaded) : x[1] \in dirty[t] \/ x \in contested

\* A tab that came too late for a record has all of it, and not a fragment, once
\* it hears of any change to it.
LateTabCatchesUp ==
    [][\A t \in Tab : inbox[t] # <<>> /\ inbox'[t] = Tail(inbox[t]) /\ state'[t] = "open" =>
          \A s \in Subject :
              LET theirs == Head(inbox[t]).snapshots[s]
              IN  store[t][s] = Absent /\ theirs # Absent => store'[t][s] = theirs]_vars

\* The stack's newest k entries applied to the records st, the newest first.
Unwind(stack, st, k) ==
    LET past[i \in Nat] ==
            IF i = 0 THEN st
            ELSE ApplyPatches(stack[Len(stack) - i + 1], past[i - 1], BrowserFresh)
    IN  past[k]

\* Undoing the newest k edits of a tab gives back, in every place that nobody else
\* has changed since, what was there before them; runs of edits count as one.
UndoUnwinds ==
    \A t \in Tab : \A k \in 1 .. Len(undo[t]) :
        LET past == before[t][Len(undo[t]) - k + 1]
        IN  Differ(Unwind(undo[t], store[t], k), past.store) \subseteq past.foreign
=============================================================================
