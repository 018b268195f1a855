---------------------------- MODULE RecordList ----------------------------
(***************************************************************************)
(* A data block as its reader sees it (BlockRenderer.tsx): the records of  *)
(* the block's shape, searched, sorted, cut into pages, some of them with  *)
(* their editor open.  Editing is live, so a keystroke may move the record *)
(* out of its place while its form is open; the block therefore sorts only *)
(* when something else than an open form changes the records, and puts the *)
(* records being edited back where they were when the editing began.       *)
(*                                                                         *)
(* One step is one event and the render after it.  A record is the one     *)
(* value that the block searches and sorts by; ids stand for records, and  *)
(* decide between equal values.  Filters, which a builder sets, behave     *)
(* like the reader's search; descending order, labels of references and    *)
(* what is exported or printed, which is the sorted list, are left out.    *)
(***************************************************************************)
EXTENDS Integers, FiniteSets, SequencesExt

CONSTANTS
    Record,         \* ids of the records there may be
    Value,          \* what a record holds
    Blank,          \* what a new one holds
    Search,         \* searches, each the values it finds
    PageSize        \* records on a page, 0 for one page of all

ASSUME ListAssumption ==
    /\ Record \subseteq Nat /\ IsFiniteSet(Record) /\ Value \subseteq Nat /\ Blank \in Value
    /\ Search \subseteq SUBSET Value /\ Value \in Search
    /\ PageSize \in Nat

VARIABLES
    records,        \* the subscribed records: id -> value
    visible,        \* visibleRecords: what was found, as it was last sorted
    query,          \* what the reader searches for
    page,           \* the page asked for, from 0
    open,           \* editing.keys: records whose editor is open
    order,          \* editing.order: the list when the editing began, or <<>>
    aside,          \* history: records changed by another block since the last sort
    held            \* history: the one editor, opened on the page shown, or None

editing == <<open, order>>
vars == <<records, visible, query, page, editing, aside, held>>

None == -1

Precedes(f, x, y) == f[x] < f[y] \/ (f[x] = f[y] /\ x < y)

\* The records of f that q finds, sorted.
Sorted(f, q) ==
    LET found == {r \in DOMAIN f : f[r] \in q}
        Rank(x) == Cardinality({y \in found : Precedes(f, y, x)})
    IN  [i \in 1 .. Cardinality(found) |-> CHOOSE x \in found : Rank(x) = i - 1]

Position(r) == CHOOSE i \in DOMAIN order : order[i] = r

Least(i, j) == IF i < j THEN i ELSE j

\* list with r at the place it had.
Placed(list, r) ==
    LET rest == SelectSeq(list, LAMBDA x : x # r)
    IN  InsertAt(rest, Least(Position(r), Len(rest) + 1), r)

\* orderedRecords: open records in their former places, the first of them first.
Ordered == FoldLeft(Placed, visible, SelectSeq(order, LAMBDA r : r \in open))

PageCount ==
    IF PageSize = 0 \/ Ordered = <<>> THEN 1 ELSE (Len(Ordered) + PageSize - 1) \div PageSize

\* Mutant of CurrentPage: the page asked for.
CurrentPageAsked == page

CurrentPage == Least(page, PageCount - 1)

\* The records on the screen.
Shown ==
    IF PageSize = 0 THEN ToSet(Ordered)
    ELSE {Ordered[i] : i \in {j \in DOMAIN Ordered : (j - 1) \div PageSize = CurrentPage}}

-----------------------------------------------------------------------------
Init ==
    /\ records \in UNION {[R -> Value] : R \in SUBSET Record}
    /\ query = Value
    /\ visible = Sorted(records, query)
    /\ page = 0 /\ open = {} /\ order = <<>>
    /\ aside = {} /\ held = None

\* The list is made anew.
Recomputed == visible' = Sorted(records', query') /\ aside' = {}

\* Editors of records that are gone are forgotten, and the order with the last.
Pruned ==
    /\ open' = open \cap DOMAIN records'
    /\ order' = IF open' = {} THEN <<>> ELSE order
    /\ held' = IF held \in open' THEN held ELSE None

\* A record comes, goes or changes: all the ways in which one may.
OneChanged ==
    \E r \in Record :
        \/ r \in DOMAIN records /\ records' = [x \in DOMAIN records \ {r} |-> records[x]]
        \/ \E v \in Value : records' = [x \in DOMAIN records \cup {r} |->
                                            IF x = r THEN v ELSE records[x]]

\* Patches of another tab or device.
Synced == UNCHANGED <<query, page>> /\ OneChanged /\ Recomputed /\ Pruned

\* Undo of what was done on this page, to this record or another.
Undone == UNCHANGED <<query, page>> /\ OneChanged /\ Recomputed /\ Pruned

\* A snapshot of the vault takes all records out and puts its own in.
Resynced(f) == UNCHANGED <<query, page>> /\ records' = f /\ Recomputed /\ Pruned

\* A new record is first on the first page, with its editor open.
CreateRecord(r) ==
    /\ r \notin DOMAIN records \cup ToSet(order)
    /\ records' = [x \in DOMAIN records \cup {r} |-> IF x = r THEN Blank ELSE records[x]]
    /\ order' = <<r>> \o (IF open = {} THEN visible ELSE order)
    /\ open' = open \cup {r}
    /\ page' = 0 /\ UNCHANGED query
    /\ Recomputed
    /\ held' = IF open = {} THEN r ELSE None

Open(r) ==
    /\ r \in Shown \ open
    /\ order' = IF open = {} THEN visible ELSE order
    /\ open' = open \cup {r}
    /\ held' = IF open = {} /\ page = CurrentPage THEN r ELSE None
    /\ UNCHANGED <<records, visible, query, page, aside>>

\* A keystroke in an open form.
Edit(r, v) ==
    /\ r \in Shown \cap open
    /\ records' = [records EXCEPT ![r] = v]
    /\ UNCHANGED <<visible, query, page, editing, aside, held>>

\* Mutant of Done: the list is left as it is.
DoneQuietly(r) ==
    /\ r \in Shown \cap open
    /\ open' = open \ {r}
    /\ order' = IF open' = {} THEN <<>> ELSE order
    /\ held' = None
    /\ UNCHANGED <<records, visible, query, page, aside>>

\* The form is closed, and its record goes where it belongs.
Done(r) ==
    /\ r \in Shown \cap open
    /\ open' = open \ {r}
    /\ order' = IF open' = {} THEN <<>> ELSE order
    /\ held' = None
    /\ UNCHANGED <<records, query, page>>
    /\ Recomputed

\* A record being edited has no button for it.
Delete(r) ==
    /\ r \in Shown \ open
    /\ records' = [x \in DOMAIN records \ {r} |-> records[x]]
    /\ UNCHANGED <<query, page>>
    /\ Recomputed /\ Pruned

SearchFor(q) ==
    /\ q # query
    /\ query' = q /\ page' = 0
    /\ held' = None
    /\ UNCHANGED <<records, editing>>
    /\ Recomputed

Turn(p) ==
    /\ PageSize # 0
    /\ p \in {CurrentPage - 1, CurrentPage + 1} \cap 0 .. PageCount - 1
    /\ page' = p
    /\ held' = None
    /\ UNCHANGED <<records, visible, query, editing, aside>>

\* A form of another block of the same page: nothing tells this one to sort.
EditAside(r, v) ==
    /\ r \in DOMAIN records /\ v # records[r]
    /\ records' = [records EXCEPT ![r] = v]
    /\ aside' = aside \cup {r}
    /\ UNCHANGED <<visible, query, page, editing, held>>

Next ==
    \/ Synced \/ Undone
    \/ \E f \in UNION {[R -> Value] : R \in SUBSET Record} : Resynced(f)
    \/ \E q \in Search : SearchFor(q)
    \/ \E p \in 0 .. Cardinality(Record) : Turn(p)
    \/ \E r \in Record :
        \/ CreateRecord(r) \/ Open(r) \/ Done(r) \/ Delete(r)
        \/ \E v \in Value : Edit(r, v) \/ EditAside(r, v)

Spec == Init /\ [][Next]_vars

-----------------------------------------------------------------------------
(* Properties.                                                               *)

LeavingOut(list, S) == SelectSeq(list, LAMBDA r : r \notin S)

\* Whoever edits one record keeps it on the screen until the form is closed or the
\* reader goes elsewhere, whatever is typed into it and whatever other tabs, devices
\* and undo do to the list meanwhile (livePins, orderedRecords, currentPage).
EditorStays == held # None => held \in Shown

\* The records without a form are those that the search finds, in their order, as
\* they are now, except for what another block on the page has changed (the
\* dependencies of visibleRecords).
OthersFollow ==
    LET elsewhere == open \cup aside
    IN  LeavingOut(visible, elsewhere) = LeavingOut(Sorted(records, query), elsewhere)

\* The order the editing began with is forgotten with its last editor, which may
\* also be on another page or not found by the search.
PinsReleased == open \subseteq DOMAIN records /\ (order = <<>> <=> open = {})

\* What the reader relies on: the form they are filling in stays in front of them, the
\* rest of the list is what they asked for and what is there, and the places that
\* editing holds are let go with its end.
ListHolds == EditorStays /\ OthersFollow /\ PinsReleased

-----------------------------------------------------------------------------
(* What the comments promise and the block does not keep.                    *)

\* "Pin only each active editor at its former result position": no open editor
\* leaves the screen unless the reader turns the page, searches, or opens, closes or
\* adds a record.
EditorsStay ==
    [][page' = page /\ query' = query /\ open' = open =>
        \A r \in (open \cap open') \cap Shown : r \in Shown']_vars

\* "covers every change": the list is never older than the records.
ListIsCurrent ==
    LeavingOut(visible, open) = LeavingOut(Sorted(records, query), open)
=============================================================================
