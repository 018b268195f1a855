---------------------------- MODULE AppBuilder ----------------------------
(***************************************************************************)
(* The builder: the pages on which an app is put together from tabs,       *)
(* blocks, widgets, schemas and properties, and the records people keep in *)
(* it.  All of it are entries of one graph, without foreign keys: a block  *)
(* names its schema, a widget its block and, by name, its property, a      *)
(* record holds its values by the names of its properties.  Each page      *)
(* keeps the references it knows of.                                       *)
(*                                                                         *)
(* A gesture is one event handler.  Renaming a property is the one that    *)
(* takes longer: the page takes the values out of the records it sees and  *)
(* puts them back under the new name once it is subscribed to the new      *)
(* shape (Deliver).  Titles, labels, display types and enum options are    *)
(* left out, and so is the stop after 10 000 blocks; a value is entered in *)
(* the input of the display type that a property gets by default.          *)
(***************************************************************************)
EXTENDS Integers, Sequences, FiniteSets, SequencesExt
LOCAL INSTANCE TLC

CONSTANTS
    Imports,        \* backups that can be imported, by document
    Spent,          \* for each document: gestures already spent when it is imported
    RenameTo,       \* names people give to properties
    Types,          \* data types they choose
    Texts,          \* what they write
    MaxGestures,    \* bound: gestures in a behaviour
    MaxDepth        \* RUNTIME_LIMITS.blockDepth: nesting that editor and reader open

ASSUME BuilderAssumption ==
    /\ Types \subseteq {"text", "number", "boolean", "date", "enum", "reference"}
    /\ MaxGestures \in Nat /\ MaxDepth \in Nat
    /\ DOMAIN Spent = DOMAIN Imports

None == -1
NoName == <<>>
Home == 0
Nothing == [name |-> NoName, values |-> <<>>]

VARIABLES
    tabs,           \* id -> [order]
    blocks,         \* id -> [kind, parent, order, schema, filter, sort]
    widgets,        \* id -> [parent, kind, order, prop]: prop is a name
    schemas,        \* id -> [label]: "Show records as", a property
    props,          \* id -> [schema, name, order, type, many, ref]
    records,        \* id -> [schema, values]: values by name
    page,           \* the schema open in the schema editor, or None
    indexed,        \* the editor is subscribed to the shape as it is now
    pending,        \* [name, values]: a rename not yet written, or Nothing
    worth,          \* history: the value last given to a property of a record
    hasty,          \* history: properties whose values the code left behind
    imported,       \* history: the document the graph is exactly the import of
    gestures

structure == <<tabs, blocks, widgets, schemas, props>>
content == <<records, worth>>
editor == <<page, indexed, pending, hasty>>
vars == <<structure, content, editor, imported, gestures>>

-----------------------------------------------------------------------------
(* Order and identity (metaHookUtils.ts, randomId.ts).                       *)

Put(f, k, v) == [x \in DOMAIN f \cup {k} |-> IF x = k THEN v ELSE f[x]]
Without(f, S) == [x \in DOMAIN f \ S |-> f[x]]

\* New ids belong to the gesture that mints them.
New(k) == 1000 * (gestures + 1) + k

\* things and those of a sequence, under new ids.
WithNew(things, list) ==
    [x \in DOMAIN things \cup {New(k) : k \in DOMAIN list} |->
        IF x \in DOMAIN things THEN things[x] ELSE list[x - New(0)]]

ByOrderThenId(things, ids) ==
    LET Before(x) == {y \in ids : \/ things[y].order < things[x].order
                                  \/ things[y].order = things[x].order /\ y < x}
    IN  [i \in 1 .. Cardinality(ids) |-> CHOOSE x \in ids : Cardinality(Before(x)) = i - 1]

\* Mutant of NextOrder: the number of siblings.
NextOrderCounted(things, ids) == Cardinality(ids)

NextOrder(things, ids) == 1 + Max({-1} \cup {things[i].order : i \in ids})

\* things with those of a sequence numbered from first on.
Numbered(things, sequence, first) ==
    [x \in DOMAIN things |->
        IF x \notin ToSet(sequence) THEN things[x]
        ELSE [things[x] EXCEPT !.order =
                first - 1 + CHOOSE j \in DOMAIN sequence : sequence[j] = x]]

Swapped(sequence, i) == [sequence EXCEPT ![i] = sequence[i + 1], ![i + 1] = sequence[i]]

-----------------------------------------------------------------------------
(* What belongs to what (the hooks' selections, blockGraph.ts).              *)

UserTabs == ByOrderThenId(tabs, DOMAIN tabs \ {Home})
BlocksUnder(parent) == {b \in DOMAIN blocks : blocks[b].parent = parent}
WidgetsOf(b) == {w \in DOMAIN widgets : widgets[w].parent = b}
PropsOf(s) == {p \in DOMAIN props : props[p].schema = s}
PropsInOrder(s) == ByOrderThenId(props, PropsOf(s))
NamesOf(s) == {props[p].name : p \in PropsOf(s)}
FirstName(s) == props[PropsInOrder(s)[1]].name
RecordsOf(s) == {r \in DOMAIN records : records[r].schema = s}
BlocksShowing(s) == {b \in DOMAIN blocks : blocks[b].kind = "data" /\ blocks[b].schema = s}

\* The field widgets that show property name of schema s.
BoundTo(s, name) ==
    {w \in DOMAIN widgets : /\ widgets[w].kind = "field" /\ widgets[w].prop = name
                            /\ widgets[w].parent \in BlocksShowing(s)}

\* How many layouts a block is in.
Depth == LET depth[b \in DOMAIN blocks] ==
                IF blocks[b].parent[1] = "block" /\ blocks[b].parent[2] \in DOMAIN blocks
                THEN 1 + depth[blocks[b].parent[2]] ELSE 0
         IN  depth

Visible(b) == Depth[b] < MaxDepth

\* A list of blocks that the editor shows: a tab's, or inside a visible layout.
Open(parent) ==
    \/ parent[1] = "tab" /\ parent[2] \in DOMAIN tabs
    \/ /\ parent[1] = "block" /\ parent[2] \in DOMAIN blocks
       /\ blocks[parent[2]].kind = "layout" /\ Visible(parent[2])

Lists == {<<"tab", t>> : t \in DOMAIN tabs} \cup {<<"block", b>> : b \in DOMAIN blocks}

\* Mutant of Descendants: the blocks themselves and their children, no deeper.
DescendantsNear(roots) ==
    {b \in DOMAIN blocks : b \in roots \/ blocks[b].parent \in {<<"block", r>> : r \in roots}}

Descendants(roots) ==
    LET under[b \in DOMAIN blocks] ==
            \/ b \in roots
            \/ /\ blocks[b].parent[1] = "block" /\ blocks[b].parent[2] \in DOMAIN blocks
               /\ under[blocks[b].parent[2]]
    IN  {b \in DOMAIN blocks : under[b]}

-----------------------------------------------------------------------------
Init ==
    /\ tabs = <<>> /\ blocks = <<>> /\ widgets = <<>> /\ schemas = <<>> /\ props = <<>>
    /\ records = <<>> /\ worth = <<>>
    /\ page = None /\ indexed = FALSE /\ pending = Nothing /\ hasty = {}
    /\ imported = None /\ gestures = 0

\* One event of the person at the builder.
Gesture == gestures < MaxGestures /\ gestures' = gestures + 1 /\ imported' = None

\* A gesture on any page but the schema editor.
Outside == page = None /\ Gesture /\ UNCHANGED editor

\* The provider adds Home wherever it is missing.
Bootstrap ==
    /\ Home \notin DOMAIN tabs
    /\ tabs' = Put(tabs, Home, [order |-> 0])
    /\ UNCHANGED <<blocks, widgets, schemas, props, content, editor, imported, gestures>>

\* A backup replaces the graph and the app is loaded again.  What was there before
\* does not matter, so imports come first.
Import(d) ==
    /\ gestures = 0 /\ imported = None
    /\ tabs' = Imports[d].tabs /\ blocks' = Imports[d].blocks
    /\ widgets' = Imports[d].widgets /\ schemas' = Imports[d].schemas
    /\ props' = Imports[d].props /\ records' = Imports[d].records
    /\ worth' = [r \in DOMAIN records' |->
                    [p \in {q \in DOMAIN props' : props'[q].schema = records'[r].schema} |->
                        records'[r].values[props'[p].name]]]
    /\ imported' = d /\ gestures' = Spent[d]
    /\ UNCHANGED editor

-----------------------------------------------------------------------------
(* Tabs (TabsManagerPage.tsx).                                               *)

CreateTab ==
    /\ Outside
    /\ tabs' = Put(tabs, New(1), [order |-> NextOrder(tabs, DOMAIN tabs)])
    /\ UNCHANGED <<blocks, widgets, schemas, props, content>>

\* Down by one place; up is the same of the tab above.
MoveTab(i) ==
    /\ Outside
    /\ i < Len(UserTabs)
    /\ tabs' = Numbered(tabs, Swapped(UserTabs, i), 1)
    /\ UNCHANGED <<blocks, widgets, schemas, props, content>>

DeleteTab(t) ==
    LET gone == Descendants(BlocksUnder(<<"tab", t>>))
        rest == SelectSeq(UserTabs, LAMBDA u : u # t)
    IN  /\ Outside
        /\ t # Home
        /\ tabs' = Without(Numbered(tabs, rest, 1), {t})
        /\ widgets' = Without(widgets, UNION {WidgetsOf(b) : b \in gone})
        /\ blocks' = Without(blocks, gone)
        /\ UNCHANGED <<schemas, props, content>>

-----------------------------------------------------------------------------
(* Blocks and widgets (BlocksBuilderPage.tsx).                               *)

\* Field widgets for a sequence of properties, numbered from first on.
Fields(b, sequence, first) ==
    [k \in DOMAIN sequence |-> [parent |-> b, kind |-> "field", order |-> first - 1 + k,
                                prop |-> props[sequence[k]].name]]

Plain(b, kind, order) == [parent |-> b, kind |-> kind, order |-> order, prop |-> NoName]

StarterWidgets(b, s) ==
    <<Plain(b, "title", 0), Plain(b, "addButton", 1), Plain(b, "actions", 2)>>
        \o Fields(b, PropsInOrder(s), 3)

\* s is the chosen schema of a data block, None of another.
AddBlock(parent, kind, s) ==
    /\ Outside
    /\ Open(parent)
    /\ IF kind = "data" THEN s \in DOMAIN schemas ELSE s = None
    /\ blocks' = Put(blocks, New(1),
                     [kind |-> kind, parent |-> parent, schema |-> s, filter |-> NoName,
                      sort |-> NoName, order |-> NextOrder(blocks, BlocksUnder(parent))])
    /\ widgets' = IF kind = "data" THEN WithNew(widgets, StarterWidgets(New(1), s))
                  ELSE widgets
    /\ UNCHANGED <<tabs, schemas, props, content>>

MoveBlock(parent, i) ==
    LET siblings == ByOrderThenId(blocks, BlocksUnder(parent))
    IN  /\ Outside
        /\ Open(parent)
        /\ i < Len(siblings) /\ Visible(siblings[i])
        /\ blocks' = Numbered(blocks, Swapped(siblings, i), 0)
        /\ UNCHANGED <<tabs, widgets, schemas, props, content>>

DeleteCascade(b) ==
    LET gone == Descendants({b})
    IN  /\ Outside
        /\ Visible(b)
        /\ widgets' = Without(widgets, UNION {WidgetsOf(x) : x \in gone})
        /\ blocks' = Without(blocks, gone)
        /\ UNCHANGED <<tabs, schemas, props, content>>

\* The editor of a data block.
Editing(b) == Outside /\ Visible(b) /\ blocks[b].kind = "data"

\* Fields that the new schema does not have show its first property, or go.
ChangeSchema(b, s) ==
    LET names == NamesOf(s)
        lost == {w \in WidgetsOf(b) : widgets[w].kind = "field" /\ widgets[w].prop \notin names}
        Kept(name) == IF name \in names THEN name ELSE NoName
    IN  /\ Editing(b)
        /\ s # blocks[b].schema
        /\ blocks' = [blocks EXCEPT ![b].schema = s,
                                    ![b].filter = Kept(@), ![b].sort = Kept(@)]
        /\ widgets' = IF names = {} THEN Without(widgets, lost)
                      ELSE [w \in DOMAIN widgets |->
                                IF w \in lost THEN [widgets[w] EXCEPT !.prop = FirstName(s)]
                                ELSE widgets[w]]
        /\ UNCHANGED <<tabs, schemas, props, content>>

SetFilter(b, name) ==
    /\ Editing(b)
    /\ name \in NamesOf(blocks[b].schema) \cup {NoName} /\ name # blocks[b].filter
    /\ blocks' = [blocks EXCEPT ![b].filter = name]
    /\ UNCHANGED <<tabs, widgets, schemas, props, content>>

SetSort(b, name) ==
    /\ Editing(b)
    /\ name \in NamesOf(blocks[b].schema) \cup {NoName} /\ name # blocks[b].sort
    /\ blocks' = [blocks EXCEPT ![b].sort = name]
    /\ UNCHANGED <<tabs, widgets, schemas, props, content>>

\* A block has one widget of every kind but fields.
Taken(b, kind) == kind # "field" /\ \E w \in WidgetsOf(b) : widgets[w].kind = kind

AddWidget(b, kind) ==
    LET s == blocks[b].schema
        order == NextOrder(widgets, WidgetsOf(b))
    IN  /\ Editing(b)
        /\ ~Taken(b, kind)
        /\ kind = "field" => PropsOf(s) # {}
        /\ widgets' = Put(widgets, New(1),
                          IF kind = "field" THEN Fields(b, <<PropsInOrder(s)[1]>>, order)[1]
                          ELSE Plain(b, kind, order))
        /\ UNCHANGED <<tabs, blocks, schemas, props, content>>

AddMissingFields(b) ==
    LET shown == {widgets[w].prop : w \in {x \in WidgetsOf(b) : widgets[x].kind = "field"}}
        missing == SelectSeq(PropsInOrder(blocks[b].schema),
                             LAMBDA p : props[p].name \notin shown)
    IN  /\ Editing(b)
        /\ missing # <<>>
        /\ widgets' = WithNew(widgets,
                              Fields(b, missing, NextOrder(widgets, WidgetsOf(b))))
        /\ UNCHANGED <<tabs, blocks, schemas, props, content>>

MoveWidget(b, i) ==
    LET sequence == ByOrderThenId(widgets, WidgetsOf(b))
    IN  /\ Editing(b)
        /\ i < Len(sequence)
        /\ widgets' = Numbered(widgets, Swapped(sequence, i), 0)
        /\ UNCHANGED <<tabs, blocks, schemas, props, content>>

DeleteWidget(w) ==
    /\ Editing(widgets[w].parent)
    /\ widgets' = Without(widgets, {w})
    /\ UNCHANGED <<tabs, blocks, schemas, props, content>>

\* A new field shows the first property, if there is one.
ChangeWidgetType(w, kind) ==
    LET b == widgets[w].parent
        s == blocks[b].schema
    IN  /\ Editing(b)
        /\ kind # widgets[w].kind /\ ~Taken(b, kind)
        /\ widgets' = [widgets EXCEPT ![w].kind = kind,
                          ![w].prop = IF kind = "field" /\ PropsOf(s) # {} THEN FirstName(s)
                                      ELSE NoName]
        /\ UNCHANGED <<tabs, blocks, schemas, props, content>>

BindWidget(w, name) ==
    /\ Editing(widgets[w].parent)
    /\ widgets[w].kind = "field" /\ widgets[w].prop # name
    /\ name \in NamesOf(blocks[widgets[w].parent].schema)
    /\ widgets' = [widgets EXCEPT ![w].prop = name]
    /\ UNCHANGED <<tabs, blocks, schemas, props, content>>

-----------------------------------------------------------------------------
(* Schemas (SchemaListPage.tsx).                                             *)

NewSchema == [label |-> None]

\* A new schema opens in the editor.
CreateSchema ==
    /\ page = None /\ Gesture
    /\ schemas' = Put(schemas, New(1), NewSchema)
    /\ page' = New(1) /\ indexed' = FALSE
    /\ UNCHANGED <<tabs, blocks, widgets, props, content, pending, hasty>>

\* Mutant of DeleteSchema: references to it stay.
DeleteSchemaAlone(s) ==
    LET gone == BlocksShowing(s)
    IN  /\ Outside
        /\ props' = Without(props, PropsOf(s))
        /\ widgets' = Without(widgets, UNION {WidgetsOf(b) : b \in gone})
        /\ blocks' = Without(blocks, gone)
        /\ schemas' = Without(schemas, {s})
        /\ UNCHANGED <<tabs, content>>

\* Its properties and its data blocks go with it, references to it become texts;
\* its records stay in the graph.
DeleteSchema(s) ==
    LET gone == BlocksShowing(s)
    IN  /\ Outside
        /\ props' = [p \in DOMAIN props \ PropsOf(s) |->
                        IF props[p].ref = s
                        THEN [props[p] EXCEPT !.type = "text", !.ref = None]
                        ELSE props[p]]
        /\ widgets' = Without(widgets, UNION {WidgetsOf(b) : b \in gone})
        /\ blocks' = Without(blocks, gone)
        /\ schemas' = Without(schemas, {s})
        /\ UNCHANGED <<tabs, content>>

-----------------------------------------------------------------------------
(* One schema (SchemaEditorPage.tsx).                                        *)

OpenEditor(s) ==
    /\ page = None /\ Gesture
    /\ page' = s /\ indexed' = FALSE
    /\ UNCHANGED <<structure, content, pending, hasty>>

\* What the page holds in its state is gone with it.
Leave ==
    /\ page # None
    /\ hasty' = hasty \cup {p \in PropsOf(page) :
                    /\ pending.name = props[p].name
                    /\ DOMAIN pending.values \cap DOMAIN records # {}}
    /\ page' = None /\ indexed' = FALSE /\ pending' = Nothing
    /\ UNCHANGED <<structure, content, imported, gestures>>

\* A subscription delivers the records it finds two frames after it is made, if the
\* page still has it.
SubscriptionDelivers == page # None /\ ~indexed /\ indexed' = TRUE

\* The subscription to the current shape delivers, and the values of a rename are
\* put back into the records that are there.  A name that is no property of the
\* shape any more cannot be written.
Deliver ==
    /\ SubscriptionDelivers
    /\ LET met == DOMAIN pending.values \cap RecordsOf(page)
           left == Without(pending.values, met)
       IN  /\ records' = [r \in DOMAIN records |->
                    IF r \in met /\ pending.name \in NamesOf(page)
                    THEN [records[r] EXCEPT !.values = Put(@, pending.name, pending.values[r])]
                    ELSE records[r]]
           /\ pending' = IF left = <<>> THEN Nothing ELSE [pending EXCEPT !.values = left]
    /\ UNCHANGED <<structure, worth, page, hasty, imported, gestures>>

\* A gesture on the page of schema s that changes its shape, or not.
Reshaping(s) == page = s /\ Gesture /\ indexed' = FALSE /\ UNCHANGED page
Keeping(s) == page = s /\ Gesture /\ UNCHANGED editor

NewProperty(s, name) ==
    [schema |-> s, name |-> name, type |-> "text", many |-> FALSE, ref |-> None,
     order |-> NextOrder(props, PropsOf(s))]

\* The first free name from the number of properties on; every data block of the
\* schema gets a widget for it.
AddProperty ==
    LET used == NamesOf(page)
        from == Cardinality(PropsOf(page)) + 1
        name == CHOOSE n \in {<<"field", ToString(k)>> : k \in from .. from + Cardinality(used)} :
                    n \notin used
        showing == SetToSeq(BlocksShowing(page))
    IN  /\ Reshaping(page) /\ page # None
        /\ props' = Put(props, New(1), NewProperty(page, name))
        /\ widgets' = WithNew(widgets, [k \in DOMAIN showing |->
                        [parent |-> showing[k], kind |-> "field", prop |-> name,
                         order |-> NextOrder(widgets, WidgetsOf(showing[k]))]])
        /\ UNCHANGED <<tabs, blocks, schemas, content, pending, hasty>>

MoveProperty(i) ==
    /\ Keeping(page) /\ page # None
    /\ i < Len(PropsInOrder(page))
    /\ props' = Numbered(props, Swapped(PropsInOrder(page), i), 0)
    /\ UNCHANGED <<tabs, blocks, widgets, schemas, content>>

\* The blocks of a schema with name replaced in their filters and sorts.
Renamed(s, old, new) ==
    [b \in DOMAIN blocks |->
        IF b \notin BlocksShowing(s) THEN blocks[b]
        ELSE [blocks[b] EXCEPT !.filter = IF @ = old THEN new ELSE @,
                               !.sort = IF @ = old THEN new ELSE @]]

\* commitName: not empty, and no other property's.
NameIsFree(s, name) == name # NoName /\ name \notin NamesOf(s)

\* Mutant of RenameProperty: the records are left as they are.
RenamePropertyOnly(p, new) ==
    LET s == props[p].schema
        old == props[p].name
    IN  /\ Reshaping(s)
        /\ NameIsFree(s, new)
        /\ props' = [props EXCEPT ![p].name = new]
        /\ widgets' = [w \in DOMAIN widgets |->
                        IF w \in BoundTo(s, old) THEN [widgets[w] EXCEPT !.prop = new]
                        ELSE widgets[w]]
        /\ blocks' = Renamed(s, old, new)
        /\ UNCHANGED <<tabs, schemas, content, pending, hasty>>

\* The values come out of the records that the page sees: none, until its shape is
\* delivered.  A blur that changes nothing puts them back within the same event.
RenameProperty(p, new) ==
    LET s == props[p].schema
        old == props[p].name
        seen == {r \in RecordsOf(s) : indexed /\ old \in DOMAIN records[r].values}
    IN  /\ Reshaping(s)
        /\ NameIsFree(s, new)
        /\ props' = [props EXCEPT ![p].name = new]
        /\ widgets' = [w \in DOMAIN widgets |->
                        IF w \in BoundTo(s, old) THEN [widgets[w] EXCEPT !.prop = new]
                        ELSE widgets[w]]
        /\ blocks' = Renamed(s, old, new)
        /\ records' = [r \in DOMAIN records |->
                        IF r \in seen THEN [records[r] EXCEPT !.values = Without(@, {old})]
                        ELSE records[r]]
        /\ pending' = IF seen = {} THEN pending
                      ELSE [name |-> new, values |-> [r \in seen |-> records[r].values[old]]]
        /\ hasty' = IF indexed THEN hasty ELSE hasty \cup {p}
        /\ UNCHANGED <<tabs, schemas, worth>>

\* The label of a schema stays only while its property is a text or an enum.
Relabelled(p, type) ==
    [s \in DOMAIN schemas |->
        IF schemas[s].label = p /\ type \notin {"text", "enum"} THEN [label |-> None]
        ELSE schemas[s]]

ChangeType(p, type) ==
    /\ Reshaping(props[p].schema)
    /\ type # props[p].type
    /\ \E s \in DOMAIN schemas :
        props' = [props EXCEPT ![p].type = type,
                               ![p].ref = IF type # "reference" THEN None
                                          ELSE IF @ = None THEN s ELSE @]
    /\ schemas' = Relabelled(p, type)
    /\ UNCHANGED <<tabs, blocks, widgets, content, pending, hasty>>

\* Required and optional are both one value.
ChangeCardinality(p, many) ==
    /\ Reshaping(props[p].schema)
    /\ props' = [props EXCEPT ![p].many = many]
    /\ schemas' = Relabelled(p, props[p].type)
    /\ UNCHANGED <<tabs, blocks, widgets, content, pending, hasty>>

ChangeReference(p, s) ==
    /\ Reshaping(props[p].schema)
    /\ props[p].type = "reference" /\ s # props[p].ref
    /\ props' = [props EXCEPT ![p].ref = s]
    /\ UNCHANGED <<tabs, blocks, widgets, schemas, content, pending, hasty>>

SetLabel(s, p) ==
    /\ Keeping(s)
    /\ p \in {q \in PropsOf(s) : props[q].type \in {"text", "enum", "date"}} \cup {None}
    /\ p # schemas[s].label
    /\ schemas' = [schemas EXCEPT ![s].label = p]
    /\ UNCHANGED <<tabs, blocks, widgets, props, content>>

\* The values stay in the records.
DeleteProperty(p) ==
    LET s == props[p].schema
        name == props[p].name
    IN  /\ Reshaping(s)
        /\ schemas' = [schemas EXCEPT ![s].label = IF @ = p THEN None ELSE @]
        /\ widgets' = Without(widgets, BoundTo(s, name))
        /\ blocks' = Renamed(s, name, NoName)
        /\ props' = Without(props, {p})
        /\ UNCHANGED <<tabs, content, pending, hasty>>

-----------------------------------------------------------------------------
(* Records, through a data block (BlockRenderer.tsx, RecordCard.tsx) and     *)
(* from other tabs and devices (localNgEngine.ts, as it delivers them).      *)

DefaultValue(p) ==
    CASE props[p].many -> <<"list", <<>>>>
      [] ~props[p].many /\ props[p].type = "number" -> <<"number", "0">>
      [] ~props[p].many /\ props[p].type = "boolean" -> <<"boolean", "false">>
      [] OTHER -> <<"string", "">>

\* A data block that is shown, with a widget of this kind.
Shown(b, kind) ==
    /\ blocks[b].kind = "data" /\ Visible(b)
    /\ \E w \in WidgetsOf(b) : widgets[w].kind = kind

CreateRecord(b) ==
    LET s == blocks[b].schema
    IN  /\ Outside
        /\ Shown(b, "addButton")
        /\ records' = Put(records, New(1), [schema |-> s, values |->
                [n \in NamesOf(s) |->
                    DefaultValue(CHOOSE p \in PropsOf(s) : props[p].name = n)]])
        /\ worth' = Put(worth, New(1), [p \in PropsOf(s) |-> DefaultValue(p)])
        /\ UNCHANGED structure

\* Property p of record r is given a value.
Write(r, p, value) ==
    /\ records' = [records EXCEPT ![r].values = Put(@, props[p].name, value)]
    /\ worth' = [worth EXCEPT ![r] = Put(@, p, value)]

\* What is entered, as the input of the property's default display type gives it.
Entered(p, text) ==
    LET type == props[p].type
    IN  CASE type \in {"number", "boolean"} -> <<type, text>>
          [] type \in {"enum", "reference"} /\ props[p].many -> <<"list", <<text>>>>
          [] OTHER -> <<"string", text>>

EditRecord(b, r, p, text) ==
    /\ Outside
    /\ Shown(b, "actions")
    /\ r \in RecordsOf(blocks[b].schema) /\ p \in PropsOf(blocks[b].schema)
    /\ WidgetsOf(b) \cap BoundTo(blocks[b].schema, props[p].name) # {}
    /\ Write(r, p, Entered(p, text))
    /\ UNCHANGED structure

DeleteRecord(b, r) ==
    /\ Outside
    /\ Shown(b, "actions")
    /\ r \in RecordsOf(blocks[b].schema)
    /\ records' = Without(records, {r}) /\ worth' = Without(worth, {r})
    /\ UNCHANGED structure

\* The rename overwrites what arrives for a record it has yet to write.
ElsewhereEdits(r, p, text) ==
    /\ Gesture
    /\ p \in PropsOf(records[r].schema)
    /\ Write(r, p, <<"string", text>>)
    /\ hasty' = IF r \in DOMAIN pending.values /\ pending.name = props[p].name
                THEN hasty \cup {p} ELSE hasty
    /\ UNCHANGED <<structure, page, indexed, pending>>

ElsewhereDeletes(r) ==
    /\ Gesture
    /\ records' = Without(records, {r}) /\ worth' = Without(worth, {r})
    /\ UNCHANGED <<structure, editor>>

-----------------------------------------------------------------------------
Kinds == {"title", "addButton", "actions", "field"}

TabSteps ==
    \/ Bootstrap
    \/ CreateTab
    \/ \E i \in 1 .. Cardinality(DOMAIN tabs) : MoveTab(i)
    \/ \E t \in DOMAIN tabs : DeleteTab(t)

BlockSteps ==
    \/ \E list \in Lists, kind \in {"layout", "data", "content"},
          s \in DOMAIN schemas \cup {None} : AddBlock(list, kind, s)
    \/ \E list \in Lists, i \in 1 .. Cardinality(DOMAIN blocks) : MoveBlock(list, i)
    \/ \E b \in DOMAIN blocks :
        \/ DeleteCascade(b)
        \/ \E s \in DOMAIN schemas : ChangeSchema(b, s)
        \/ \E p \in PropsOf(blocks[b].schema) :
            SetFilter(b, props[p].name) \/ SetSort(b, props[p].name)
        \/ SetFilter(b, NoName) \/ SetSort(b, NoName)

WidgetSteps ==
    \/ \E b \in DOMAIN blocks :
        \/ AddMissingFields(b)
        \/ \E kind \in Kinds : AddWidget(b, kind)
        \/ \E i \in 1 .. Cardinality(WidgetsOf(b)) : MoveWidget(b, i)
    \/ \E w \in DOMAIN widgets :
        \/ DeleteWidget(w)
        \/ \E kind \in Kinds : ChangeWidgetType(w, kind)
        \/ \E p \in PropsOf(blocks[widgets[w].parent].schema) : BindWidget(w, props[p].name)

SchemaSteps ==
    \/ CreateSchema \/ Leave \/ Deliver \/ AddProperty
    \/ \E s \in DOMAIN schemas :
        \/ DeleteSchema(s) \/ OpenEditor(s) \/ SetLabel(s, None)
        \/ \E p \in DOMAIN props : SetLabel(s, p) \/ ChangeReference(p, s)
    \/ \E i \in 1 .. Cardinality(DOMAIN props) : MoveProperty(i)
    \/ \E p \in DOMAIN props :
        \/ DeleteProperty(p)
        \/ \E n \in RenameTo : RenameProperty(p, n)
        \/ \E type \in Types : ChangeType(p, type)
        \/ \E many \in BOOLEAN : ChangeCardinality(p, many)

RecordSteps ==
    \/ \E b \in DOMAIN blocks :
        \/ CreateRecord(b)
        \/ \E r \in DOMAIN records :
            \/ DeleteRecord(b, r)
            \/ \E p \in DOMAIN props, text \in Texts : EditRecord(b, r, p, text)
    \/ \E r \in DOMAIN records :
        \/ ElsewhereDeletes(r)
        \/ \E p \in DOMAIN props, text \in Texts : ElsewhereEdits(r, p, text)

Next ==
    \/ \E d \in DOMAIN Imports : Import(d)
    \/ TabSteps \/ BlockSteps \/ WidgetSteps \/ SchemaSteps \/ RecordSteps

Spec == Init /\ [][Next]_vars

-----------------------------------------------------------------------------
(* Properties.                                                               *)

TreeWhole ==
    /\ \A b \in DOMAIN blocks :
        \/ blocks[b].parent[1] = "tab" /\ blocks[b].parent[2] \in DOMAIN tabs
        \/ /\ blocks[b].parent[1] = "block" /\ blocks[b].parent[2] \in DOMAIN blocks
           /\ blocks[blocks[b].parent[2]].kind = "layout"
    /\ \A w \in DOMAIN widgets : /\ widgets[w].parent \in DOMAIN blocks
                                 /\ blocks[widgets[w].parent].kind = "data"

BindingsLive ==
    /\ \A b \in DOMAIN blocks : blocks[b].kind = "data" =>
        /\ blocks[b].schema \in DOMAIN schemas
        /\ {blocks[b].filter, blocks[b].sort} \subseteq NamesOf(blocks[b].schema) \cup {NoName}
    /\ \A w \in DOMAIN widgets :
        widgets[w].prop \in NamesOf(blocks[widgets[w].parent].schema) \cup {NoName}

PropertiesWhole ==
    /\ \A p \in DOMAIN props :
        /\ props[p].schema \in DOMAIN schemas
        /\ props[p].ref \in DOMAIN schemas \cup {None}
        /\ props[p].ref # None => props[p].type = "reference"
    /\ \A p, q \in DOMAIN props :
        props[p].schema = props[q].schema /\ props[p].name = props[q].name => p = q
    /\ \A s \in DOMAIN schemas : schemas[s].label # None =>
        /\ schemas[s].label \in PropsOf(s)
        /\ props[schemas[s].label].type \in {"text", "enum", "date"}

\* Nothing in the graph refers to something that is not there: whatever is deleted,
\* renamed, retyped or moved to another schema, blocks are on a tab or in a layout,
\* widgets, filters and sorts show a property of their block's schema, names are
\* unique in a schema, references point to schemas and the property that records are
\* shown as is one of the schema's that can serve (the handlers' clean-up loops; the
\* graph itself checks nothing).
WellBound == TreeWhole /\ BindingsLive /\ PropertiesWhole

\* What somebody put into a property of a record is found under the property's name
\* as long as both exist, or waits to be written there by the open editor, except
\* for the properties whose values the code is known to leave behind: renamed before
\* the editor had the records, left before they were written, or overwritten by the
\* rename (SchemaEditorPage.tsx: onRename and the effect after it).
ValuesFollow ==
    \A r \in DOMAIN records : \A p \in (DOMAIN worth[r] \cap DOMAIN props) \ hasty :
        LET name == props[p].name
        IN  IF name \in DOMAIN records[r].values
            THEN records[r].values[name] = worth[r][p]
            ELSE /\ pending.name = name
                 /\ r \in DOMAIN pending.values /\ pending.values[r] = worth[r][p]

Distinct(things, ids) ==
    \A i, j \in ids : things[i].order = things[j].order => i = j

\* Siblings have different places, so that moving one past its neighbour, whose
\* order is the only thing compared, is what every list then shows (nextOrder and
\* the renumbering after moves and deletions).
SiblingsOrdered ==
    /\ Distinct(tabs, DOMAIN tabs \ {Home})
    /\ \A list \in Lists : Distinct(blocks, BlocksUnder(list))
    /\ \A b \in DOMAIN blocks : Distinct(widgets, WidgetsOf(b))
    /\ \A s \in DOMAIN schemas : Distinct(props, PropsOf(s))
=============================================================================
