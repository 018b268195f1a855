---------------------------- MODULE JsonImport ----------------------------
(***************************************************************************)
(* tools/json-import: a JSON document of entities becomes the records of   *)
(* an app.  normalize.ts flattens the rows, infer.ts gives every field a   *)
(* type, buildBackup.ts writes schemas, properties, tabs, blocks, widgets  *)
(* and one record per row.                                                 *)
(*                                                                         *)
(* A name is a sequence of its dot-separated segments, whether the dots    *)
(* are the producer's or the tool's.  A scalar is <<class, text>>: what    *)
(* the tests of infer.ts can tell of it, and its text.  A value is tagged: *)
(* <<"scalar", s>>, <<"list", scalars>>, <<"rows", rows>> for a list of    *)
(* objects, <<"object", row>>.  A row has hints and a sequence of fields.  *)
(* The order of entities and of fields, and the lengths that choose among  *)
(* several label fields, are left to SetToSeq and CHOOSE; a document that  *)
(* nests too deeply or uses a reserved name is refused and left out.       *)
(***************************************************************************)
EXTENDS Integers, Sequences, FiniteSets, SequencesExt

CONSTANTS EnumMinSamples, EnumMaxDistinct

None == -1
NoName == <<>>
ParentField == <<"__parentId">>
Null == <<"null", "">>

Put(f, k, v) == [x \in DOMAIN f \cup {k} |-> IF x = k THEN v ELSE f[x]]
Over(new, old) ==
    [x \in DOMAIN new \cup DOMAIN old |-> IF x \in DOMAIN new THEN new[x] ELSE old[x]]
HintsOf(rows) == IF rows = <<>> THEN <<>> ELSE rows[1].hints

-----------------------------------------------------------------------------
(* normalize.ts: an entity is [parent, hints, rows], a row of one has the    *)
(* position of the row it was found in and its values by flat key.           *)

RECURSIVE FlattenRecord(_, _, _, _, _)
RECURSIVE RegisterChildRows(_, _, _, _, _)

\* The values of one row, found at position at of entity name; lists of objects
\* go to entities of their own, in out.
FlattenRecord(row, name, at, out, prefix) ==
    FoldLeft(LAMBDA acc, field :
        LET key == prefix \o field.key
            body == field.value[2]
        IN  CASE field.value[1] = "rows" ->
                   [acc EXCEPT !.out =
                       RegisterChildRows(name \o field.key, name, body, at, acc.out)]
              [] field.value[1] = "object" ->
                   LET inner == FlattenRecord(body, name, at, acc.out, key)
                   IN  [values |-> Over(inner.values, acc.values), out |-> inner.out]
              [] OTHER -> [acc EXCEPT !.values = Put(acc.values, key, field.value)],
        [values |-> <<>>, out |-> out], row.fields)

\* Mutant of RegisterChildRows: each call numbers its rows from the start.
RegisterChildRowsAfresh(name, parent, rows, at, out) ==
    LET entity == IF name \in DOMAIN out THEN out[name]
                  ELSE [parent |-> parent, hints |-> HintsOf(rows), rows |-> <<>>]
        walk == FoldLeft(LAMBDA acc, i :
                    LET flat == FlattenRecord(rows[i], name, i, acc.out, <<>>)
                    IN  [rows |-> Append(acc.rows, [under |-> at, values |-> flat.values]),
                         out |-> flat.out],
                    [rows |-> entity.rows, out |-> out],
                    [i \in DOMAIN rows |-> i])
    IN  Put(walk.out, name, [entity EXCEPT !.rows = walk.rows])

\* The rows of one list field of the parent's row at position at.
RegisterChildRows(name, parent, rows, at, out) ==
    LET entity == IF name \in DOMAIN out THEN out[name]
                  ELSE [parent |-> parent, hints |-> HintsOf(rows), rows |-> <<>>]
        walk == FoldLeft(LAMBDA acc, row :
                    LET flat == FlattenRecord(row, name, Len(acc.rows) + 1, acc.out, <<>>)
                    IN  [rows |-> Append(acc.rows, [under |-> at, values |-> flat.values]),
                         out |-> flat.out],
                    [rows |-> entity.rows, out |-> out], rows)
    IN  Put(walk.out, name, [entity EXCEPT !.rows = walk.rows])

\* The whole document; refused when an entity has the name of rows found before.
NormalizeDocument(doc) ==
    FoldLeft(LAMBDA acc, entity :
        LET walk == FoldLeft(LAMBDA a, row :
                        LET flat == FlattenRecord(row, entity.name, Len(a.rows) + 1,
                                                  a.out, <<>>)
                        IN  [rows |-> Append(a.rows, [under |-> None, values |-> flat.values]),
                             out |-> flat.out],
                        [rows |-> <<>>, out |-> acc.out], entity.rows)
        IN  [refused |-> acc.refused \/ entity.name \in DOMAIN acc.out,
             out |-> Put(walk.out, entity.name,
                         [parent |-> NoName, hints |-> HintsOf(entity.rows),
                          rows |-> walk.rows])],
        [refused |-> FALSE, out |-> <<>>], doc)

-----------------------------------------------------------------------------
(* infer.ts: the type of a field, from every sample of it.                   *)

ScalarsOf(value) == IF value[1] = "list" THEN value[2] ELSE <<value[2]>>

Having(entity, key) == {i \in DOMAIN entity.rows : key \in DOMAIN entity.rows[i].values}

\* The samples that are neither blank nor absent, of all rows.
CollectSamples(entity, key) ==
    FoldLeft(LAMBDA acc, row :
        IF key \in DOMAIN row.values
        THEN acc \o SelectSeq(ScalarsOf(row.values[key]),
                              LAMBDA s : s[1] \notin {"blank", "null"})
        ELSE acc, <<>>, entity.rows)

Field(type, many) == [type |-> type, many |-> many, of |-> NoName, prose |-> FALSE]

\* Mutant of InferField: numbers among texts make a number field.
InferFieldLoosely(entity, key) ==
    LET samples == CollectSamples(entity, key)
        many == \E i \in Having(entity, key) : entity.rows[i].values[key][1] = "list"
        classes == {s[1] : s \in ToSet(samples)}
    IN  IF "number" \in classes THEN Field("number", many) ELSE Field("text", many)

\* The first rule that applies, most certain first; otherwise text.
InferField(entity, key) ==
    LET samples == CollectSamples(entity, key)
        many == \E i \in Having(entity, key) : entity.rows[i].values[key][1] = "list"
        classes == {s[1] : s \in ToSet(samples)}
        hint == IF key \in DOMAIN entity.hints THEN entity.hints[key] ELSE <<"none">>
    IN  CASE hint[1] = "reference" -> [Field("reference", many) EXCEPT !.of = hint[2]]
          [] hint[1] = "none" /\ key = <<"id">> -> Field("text", many)
          [] hint[1] = "currency" -> Field("number", many)
          [] samples = <<>> -> Field("text", FALSE)
          [] classes \in {{"boolean"}, {"number"}} -> Field(samples[1][1], many)
          [] classes \cap {"boolean", "number"} # {} -> Field("text", many)
          [] classes = {"date"} -> Field("date", many)
          [] classes \in {{"url"}, {"email"}} -> Field("text", many)
          [] Len(samples) >= EnumMinSamples
                /\ Cardinality(ToSet(samples)) <= EnumMaxDistinct -> Field("enum", many)
          [] OTHER -> [Field("text", many) EXCEPT !.prose = "long" \in classes]

\* Every field of an entity, and the link to its parent when it has one.
InferFields(entity) ==
    LET keys == UNION {DOMAIN entity.rows[i].values : i \in DOMAIN entity.rows}
        fields == [k \in keys |-> InferField(entity, k)]
    IN  IF entity.parent = NoName THEN fields
        ELSE Put(fields, ParentField, [Field("reference", FALSE) EXCEPT !.of = entity.parent])

-----------------------------------------------------------------------------
(* buildBackup.ts: ids are numbers, minted by position; e is an entity's.    *)

\* What a field of this type can hold of a scalar; a text that is no number
\* becomes 0, and texts keep anything.
CoerceToFieldShape(s, type) ==
    CASE s[1] = "null" -> Null
      [] type = "boolean" ->
            <<"boolean", IF s[1] = "boolean" THEN s[2]
                         ELSE IF s[1] = "blank" THEN "false" ELSE "true">>
      [] type = "number" ->
            <<"number", CASE s[1] \in {"number", "numeral"} -> s[2]
                          [] s = <<"boolean", "true">> -> "1"
                          [] OTHER -> "0">>
      [] OTHER -> <<"string", s[2]>>

BuildFieldValue(values, key, field) ==
    LET raw == IF key \in DOMAIN values THEN ScalarsOf(values[key]) ELSE <<>>
    IN  IF field.many
        THEN <<"list", [i \in DOMAIN raw |-> CoerceToFieldShape(raw[i], field.type)]>>
        ELSE IF raw = <<>> THEN Null ELSE CoerceToFieldShape(raw[1], field.type)

\* A record that people recognise its references by, never its id.
ChooseLabelField(fields) ==
    LET eligible == {k \in DOMAIN fields : /\ fields[k].type \in {"text", "enum"}
                                           /\ k \notin {<<"id">>, ParentField}}
        prose == {k \in eligible : fields[k].prose}
    IN  CASE prose # {} -> CHOOSE k \in prose : TRUE
          [] prose = {} /\ eligible # {} -> CHOOSE k \in eligible : TRUE
          [] OTHER -> NoName

RowId(e, i) == 10 * e + i

\* The record that the declared id stands for, the last one to declare it.
Declared(entity, e, id) ==
    LET rows == {i \in Having(entity, <<"id">>) :
                    entity.rows[i].values[<<"id">>] = <<"scalar", id>>}
    IN  IF rows = {} \/ id[1] \in {"number", "boolean", "null"} THEN Null
        ELSE <<"reference", RowId(e, CHOOSE i \in rows : \A j \in rows : j <= i)>>

BuildBackup(entities) ==
    LET names == SetToSeq(DOMAIN entities)
        E == DOMAIN names
        entity == [e \in E |-> entities[names[e]]]
        fields == [e \in E |-> InferFields(entity[e])]
        keys == [e \in E |-> SetToSeq(DOMAIN fields[e])]
        IndexOf(name) == IF name \in DOMAIN entities
                         THEN CHOOSE e \in E : names[e] = name ELSE None
        Columns == UNION {{<<e, i>> : i \in DOMAIN keys[e]} : e \in E}
        Rows == UNION {{<<e, i>> : i \in DOMAIN entity[e].rows} : e \in E}
        Shown == {c \in Columns : keys[c[1]][c[2]] # ParentField}
        Id(c) == RowId(c[1], c[2])
        At(ids, set) == CHOOSE c \in set : Id(c) = ids
        Resolve(s, target) ==
            IF target = None THEN Null ELSE Declared(entity[target], target, s)
        Value(e, row, k) ==
            LET field == fields[e][k]
                target == IndexOf(field.of)
                raw == IF k \in DOMAIN row.values THEN ScalarsOf(row.values[k]) ELSE <<>>
                found == [i \in DOMAIN raw |-> Resolve(raw[i], target)]
            IN  CASE k = ParentField ->
                        IF row.under = None THEN Null
                        ELSE <<"reference", RowId(target, row.under)>>
                  [] k # ParentField /\ field.type # "reference" ->
                        BuildFieldValue(row.values, k, field)
                  [] k # ParentField /\ field.type = "reference" /\ field.many ->
                        <<"list", SelectSeq(found, LAMBDA v : v # Null)>>
                  [] OTHER -> IF found = <<>> THEN Null ELSE found[1]
    IN  [tabs |-> [e \in E |-> [order |-> e - 1]],
         blocks |-> [e \in E |-> [kind |-> "data", parent |-> <<"tab", e>>, order |-> 0,
                                  schema |-> e, filter |-> NoName, sort |-> NoName]],
         schemas |-> [e \in E |->
            LET label == ChooseLabelField(fields[e])
            IN  [label |-> IF label = NoName THEN None
                           ELSE RowId(e, CHOOSE i \in DOMAIN keys[e] : keys[e][i] = label)]],
         props |-> [p \in {Id(c) : c \in Columns} |->
            LET c == At(p, Columns)
                k == keys[c[1]][c[2]]
                field == fields[c[1]][k]
            IN  [schema |-> c[1], name |-> k, order |-> c[2] - 1, type |-> field.type,
                 many |-> field.many, ref |-> IndexOf(field.of)]],
         widgets |-> [w \in {100 * e + i : e \in E, i \in 1 .. 3}
                            \cup {100 * c[1] + 3 + c[2] : c \in Shown} |->
            LET e == w \div 100
                i == w % 100
            IN  [parent |-> e, order |-> i - 1,
                 kind |-> IF i <= 3 THEN <<"title", "addButton", "actions">>[i] ELSE "field",
                 prop |-> IF i <= 3 THEN NoName ELSE keys[e][i - 3]]],
         records |-> [r \in {Id(c) : c \in Rows} |->
            LET c == At(r, Rows)
                row == entity[c[1]].rows[c[2]]
            IN  [schema |-> c[1],
                 values |-> [k \in DOMAIN fields[c[1]] |-> Value(c[1], row, k)]]]]

-----------------------------------------------------------------------------
(* What an import promises.  The first field of every row of the documents   *)
(* it is checked on is a mark of the row's own, and a row in a list says in  *)
(* its second field the mark of the row it is in.                            *)

RECURSIVE RowsWithin(_)
RECURSIVE ScalarsIn(_)

\* The rows of the lists inside a row, at every depth.
RowsWithin(row) ==
    UNION {LET value == row.fields[i].value
           IN  CASE value[1] = "rows" -> UNION {{r} \cup RowsWithin(r) : r \in ToSet(value[2])}
                 [] value[1] = "object" -> RowsWithin(value[2])
                 [] OTHER -> {} : i \in DOMAIN row.fields}

DocumentRows(doc) ==
    UNION {{r} \cup RowsWithin(r) : r \in UNION {ToSet(doc[i].rows) : i \in DOMAIN doc}}

\* What a row says itself, in its objects too.
ScalarsIn(row) ==
    UNION {LET value == row.fields[i].value
           IN  CASE value[1] = "object" -> ScalarsIn(value[2])
                 [] value[1] = "rows" -> {}
                 [] OTHER -> ToSet(ScalarsOf(value)) : i \in DOMAIN row.fields}

Mark(row) == row.fields[1].value[2][2]
Nested(row) == Len(row.fields) > 1 /\ row.fields[2].key = <<"under">>

\* The scalars of a stored value.
Parts(v) == IF v[1] = "list" THEN ToSet(v[2]) ELSE {v}

Marked(store, mark) ==
    {r \in DOMAIN store.records : <<"string", mark>> = store.records[r].values[<<"mark">>]}

\* A value that its property can have: what the shape of the schema says.
Fits(store, v, prop) ==
    LET one(x) == \/ x = Null
                  \/ CASE prop.type = "reference" ->
                            /\ x[1] = "reference" /\ x[2] \in DOMAIN store.records
                            /\ store.records[x[2]].schema = prop.ref
                       [] prop.type \in {"number", "boolean"} -> x[1] = prop.type
                       [] OTHER -> x[1] = "string"
    IN  prop.many = (v[1] = "list") /\ \A x \in Parts(v) : one(x)

\* Record r says text: as a value, or by referring to the record with that id.
Says(store, r, text) ==
    \E k \in DOMAIN store.records[r].values : \E x \in Parts(store.records[r].values[k]) :
        IF x[1] = "reference"
        THEN /\ <<"id">> \in DOMAIN store.records[x[2]].values
             /\ store.records[x[2]].values[<<"id">>][2] = text
        ELSE x[2] = text

\* One record for every row and none besides; it says all that the row does, it
\* makes up nothing (but for blanks in a field of numbers or booleans, which turn
\* to 0 and false), it refers to the record of the row it was in, and it fits the
\* schema that was inferred.
Whole(doc, store) ==
    /\ Cardinality(DOMAIN store.records) = Cardinality(DocumentRows(doc))
    /\ \A row \in DocumentRows(doc) : \E r \in Marked(store, Mark(row)) :
        LET record == store.records[r]
            said == ScalarsIn(row)
        IN  /\ \A s \in said : s[1] \notin {"blank", "null"} => Says(store, r, s[2])
            /\ \A k \in DOMAIN record.values : \A x \in Parts(record.values[k]) :
                \/ x[1] = "reference" \/ x = Null
                \/ \E s \in said : \/ x[2] = s[2]
                                   \/ s[1] = "blank" /\ x[2] \in {"0", "false"}
            /\ Nested(row) =>
                \E q \in Marked(store, row.fields[2].value[2][2]) :
                    record.values[ParentField] = <<"reference", q>>
    /\ \A p \in DOMAIN store.props : \A r \in DOMAIN store.records :
        store.records[r].schema = store.props[p].schema =>
            Fits(store, store.records[r].values[store.props[p].name], store.props[p])
=============================================================================
