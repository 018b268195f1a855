--------------------------- MODULE MCAppBuilder ---------------------------
EXTENDS AppBuilder

J == INSTANCE JsonImport WITH EnumMinSamples <- 3, EnumMaxDistinct <- 1

Text(t) == <<"scalar", <<"text", t>>>>
Row(mark, hints, fields) ==
    [hints |-> hints, fields |-> <<[key |-> <<"mark">>, value |-> Text(mark)]>> \o fields]
At(key, value) == [key |-> <<key>>, value |-> value]
In(mark) == At("under", Text(mark))
List(rows) == <<"rows", rows>>
Hint(key, hint) == [k \in {<<key>>} |-> hint]

\* Small enough to go on building on: two schemas, a reference, a label.
Notes == <<[name |-> <<"n">>, rows |-> <<Row("a", <<>>, <<>>)>>],
           [name |-> <<"m">>, rows |->
                <<Row("b", Hint("to", <<"reference", <<"n">>>>), <<At("to", <<"scalar", <<"blank", "">>>>)>>)>>]>>

\* Lists in lists, under two rows each.
Inner(mark, under) == Row(mark, <<>>, <<In(under)>>)
Outer(mark, under) ==
    Row(mark, <<>>, <<In(under),
                      At("inner", List(<<Inner(mark \o "1", mark), Inner(mark \o "2", mark)>>))>>)
Lists2 == <<[name |-> <<"top">>, rows |->
    <<Row("a", <<>>, <<At("outer", List(<<Outer("aa", "a"), Outer("ab", "a")>>))>>),
      Row("b", <<>>, <<At("outer", <<"list", <<>>>>)>>),
      Row("c", <<>>, <<At("outer", List(<<Outer("ca", "c")>>)),
                       At("inner", <<"object", [hints |-> <<>>, fields |->
                            <<At("x", Text("deep")), At("inner", List(<<Inner("d", "c")>>))>>]>>)>>)>>]>>

\* References there and back, one to an id declared later, one list of them.
Linked == <<[name |-> <<"p">>, rows |->
                <<Row("a", Hint("to", <<"reference", <<"q">>>>),
                      <<At("id", Text("i1")), At("to", Text("j2"))>>),
                  Row("b", <<>>, <<At("id", Text("i2")), At("to", Text("j1"))>>)>>],
            [name |-> <<"q">>, rows |->
                <<Row("c", Hint("back", <<"reference", <<"p">>>>),
                      <<At("id", Text("j1")),
                        At("back", <<"list", <<<<"text", "i2">>, <<"text", "i1">>>>>>)>>),
                  Row("d", <<>>, <<At("id", Text("j2"))>>)>>]>>

Samples == <<<<"text", "t">>, <<"long", "l">>, <<"number", "1">>, <<"numeral", "2">>,
             <<"boolean", "true">>, <<"date", "d">>, <<"url", "u">>, <<"email", "e">>,
             <<"blank", "">>, <<"null", "">>>>

\* Each sample alone, in a list, and in a list with a number.
Shape(i) ==
    LET s == Samples[(i % 10) + 1]
    IN  CASE i < 10 -> <<"scalar", s>>
          [] i \in 10 .. 19 -> <<"list", <<s, s>>>>
          [] OTHER -> <<"list", <<s, <<"number", "3">>>>>>

\* Two rows of one field, of every pair of shapes.
Pair(i) == <<[name |-> <<"e">>, rows |-> <<Row("a", <<>>, <<At("x", Shape(i \div 30))>>),
                                           Row("b", <<>>, <<At("x", Shape(i % 30))>>)>>]>>

Documents == <<Notes, Lists2, Linked>> \o [i \in 1 .. 900 |-> Pair(i - 1)]

MCImports == [d \in DOMAIN Documents |-> J!BuildBackup(J!NormalizeDocument(Documents[d]).out)]
MCSpent == [d \in DOMAIN Documents |-> IF d = 1 THEN 3 ELSE MaxGestures]
MCRenameTo == {<<"label">>, <<"field", "1">>}

\* An imported document arrives whole: every row is one record with all that the row
\* said, in properties that can hold it, under the record of the row it was in
\* (normalize.ts, infer.ts and buildBackup.ts together).
RowsArriveWhole ==
    imported # None => J!Whole(Documents[imported], [records |-> records, props |-> props])
=============================================================================
