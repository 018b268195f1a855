--------------------------- MODULE MCLocalEngine ---------------------------
EXTENDS LocalEngine

CONSTANTS s1, s2, name, tags, v1, v2, m1, t1, t2

Named(v) == [BrowserFresh EXCEPT !.scalar[name] = v]
MCStored == [Nothing EXCEPT ![s1] = Named(v1)]

\* Both tabs change the record that is there, in one place or in two; one
\* makes a second record, the other deletes the first.
MCEditOf ==
    [t \in Tab |->
        IF t = t1 THEN {<<Assign(s1, name, v2)>>,
                        <<Create(s2), Identify(s2), Assign(s2, name, v1)>>,
                        <<Erase(s2, name), Assign(s2, name, v2)>>}
        ELSE {<<Erase(s1, name), Insert(s1, tags, {m1})>>, <<Drop(s1)>>}]

MCIncoming == {[Nothing EXCEPT ![s2] = Named(v1)]}
=============================================================================
