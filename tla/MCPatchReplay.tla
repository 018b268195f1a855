--------------------------- MODULE MCPatchReplay ----------------------------
EXTENDS PatchReplay

\* One subject starts from any record or none, the other from none.
MCBase == {st \in [Subject -> Record \cup {Absent}] :
             \E s \in Subject : \A t \in Subject \ {s} : st[t] = Absent}

MCFresh == ServerFresh
=============================================================================
