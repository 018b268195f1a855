---------------------------- MODULE MCSyncSystem ----------------------------
EXTENDS SyncSystem

CONSTANTS n1, n2, s1, name, note, v1, v2

\* Batch ids are numbers and stamps, as in MCVaultStore.  Either n1 makes them
\* all and n2 follows, or n2 makes the second of three.
MCHlcOf == [b \in BatchId |-> b]
TwoEditors == [b \in BatchId |-> IF b = 2 THEN n2 ELSE n1]
OneEditor == [b \in BatchId |-> n1]

\* A record is created with a name; later edits are of its note, so that they
\* do not stand in for its creation.
Creation  == <<Create(s1), Identify(s1), Assign(s1, name, v1)>>
NodeEdits == {Creation, <<Assign(s1, note, v2)>>, <<Drop(s1)>>}
NameEdits == {<<Create(s1), Identify(s1)>>, <<Assign(s1, name, v1)>>,
              <<Assign(s1, name, v2)>>}
=============================================================================
