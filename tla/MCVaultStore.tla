---------------------------- MODULE MCVaultStore ----------------------------
EXTENDS VaultStore

CONSTANTS s1, name, tags, v1, v2, m1

\* Batch ids are numbers here and a batch's stamp is its id: batches arrive in
\* every order, so nothing is lost by minting their stamps in one.
MCHlcOf == [b \in BatchId |-> b]

\* The batches the browser sends: creation, an edit of one property, the undo
\* of an edit (remove, then the old value), members added and removed, the
\* deletion of a record and its undo (remove, then the whole record).
Creation(s)  == <<Create(s), Identify(s), Assign(s, name, v1)>>
Edits1(s)    == {<<Assign(s, name, v1)>>, <<Assign(s, name, v2)>>,
                 <<Erase(s, name)>>, <<Erase(s, name), Assign(s, name, v1)>>}
TagEdits(s)  == {<<Hold(s, tags), Insert(s, tags, {m1})>>,
                 <<Discard(s, tags, {m1})>>,
                 <<Erase(s, tags), Insert(s, tags, {m1})>>}
Undeletion(s) == <<Drop(s), Create(s), Identify(s), Assign(s, name, v2)>>

EditShapes   == {Creation(s1)} \cup Edits1(s1) \cup TagEdits(s1)
RetireShapes == {Creation(s1), <<Assign(s1, name, v2)>>, <<Drop(s1)>>,
                 <<Hold(s1, tags), Insert(s1, tags, {m1})>>,
                 <<Discard(s1, tags, {m1})>>}
AllShapes    == EditShapes \cup {<<Drop(s1)>>, Undeletion(s1)}

\* Only the first two batches are ever made before a deletion is over.
Retired == {f \in [BatchId -> RetireShapes \cup {Unminted}] : f[3] = Unminted}
=============================================================================
