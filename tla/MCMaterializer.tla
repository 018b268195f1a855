--------------------------- MODULE MCMaterializer ---------------------------
EXTENDS Materializer

CONSTANTS s1, s2, name, tags, v1, v2, m1

Creation(s) == <<Create(s), Identify(s), Assign(s, name, v1)>>

\* One subject created, edited, deleted and restored, and a batch that touches
\* two subjects, so that an entry takes several writes.
ReplayEdits == {Creation(s1), <<Assign(s1, name, v2)>>, <<Drop(s1)>>,
                <<Insert(s1, tags, {m1}), Create(s2)>>,
                <<Drop(s1), Create(s2), Assign(s1, name, v2)>>}

\* Enough to lose an edit, to find old values and to delete twice.
SmallEdits == {<<Create(s1), Assign(s1, name, v1)>>, <<Assign(s1, name, v2)>>,
               <<Drop(s1)>>, <<Create(s1)>>}

\* What is written matters little to when it is acknowledged.
LiveEdits == {<<Create(s1), Assign(s1, name, v1)>>, <<Drop(s1)>>}
=============================================================================
