--------------------------- MODULE MCRecordList ---------------------------
EXTENDS RecordList

\* Everything, or what holds the greater value.
MCSearch == {Value, {2}}
=============================================================================
