\* A fresh app and an imported one are built upon; other documents are only imported.
\* CHECK_DEADLOCK FALSE: the gestures may be used up.
SPECIFICATION Spec
CONSTANTS
    Imports <- MCImports
    Spent <- MCSpent
    RenameTo <- MCRenameTo
    Types = {"text", "number", "reference"}
    Texts = {"z"}
    MaxGestures = 6
    MaxDepth = 2
CHECK_DEADLOCK FALSE
INVARIANTS
    WellBound
    ValuesFollow
    SiblingsOrdered
    RowsArriveWhole
