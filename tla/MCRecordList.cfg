\* Three records at most, two values, one record to a page.
SPECIFICATION Spec
CONSTANTS
    Record = {1, 2, 3}
    Value = {1, 2}
    Blank = 1
    Search <- MCSearch
    PageSize = 1
INVARIANTS
    ListHolds
