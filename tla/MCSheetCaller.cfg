\* Two cells; the bound is enough for two passes that fail between two edits.
CONSTANTS
    Columns = 2
    Formulas <- FewFormulas
    MaxEdits = 7
    Letter = Letter
SPECIFICATION CallerSpec
INVARIANTS RecalculatedIsFresh
CHECK_DEADLOCK FALSE
