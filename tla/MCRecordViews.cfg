CONSTANTS
    Readers = {p1}
    Sessions = {s1, s2}
    Datasets = {d1}
    Operations = {o1}
    Fields = {f1, f2}
    Scalars = {x1}
    Limits = {1, 4}
    MaxBytes = 7
    MaxCursors = 1
    MaxItems = 3
    None = None
    ItemLists <- MCItemLists
    DefaultLimit <- MCDefaultLimit
    MaxLimit <- MCMaxLimit
    Overhead <- MCOverhead
    CursorBytes <- MCCursorBytes
SPECIFICATION Spec
SYMMETRY MCSymmetry
CHECK_DEADLOCK FALSE
INVARIANTS ReadsInOrder PageExact RegisteredSummaryFits
PROPERTIES CursorsBornLive
