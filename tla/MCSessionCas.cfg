SPECIFICATION Spec
CONSTANTS
    s1 = s1
    s2 = s2
    d1 = d1
    o1 = o1
    NoSource = NoSource
    Sessions = {s1, s2}
    Datasets = {d1}
    Operations = {o1}
    SourceOf <- MCSource
    Size <- MCSize
    SessionBytes <- MCBytes
INVARIANTS RegistryExact BytesAccounted
PROPERTIES ImplementsStore
CHECK_DEADLOCK FALSE
