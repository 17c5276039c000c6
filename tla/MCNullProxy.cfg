SPECIFICATION Spec
CONSTANTS
    c1 = c1
    c2 = c2
    Conns = {c1}
    limit <- MCone
    Null = Null
INVARIANTS TypeOK RelayedInOrder FlushedBeforeClose StatPresent
PROPERTY BothSidesClose
CHECK_DEADLOCK FALSE
