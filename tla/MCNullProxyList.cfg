SPECIFICATION Spec
CONSTANTS
    c1 = c1
    c2 = c2
    Conns = {c1, c2}
    limit <- MCtwo
    Null = Null
INVARIANTS ListedWhileOpen NothingLeftListed
CHECK_DEADLOCK FALSE
