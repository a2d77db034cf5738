CONSTANTS
    Thread = {t1, t2, t3}
    Block = {b1, b2}
    MaxObjects = 4
    Nil = Nil
SYMMETRY Symmetry
SPECIFICATION Spec
CHECK_DEADLOCK FALSE
INVARIANTS TypeOK OwnState EntriesAccounted
