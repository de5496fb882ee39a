SPECIFICATION Spec
CONSTANTS
    Word = {w1, w2}
    FLEN = 4
INVARIANTS
    IInv
    QueueInv
