SPECIFICATION Spec
CONSTANTS
    Proc = {p1, p2, p3}
    Conn = {k1, k2, k3}
    None = None
INVARIANTS TypeOK ErrorNeedsClose GuardPinsConnection NoDeadlock
PROPERTIES NoNeedlessReplacement CallsReturn
