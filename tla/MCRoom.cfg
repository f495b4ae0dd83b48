SPECIFICATION Spec
CONSTANTS
    c1 = c1
    c2 = c2
    c3 = c3
    alice = alice
    None = None
    Conn = {c1, c2, c3}
    Name = {alice}
    NameOf <- AllAlice
    RegisterCap = 1
    UnregisterCap = 1
    GraceCap = 1
    SendCap = 1
CHECK_DEADLOCK FALSE
SYMMETRY Symmetry
CONSTRAINT NotRemoved
INVARIANT TypeOK
INVARIANT TankExclusive
INVARIANT GraceHasWakeup
INVARIANT NoGhostName
