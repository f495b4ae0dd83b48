SPECIFICATION SerialLiveSpec
CONSTANTS
    c1 = c1
    c2 = c2
    c3 = c3
    alice = alice
    None = None
    Conn = {c1, c2}
    Name = {alice}
    NameOf <- AllAlice
    RegisterCap = 1
    UnregisterCap = 1
    GraceCap = 1
    SendCap = 1
CHECK_DEADLOCK FALSE
INVARIANT NoOrphanTank
INVARIANT PlayerCountExact
PROPERTY ImplementsSessions
PROPERTY DeadConnectionLeaves
PROPERTY AbandonedTankRemoved
