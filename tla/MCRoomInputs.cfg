SPECIFICATION InputsSpec
CONSTANTS
    c1 = c1
    c2 = c2
    alice = alice
    None = None
    Torn = Torn
    Conn = {c1, c2}
    Name = {alice}
    NameOf <- AllAlice
    RegisterCap = 1
    UnregisterCap = 1
    GraceCap = 1
    SendCap = 2
    InputCap = 2
CHECK_DEADLOCK FALSE
INVARIANT GraceTankCoasts
