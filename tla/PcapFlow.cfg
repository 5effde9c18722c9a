CONSTANTS
    Nodes = {n1, n2, n3}
    FlowElementNum = 3
    TcpKeys = {"tcp1"}
    UdpKeys = {u1, u2}
    OtherKinds = {"direct", "skip", "drop"}
    Win = 3
    UdpIdle = 1
    MaxClock = 6
    BlockSize = 2
    MaxPackets = 3
    MaxFaults = 2
SPECIFICATION Spec
INVARIANTS NodesOwned PacketsCounted WindowsApart NoHang
SYMMETRY MCSymmetry
CHECK_DEADLOCK FALSE
