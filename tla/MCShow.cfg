SPECIFICATION FairSpec
CONSTANTS
    p1 = p1
    Proc = {p1}
    Row <- MCRow
    Iface <- MCIface
    RowKind <- MCRowKind
    RowFamily <- MCRowFamily
    RowIface <- MCRowIface
    Command <- MCCommand
    MaxChanges = 3
INVARIANTS
    SuccessIsComplete
    SuccessIsSnapshot
    NeverStuckInRecv
    IInv
PROPERTIES
    Implements
    Terminates
