SPECIFICATION Spec
CONSTANTS
    p1 = p1
    Proc = {p1}
    Row <- MCSmallRow
    Iface <- MCSmallIface
    RowKind <- MCSmallRowKind
    RowFamily <- MCSmallRowFamily
    RowIface <- MCSmallRowIface
    Command <- MCShowIpRoute
    MaxChanges = 1
INVARIANTS
    FailureIsReported
