SPECIFICATION Spec
CONSTANTS
    p1 = p1
    Proc = {p1}
    Iface <- MCIface
    Name <- MCName
    NoName = "none"
    Addr <- MCAddr
    NoAddr = ""
    AddrFamily <- MCAddrFamily
    Masked <- MCMasked
    Text <- MCText
    Command <- MCRemove
    OtherRoute <- MCOtherRoute
    PrefixGarbage <- MCPrefixGarbage
    AddrGarbage <- MCAddrGarbage
    IfaceGarbage <- MCIfaceGarbage
    MaxChanges = 1
INVARIANTS
    RemovesTheRouteNamed
