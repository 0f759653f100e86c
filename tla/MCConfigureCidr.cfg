SPECIFICATION Spec
CONSTANTS
    p1 = p1
    Proc = {p1}
    Iface <- MCIface
    Name <- MCName
    NoName = "none"
    Addr <- MCAddr
    NoAddr = ""
    AddrFamily <- MCAddrFamily
    Masked <- MCMasked
    Text <- MCText
    Command <- MCRouteCommand
    OtherRoute <- MCOtherRoute
    PrefixGarbage <- MCPrefixGarbage
    AddrGarbage <- MCAddrGarbage
    IfaceGarbage <- MCIfaceGarbage
    MaxChanges = 0
INVARIANTS
    CidrHonoured
