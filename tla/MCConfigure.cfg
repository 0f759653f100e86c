SPECIFICATION FairSpec
CONSTANTS
    p1 = p1
    Proc = {p1}
    Iface <- MCIface
    Name <- MCName
    NoName = "none"
    Addr <- MCAddr
    NoAddr = ""
    AddrFamily <- MCAddrFamily
    Masked <- MCMasked
    Text <- MCText
    Command <- MCAllCommand
    OtherRoute <- MCOtherRoute
    PrefixGarbage <- MCPrefixGarbage
    AddrGarbage <- MCAddrGarbage
    IfaceGarbage <- MCIfaceGarbage
    MaxChanges = 2
INVARIANTS
    TypeOK
    ExitReportsOutcome
    NeverStuckInRecv
    AddsTheRouteAsked
    IInv
PROPERTIES
    OnlyTheAskedChange
    Implements
    Terminates
