SPECIFICATION Spec
CONSTANTS
    Message <- MCMetricMessage
    IFA_MAX = 8
    IFLA_MAX = 48
    RTA_MAX = 26
    RTAX_MAX = 17
INVARIANTS
    EveryMetricShown
