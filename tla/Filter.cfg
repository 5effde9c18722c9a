CONSTANTS
    Flows <- MCFlows
    Comparisons <- MCComparisons
    FlagLists <- MCFlagLists
    Hosts <- MCHosts
    IpLists <- MCIpLists
    MaxBlocks = 4
    MaxNots = 2
SPECIFICATION Spec
INVARIANT Selects
CHECK_DEADLOCK FALSE
