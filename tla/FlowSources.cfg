CONSTANTS
    V5 = {"a"}
    V9 = {"b", "c"}
    Ipfix = {"d"}
    TemplateIds = {1, 2}
    V5Layout = {4, 6}
    RouterId = 24
    SeqWrap = 4
    MaxSysId = 3
    MaxExporters = 9
    Networks <- MCNetworks
    Rates = {2, 3}
    MaxPackets = 4
    MaxFiles = 1
    MaxRestarts = 1
SPECIFICATION Spec
INVARIANTS NothingFreedInUse MapsResolve DecodesAsAnnounced ExportersResolve SamplersAsTold GapsCounted
CHECK_DEADLOCK FALSE
