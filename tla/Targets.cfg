CONSTANTS
    MaxAddr = 7
    AddrBits = 3
    Rounds = 4
    Ports <- SomePorts
    OtherPorts <- TwoProtocols
    ExcludedAddrs = {0, 1, 2, 3, 4, 5, 6}
    Seeds = {6}
    Shards = {1, 3}
    Settings <- SomeSettings
    EtcFiles <- SomeEtcFiles
    RdpArguments <- SomeRdpArguments
    FewSpans <- SomeSpans
    PauseAt = {1, 4}
    MaxAdds = 2
    MaxExcludes = 1
    MaxSettings = 2
SPECIFICATION Spec
INVARIANTS ListsDenote EveryTargetOnce ResumeRestores
