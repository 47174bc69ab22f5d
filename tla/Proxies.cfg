CONSTANTS
    AuthEnabled = FALSE
    MAX_HEADER_SIZE = 3
    MaxAttempts = 2
    MaxData = 2
    Peers = {"SocksClient", "socks", "http"}
    Addrs <- SomeAddrs
    Port = 443
SPECIFICATION FairProxySpec
INVARIANTS TunnelCarriesTheStream OneVerdictThenData SuccessIsWhatWasAsked ClientStreamIsTunnel
PROPERTIES ClientReturns HandlerEnds HalfCloseDelivers
CHECK_DEADLOCK FALSE
