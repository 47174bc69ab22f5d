CONSTANTS
    CHANNEL_CAP = 2
    SOCK_BUF = 2
    MaxUp = 3
    MaxDown = 3
SPECIFICATION FairSpec
INVARIANTS InOrder FittingIsKept
PROPERTIES AppResetReachesUpstream UpstreamEndReachesApp BothClosedReleases
CHECK_DEADLOCK FALSE
