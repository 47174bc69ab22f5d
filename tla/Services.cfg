CONSTANTS
    MaxIntents = 2
    ProbePorts <- PROBE_PORTS
SPECIFICATION FairServiceSpec
PROPERTIES SearchEnds CancelledSearchIsSilent
