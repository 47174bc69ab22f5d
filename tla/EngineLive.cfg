CONSTANTS
    Callers = {c1}
    Tasks = {t1, t2}
    Procs = {c1, t1, t2}
    FailureKinds = {"TunOpenFailed"}
    Calls = {"server", "client", "stop"}
    Faults = {"bind", "open"}
SPECIFICATION FairEngineSpec
ACTION_CONSTRAINT TakesFirst
PROPERTIES ServerStopsIfSignalStays ClientStops StartSettles StopCompletes HeardCatchesUp
