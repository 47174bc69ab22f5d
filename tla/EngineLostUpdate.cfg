CONSTANTS
    Callers = {c1, c2}
    Tasks = {t1}
    Procs = {c1, c2, t1}
    FailureKinds = {"TunOpenFailed"}
    Calls = {"server", "client", "stop"}
    Faults = {}
SPECIFICATION EngineSpec
PROPERTY LifecycleSpec
