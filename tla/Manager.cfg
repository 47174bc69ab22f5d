CONSTANTS
    Callers = {c1}
    Tasks = {t1}
    Procs = {c1, t1}
    FailureKinds = {"TunOpenFailed"}
    Calls = {"server", "client", "stop", "acknowledge"}
    Faults = {}
SPECIFICATION ManagerSpec
INVARIANT AppShowsSession
