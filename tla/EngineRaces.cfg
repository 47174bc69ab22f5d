CONSTANTS
    Callers = {c1, c2}
    Tasks = {t1, t2}
    Procs = {c1, c2, t1, t2}
    FailureKinds = {"TunOpenFailed"}
    Calls = {"server", "client", "stop", "shutdown"}
    Faults = {"bind", "open", "read"}
SPECIFICATION EngineSpec
INVARIANTS PreparingHasStarter ConnectingHasDriver EndsOnlyWhenTold
SYMMETRY Symmetry
VIEW Unheard
