CONSTANTS
    Srcs = {s1, s2}
    Dsts = {d1, d2}
    BASE_PORT = 10
    PORT_RANGE = 3
    PENDING_CAP = 1
    Fed = {"SYN", "ACK", "FIN", "RST"}
    MaxQueue = 1
    MaxSockets = 2
SPECIFICATION StackSpec
INVARIANTS AnswersComeHome RelayReachesDestination OneSocketPerPort
SYMMETRY Symmetry
