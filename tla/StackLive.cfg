CONSTANTS
    Srcs = {s1}
    Dsts = {d1, d2}
    BASE_PORT = 10
    PORT_RANGE = 2
    PENDING_CAP = 1
    Fed = {"SYN", "ACK", "RST"}
    MaxQueue = 2
    MaxSockets = 2
SPECIFICATION FairStackSpec
PROPERTIES OrphansAreClosed PendingAreAccepted
