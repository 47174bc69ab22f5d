CONSTANTS
    Srcs = {s1}
    Dsts = {d1}
    BASE_PORT = 10
    PORT_RANGE = 2
    PENDING_CAP = 1
    Fed = {"SYN", "ACK", "FIN", "RST"}
    MaxQueue = 1
    MaxSockets = 1
SPECIFICATION StackSpec
PROPERTY PortReleased
