CONSTANTS
    Srcs = {s1, s2}
    Dsts = {d1, d2}
    BASE_PORT = 10
    PORT_RANGE = 3
SPECIFICATION NatSpec
INVARIANTS Inverse FullOnlyWhenFull
PROPERTY LeaseSpec
