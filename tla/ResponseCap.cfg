SPECIFICATION Spec
CONSTANTS
    IO_TIMEOUT = 3
    HEADER_TIMEOUT = 2
    HANDSHAKE_TIMEOUT = 2
    CONN_MAX = 12
    PROGRESS_TIMEOUT = 6
    MIN_PROGRESS = 2
    MAX_REQS = 3
    MAX_ROUNDS = 3
    MAX_HEADER = 2
    FLIGHT = 1
    MaxResponseSecs = 5
    MaxBody = 3
    Burst = 2
    Pipeline = 2
    None = None
PROPERTY CapIsPerResponse
