SPECIFICATION Spec
CONSTANTS
    IO_TIMEOUT = 2
    HEADER_TIMEOUT = 1
    HANDSHAKE_TIMEOUT = 1
    CONN_MAX = 6
    PROGRESS_TIMEOUT = 3
    MIN_PROGRESS = 2
    MAX_REQS = 2
    MAX_ROUNDS = 2
    MAX_HEADER = 2
    FLIGHT = 1
    MaxResponseSecs = 0
    MaxBody = 3
    Burst = 2
    Pipeline = 2
    None = None
INVARIANT PhasesBounded
INVARIANT ResponseBounded
INVARIANT PipelineKept
INVARIANT NoStaleWindow
PROPERTY EventuallyClosed
