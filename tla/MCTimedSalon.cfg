\* Two hairdressers, three clients, one seat.
SPECIFICATION TimedSpec
CONSTANTS
    Client = {c1, c2, c3}
    Hairdresser = {h1, h2}
    NoClient = NoClient
    N = 1
    WAITING_ROOM = 1
    MAX_QUEUE_SIZE = 3
INVARIANTS
    LastOneLocksUp
PROPERTIES
    AdmittedIsShorn
CHECK_DEADLOCK FALSE
