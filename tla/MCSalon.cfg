\* Two hairdressers, one chair, one seat, four clients: one may be turned away.
SPECIFICATION Spec
CONSTANTS
    Client = {c1, c2, c3, c4}
    Hairdresser = {h1, h2}
    NoClient = NoClient
    N = 1
    WAITING_ROOM = 1
    MAX_QUEUE_SIZE = 4
SYMMETRY Symmetry
INVARIANTS
    PopFindsClient
    ServesWaitingClient
    ChairsAccounted
    HairdressersPromised
    SeatNeverLost
    StuckOnlyWhenDeserted
    OnlyTurnedAwayLeak
PROPERTIES
    ImplementsBarbershop
