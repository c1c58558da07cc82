\* Two hairdressers, two clients: the salon that may never finish.
SPECIFICATION TimedSpec
CONSTANTS
    Client = {c1, c2}
    Hairdresser = {h1, h2}
    NoClient = NoClient
    N = 1
    WAITING_ROOM = 1
    MAX_QUEUE_SIZE = 2
PROPERTIES
    SalonFinishes
CHECK_DEADLOCK FALSE
