\* Two clients and two slots, queues of two messages; users may have the server
\* send a message to itself; SIGINT may reach a client.
SPECIFICATION FairSpec
CONSTANTS
    Client = {c1, c2}
    Server = Server
    Free = Free
    Nobody = Nobody
    MAX_NO_CLIENTS = 2
    QUEUE_SIZE = 2
    Talkative = {c2}
    Most = 3
    Least = 2
    MaxCommands <- Lines
    Hosts = {Server}
    Recipients = {Server}
    Interrupted = {c2}
INVARIANTS
    ConnectedIsListed
PROPERTIES
    RequestsAnswered
    SlotFreed
CHECK_DEADLOCK FALSE
