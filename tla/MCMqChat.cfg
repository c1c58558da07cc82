\* Three clients, two slots and queues of two messages; two of the clients, or
\* all of them, may share a name.
SPECIFICATION Spec
CONSTANTS
    Client = {c1, c2, c3}
    Name = {n1, n2, n3}
    SERVER_QUEUE = SERVER_QUEUE
    None = None
    MAX_NO_CLIENTS = 2
    QUEUE_SIZE = 2
    MaxCommands = 6
INVARIANTS
    ConnectedIsListed
    InitUnderWay
    SameConversation
SYMMETRY Symmetry
CHECK_DEADLOCK FALSE
