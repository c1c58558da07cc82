\* Three clients for one slot, the id of one of them 0, queues of two messages;
\* users may take c1 for the server; SIGINT may reach the server and c1.
SPECIFICATION Spec
CONSTANTS
    Client = {c0, c1, c2}
    Server = Server
    Free = c0
    Nobody = Nobody
    MAX_NO_CLIENTS = 1
    QUEUE_SIZE = 2
    Talkative = {c1, c2}
    Most = 2
    Least = 1
    MaxCommands <- Lines
    Hosts = {Server, c1}
    Recipients = {}
    Interrupted = {Server, c1}
INVARIANTS
    ConnectedIsListed
    HandlesOnlyListed
    AnswerMeetsRequest
    IdleServerKeepsNobody
    SlotLostOnlyUnaware
CHECK_DEADLOCK FALSE
