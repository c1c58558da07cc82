\* One client, and SIGINT for the server only.
SPECIFICATION FairSpec
CONSTANTS
    Client = {c1}
    Server = Server
    Free = Free
    Nobody = Nobody
    MAX_NO_CLIENTS = 1
    QUEUE_SIZE = 8
    Talkative = {}
    Most = 2
    Least = 2
    MaxCommands <- Lines
    Hosts = {Server}
    Recipients = {c1}
    Interrupted = {Server}
PROPERTIES
    ServerCloses
CHECK_DEADLOCK FALSE
