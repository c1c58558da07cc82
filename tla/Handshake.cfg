\* Two senders of two commands: to print numbers or the time, to exit, or
\* nothing the catcher knows.  SIGINT may reach one of them and the catcher.
SPECIFICATION FairSpec
CONSTANTS
    Sender = {s1, s2}
    Catcher = Catcher
    NoSignal = NoSignal
    Operations = {1, 4, 5, 6}
    MaxCommands = 2
    Interrupted = {s1, Catcher}
INVARIANTS
    TypeOK
    NoCommandSkipped
    WaitsForEverOnlyIf
PROPERTIES
    SendersComeToAnEnd
    TimeIsPrinted
CHECK_DEADLOCK FALSE
