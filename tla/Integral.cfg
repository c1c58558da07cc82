\* Up to four processes, and a pipe that holds three results.
SPECIFICATION FairSpec
CONSTANTS
    MaxProcesses = 4
    CAPACITY = 3
INVARIANTS
    SolutionIsSum
    ChildLostOnlyByEOF
    OnlyTwoDeadlocks
PROPERTIES
    ParentEnds
