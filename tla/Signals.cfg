\* Each program and option; two children stop in each half of test_nocldstop.
SPECIFICATION FairSpec
CONSTANTS
    N = 2
INVARIANTS
    InheritanceAsShown
    DiesAsTested
    OnlySleepTooShort
PROPERTIES
    ProgramsEnd
