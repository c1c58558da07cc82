\* Two files and a directory, with a file and a directory in it; a string of two
\* bytes, files of any bytes.
SPECIFICATION Spec
CONSTANTS
    Root = Root
    f1 = f1
    f2 = f2
    f3 = f3
    d1 = d1
    d2 = d2
    Dir = {Root, d1, d2}
    File = {f1, f2, f3}
    entries <- MCEntries
    Deniable = {f1, d2}
    length = 2
INVARIANTS
    PrintedOnce
    GoneIsSearched
    FalseMatchIsPrefix
