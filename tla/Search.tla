-------------------------------- MODULE Search --------------------------------
(***************************************************************************)
(* cw03/zad3, search.c: the files of a directory tree that begin with a    *)
(* string.  A process reads one directory; for each directory in it, it    *)
(* forks a process, which does likewise.  In the child the loops over the  *)
(* directories above are left by break, down to main, where every process  *)
(* waits for its own children.                                             *)
(*                                                                         *)
(* A file is known by its first bytes, as many as the string has or fewer, *)
(* and of a byte it matters only whether it is the string's at that place. *)
(* readdir gives the entries in any order, and once each.  Links to        *)
(* directories, and so cycles, are left out.                               *)
(*                                                                         *)
(* Output goes through stdio, whose buffer a child inherits.               *)
(*                                                                         *)
(* The definitions marked (wrong) are mistakes the code does not make.     *)
(***************************************************************************)
EXTENDS Integers, Sequences

CONSTANTS Dir, File, Root,
          entries,      \* what is in each directory
          Deniable,     \* entries that it may not be allowed to open
          length        \* strlen(string)

ASSUME SearchAssumption ==
    /\ Root \in Dir /\ Dir \cap File = {}
    /\ entries \in [Dir -> SUBSET (Dir \cup File)]
    /\ \A e \in Dir \cup File : \A d, d2 \in Dir :
        e \in entries[d] /\ e \in entries[d2] => d = d2 /\ e # Root
    /\ Deniable \subseteq Dir \cup File
    /\ length \in Nat

VARIABLES
    content,      \* the first bytes of each file, TRUE where they match
    denied,       \* entries that cannot be opened
    proc,         \* where the process of each directory is
    todo,         \* what its readdir has not yet returned
    string_buff,
    stdio,        \* what it has printed and not yet written
    printed,      \* the output
    lost          \* history: directories for which fork or getcwd failed

tree == <<content, denied>>
vars == <<tree, proc, todo, string_buff, stdio, printed, lost>>

Bytes == UNION {[1 .. n -> BOOLEAN] : n \in 0 .. length}
EmptyBuffer == [k \in 1 .. length |-> FALSE]
Subdirs(d) == entries[d] \cap Dir

Init ==
    /\ content \in [File -> Bytes]
    /\ denied \in SUBSET Deniable
    /\ proc = [d \in Dir |-> IF d = Root THEN "begin" ELSE "none"]
    /\ todo = [d \in Dir |-> {}]
    /\ string_buff = [d \in Dir |-> EmptyBuffer]
    /\ stdio = [d \in Dir |-> <<>>]
    /\ printed = <<>>
    /\ lost = {}

Goes(d, from, to) == proc[d] = from /\ proc' = [proc EXCEPT ![d] = to]
Returned(d, e) == todo' = [todo EXCEPT ![d] = @ \ {e}]

\* chdir and opendir, or return -1; "." and ".." are passed over.
Enter(d) ==
    /\ \/ d \in denied /\ Goes(d, "begin", "wait") /\ UNCHANGED todo
       \/ /\ d \notin denied /\ Goes(d, "begin", "scan")
          /\ todo' = [todo EXCEPT ![d] = entries[d]]
    /\ UNCHANGED <<tree, string_buff, stdio, printed, lost>>

\* A directory: fork, which may fail and is then passed over.  The child gets
\* a string_buff of its own.
Descend(d, e) ==
    /\ proc[d] = "scan" /\ e \in todo[d] \cap Dir
    /\ Returned(d, e)
    /\ \/ /\ proc' = [proc EXCEPT ![e] = "begin"]
          /\ stdio' = [stdio EXCEPT ![e] = stdio[d]]
          /\ UNCHANGED lost
       \/ lost' = lost \cup {e} /\ UNCHANGED <<proc, stdio>>
    /\ UNCHANGED <<tree, string_buff, printed>>

Nothing(e) == e \in denied \/ content[e] = <<>> \/ length = 0

\* (wrong) break instead of continue
StopAtNothing(d, e) ==
    /\ proc[d] = "scan" /\ e \in todo[d] \cap File
    /\ Nothing(e)
    /\ todo' = [todo EXCEPT ![d] = {}]
    /\ UNCHANGED <<tree, proc, string_buff, stdio, printed, lost>>

\* A file that cannot be opened, or of which nothing is read: continue.
Skip(d, e) ==
    /\ proc[d] = "scan" /\ e \in todo[d] \cap File
    /\ Nothing(e)
    /\ Returned(d, e)
    /\ UNCHANGED <<tree, proc, string_buff, stdio, printed, lost>>

\* fread: what is beyond the end of a short file is left as it was.
Overwrite(buff, bytes) ==
    [k \in 1 .. length |-> IF k <= Len(bytes) THEN bytes[k] ELSE buff[k]]

\* (wrong) The first bytes are compared, not the strings.
FirstMatches(buff) == buff[1]

\* strcmp(string_buff, string) == 0
Matches(buff) == \A k \in 1 .. length : buff[k]

\* A file: compare; a match is printed, or ends the search of the directory when
\* getcwd fails, as it does with a path of 255 bytes.
Compare(d, e) ==
    /\ proc[d] = "scan" /\ e \in todo[d] \cap File
    /\ ~Nothing(e)
    /\ LET buff == Overwrite(string_buff[d], content[e]) IN
        /\ string_buff' = [string_buff EXCEPT ![d] = buff]
        /\ \/ ~Matches(buff) /\ UNCHANGED <<proc, stdio, lost>>
           \/ Matches(buff) /\ Goes(d, "scan", "wait")
              /\ lost' = lost \cup {d} /\ UNCHANGED stdio
           \/ Matches(buff) /\ Goes(d, "scan", "flush")
              /\ stdio' = [stdio EXCEPT ![d] = Append(@, e)] /\ UNCHANGED lost
    /\ Returned(d, e)
    /\ UNCHANGED <<tree, printed>>

Write(d) ==
    /\ printed' = printed \o stdio[d]
    /\ stdio' = [stdio EXCEPT ![d] = <<>>]

\* (wrong) There is no fflush.
FlushLater(d) ==
    /\ Goes(d, "flush", "scan")
    /\ UNCHANGED <<tree, todo, string_buff, stdio, printed, lost>>

\* fflush(NULL)
Flush(d) ==
    /\ Goes(d, "flush", "scan")
    /\ Write(d)
    /\ UNCHANGED <<tree, todo, string_buff, lost>>

\* closedir, and back to main
CloseDir(d) ==
    /\ Goes(d, "scan", "wait") /\ todo[d] = {}
    /\ UNCHANGED <<tree, todo, string_buff, stdio, printed, lost>>

\* while (wait(NULL) > 0), then exit, which flushes.
Wait(d) ==
    /\ Goes(d, "wait", "gone")
    /\ \A e \in Subdirs(d) : proc[e] \in {"none", "gone"}
    /\ Write(d)
    /\ UNCHANGED <<tree, todo, string_buff, lost>>

Step(d) ==
    \/ Enter(d) \/ Flush(d) \/ CloseDir(d) \/ Wait(d)
    \/ \E e \in entries[d] : Descend(d, e) \/ Skip(d, e) \/ Compare(d, e)

\* Every process is gone: there, and only there, the search stops.
Stopped ==
    /\ \A d \in Dir : proc[d] \in {"none", "gone"}
    /\ UNCHANGED vars

Next == (\E d \in Dir : Step(d)) \/ Stopped

Spec == Init /\ [][Next]_vars

-----------------------------------------------------------------------------
BeginsWithString(f) == length > 0 /\ content[f] = [k \in 1 .. length |-> TRUE]

\* The directories the search does not get to, or through.
NotSearched(d) == d \in denied \cup lost

\* No file is printed twice, though every process begins with a copy of what its
\* parent has printed (search.c 53, 85-87).
PrintedOnce == \A j, k \in 1 .. Len(printed) : printed[j] = printed[k] => j = k

\* When a process is gone, all the files of its directory that begin with the
\* string have been printed, and so have those of the directories below, whose
\* processes are gone: who waits for the first process has the whole output
\* (search.c 43-92, 119).
GoneIsSearched ==
    \A d \in Dir : proc[d] = "gone" /\ ~NotSearched(d) =>
        /\ \A f \in entries[d] \cap File :
            BeginsWithString(f) /\ f \notin denied => \E k \in 1 .. Len(printed) :
                                                        printed[k] = f
        /\ \A e \in Subdirs(d) : proc[e] = "gone" \/ e \in lost

\* What is printed and does not begin with the string is shorter than the
\* string, agrees with it as far as it goes, and for every byte it lacks there is
\* a file in the same directory that has the string's (search.c 32, 70-74).
FalseMatchIsPrefix ==
    \A k \in 1 .. Len(printed) :
        LET f == printed[k]
            d == CHOOSE x \in Dir : f \in entries[x]
        IN  /\ content[f] # <<>> /\ \A j \in DOMAIN content[f] : content[f][j]
            /\ \A j \in Len(content[f]) + 1 .. length :
                \E g \in (entries[d] \cap File) \ {f} :
                    j \in DOMAIN content[g] /\ content[g][j]
=============================================================================
