----------------------------- MODULE SearchProofs -----------------------------
(***************************************************************************)
(* Theorems about the parallel search, for any directory tree, any files,  *)
(* any string and any failures of fork, chdir, fopen and getcwd.           *)
(***************************************************************************)
EXTENDS Search, SequenceTheorems, WellFoundedInduction, TLAPS

IsPrinted(f) == \E k \in 1 .. Len(printed) : printed[k] = f

\* What the process of d is through with.
Seen(d) == IF proc[d] \in {"none", "begin"} THEN {} ELSE entries[d] \ todo[d]

\* A file that may be printed: what it lacks is in other files of the directory.
Explained(d, f) ==
    /\ content[f] # <<>> /\ \A j \in DOMAIN content[f] : content[f][j]
    /\ \A j \in Len(content[f]) + 1 .. length :
        \E g \in (entries[d] \cap File) \ {f} : j \in DOMAIN content[g] /\ content[g][j]

TypeInv ==
    /\ content \in [File -> Bytes] /\ denied \in SUBSET Deniable
    /\ proc \in [Dir -> {"none", "begin", "scan", "flush", "wait", "gone"}]
    /\ todo \in [Dir -> SUBSET (Dir \cup File)]
    /\ string_buff \in [Dir -> [1 .. length -> BOOLEAN]]
    /\ stdio \in [Dir -> Seq(File)]
    /\ printed \in Seq(File)
    /\ lost \in SUBSET Dir

\* A process is forked once, by the process of the directory above.
ForkInv ==
    \A d \in Dir :
        /\ todo[d] \subseteq entries[d]
        /\ \A e \in Subdirs(d) : proc[d] \in {"none", "begin"} \/ e \in todo[d]
                                    => proc[e] = "none"

\* What is in string_buff is left from files the process has read.
BuffInv ==
    \A d \in Dir, j \in 1 .. length : string_buff[d][j] =>
        \E g \in Seen(d) \cap File : j \in DOMAIN content[g] /\ content[g][j]

\* A process holds back one file at most, and that only until fflush.
HeldInv ==
    \A d \in Dir :
        IF proc[d] = "flush"
        THEN \E f \in Seen(d) \cap File :
                stdio[d] = <<f>> /\ ~IsPrinted(f) /\ Explained(d, f)
        ELSE stdio[d] = <<>>

PrintInv ==
    /\ PrintedOnce
    /\ \A f \in File : IsPrinted(f) => \E d \in Dir : f \in Seen(d) /\ Explained(d, f)

\* What is seen of a directory, and begins with the string, is printed or about
\* to be; the directories below have their processes, or are lost.
SearchInv ==
    \A d \in Dir : ~NotSearched(d) =>
        /\ \A f \in Seen(d) \cap File :
            BeginsWithString(f) /\ f \notin denied => IsPrinted(f) \/ stdio[d] = <<f>>
        /\ \A e \in Seen(d) \cap Dir : proc[e] # "none" \/ e \in lost
        /\ proc[d] \in {"wait", "gone"} => todo[d] = {}
        /\ proc[d] = "gone" => \A e \in Subdirs(d) : proc[e] = "gone" \/ e \in lost

Inv == TypeInv /\ ForkInv /\ BuffInv /\ HeldInv /\ PrintInv /\ SearchInv

-----------------------------------------------------------------------------
\* The first bytes of a file.
LEMMA BytesAre ==
    ASSUME SearchAssumption, NEW b \in Bytes
    PROVE  b \in Seq(BOOLEAN) /\ Len(b) \in 0 .. length /\ DOMAIN b = 1 .. Len(b)
  <1>1. PICK n \in 0 .. length : b \in [1 .. n -> BOOLEAN]
    BY DEF Bytes
  <1>2. n \in Nat
    BY DEF SearchAssumption
  <1>3. b \in Seq(BOOLEAN) /\ DOMAIN b = 1 .. n
    BY <1>1, <1>2, SeqDef
  <1>4. Len(b) \in Nat /\ 1 .. Len(b) = 1 .. n
    BY <1>3, LenProperties
  <1>5. Len(b) = n
    BY <1>2, <1>4
  <1> QED
    BY <1>3, <1>5

\* The entries of a directory are nobody else's.
LEMMA OneParent ==
    ASSUME SearchAssumption, NEW d \in Dir, NEW e \in entries[d]
    PROVE  /\ e \in Dir \cup File /\ e # Root
           /\ \A c \in Dir : e \in entries[c] => c = d
  BY DEF SearchAssumption

LEMMA StepType ==
    ASSUME SearchAssumption, TypeInv, NEW d \in Dir, Step(d)
    PROVE  TypeInv'
  <1>1. CASE Enter(d)
    <2>1. entries[d] \in SUBSET (Dir \cup File)
      BY DEF SearchAssumption
    <2>2. proc' \in [Dir -> {"none", "begin", "scan", "flush", "wait", "gone"}]
      BY <1>1 DEF Enter, Goes, TypeInv
    <2>3. todo' \in [Dir -> SUBSET (Dir \cup File)]
      BY <1>1, <2>1 DEF Enter, TypeInv
    <2> QED
      BY <1>1, <2>2, <2>3 DEF Enter, TypeInv, tree
  <1>2. ASSUME NEW e \in entries[d], Descend(d, e)
        PROVE  TypeInv'
    <2>1. /\ proc' \in [Dir -> {"none", "begin", "scan", "flush", "wait", "gone"}]
          /\ stdio' \in [Dir -> Seq(File)] /\ lost' \in SUBSET Dir
      BY <1>2 DEF Descend, TypeInv
    <2>2. todo' \in [Dir -> SUBSET (Dir \cup File)]
      BY <1>2 DEF Descend, Returned, TypeInv
    <2> QED
      BY <1>2, <2>1, <2>2 DEF Descend, TypeInv, tree
  <1>3. CASE \E e \in entries[d] : Skip(d, e)
    BY <1>3 DEF Skip, Returned, TypeInv, tree
  <1>4. ASSUME NEW e \in entries[d], Compare(d, e)
        PROVE  TypeInv'
    <2> DEFINE buff == Overwrite(string_buff[d], content[e])
    <2>1. e \in File /\ content[e] \in Bytes
      BY <1>4 DEF Compare, TypeInv
    <2>2. content[e] \in Seq(BOOLEAN)
      BY <2>1, BytesAre
    <2>3. buff \in [1 .. length -> BOOLEAN]
      BY <2>1, <2>2, BytesAre DEF Overwrite, TypeInv
    <2>4. string_buff' = [string_buff EXCEPT ![d] = buff]
      BY <1>4 DEF Compare
    <2>5. (string_buff \in [Dir -> [1 .. length -> BOOLEAN]])'
      BY <2>3, <2>4 DEF TypeInv
    <2>6. Append(stdio[d], e) \in Seq(File)
      BY <2>1 DEF TypeInv
    <2>7. /\ proc' \in [Dir -> {"none", "begin", "scan", "flush", "wait", "gone"}]
          /\ lost' \in SUBSET Dir
      BY <1>4 DEF Compare, Goes, TypeInv
    <2>8. stdio' \in [Dir -> Seq(File)]
      <3>1. stdio' = stdio \/ stdio' = [stdio EXCEPT ![d] = Append(stdio[d], e)]
        BY <1>4 DEF Compare
      <3> QED
        BY <2>6, <3>1 DEF TypeInv
    <2> QED
      BY <1>4, <2>5, <2>7, <2>8 DEF Compare, Returned, TypeInv, tree
  <1>5. CASE Flush(d) \/ Wait(d)
    <2>1. Write(d)
      BY <1>5 DEF Flush, Wait
    <2>2. printed' \in Seq(File)
      BY <2>1, ConcatProperties DEF Write, TypeInv
    <2>3. stdio' \in [Dir -> Seq(File)]
      <3> DEFINE none == <<>>
      <3>1. none \in Seq(File)
        OBVIOUS
      <3>2. stdio' = [stdio EXCEPT ![d] = none]
        BY <2>1 DEF Write
      <3> HIDE DEF none
      <3> QED
        BY <3>1, <3>2 DEF TypeInv
    <2> QED
      BY <1>5, <2>2, <2>3 DEF Flush, Wait, Goes, TypeInv, tree
  <1>6. CASE CloseDir(d)
    BY <1>6 DEF CloseDir, Goes, TypeInv, tree
  <1> QED
    BY <1>1, <1>2, <1>3, <1>4, <1>5, <1>6 DEF Step

\* A step of d forks at most one process, of a directory that is still to be
\* entered, and otherwise concerns d alone.
LEMMA Moves ==
    ASSUME SearchAssumption, TypeInv, ForkInv, NEW d \in Dir, Step(d)
    PROVE  /\ UNCHANGED tree /\ lost \subseteq lost' /\ proc'[d] \notin {"none", "begin"}
           /\ proc[d] \in {"begin", "scan", "flush", "wait"}
           /\ \A c \in Dir : todo'[c] \subseteq todo[c]
                                \/ (c = d /\ proc[d] = "begin" /\ todo'[d] = entries[d])
           /\ \A c \in Dir \ {d} :
                /\ todo'[c] = todo[c] /\ string_buff'[c] = string_buff[c]
                /\ \/ proc'[c] = proc[c] /\ stdio'[c] = stdio[c]
                   \/ /\ proc[c] = "none" /\ proc'[c] = "begin" /\ c \in entries[d]
                      /\ stdio'[c] = stdio[d] /\ c \notin todo'[d]
                      /\ proc[d] = "scan" /\ proc'[d] = "scan"
  <1> USE DEF TypeInv, Goes, Returned
  <1>1. CASE Enter(d)
    BY <1>1 DEF Enter, SearchAssumption
  <1>2. ASSUME NEW e \in entries[d], Descend(d, e)
        PROVE  /\ UNCHANGED tree /\ lost \subseteq lost' /\ proc'[d] \notin {"none", "begin"}
               /\ proc[d] \in {"begin", "scan", "flush", "wait"}
               /\ \A c \in Dir : todo'[c] \subseteq todo[c]
               /\ \A c \in Dir \ {d} :
                    /\ todo'[c] = todo[c] /\ string_buff'[c] = string_buff[c]
                    /\ \/ proc'[c] = proc[c] /\ stdio'[c] = stdio[c]
                       \/ /\ proc[c] = "none" /\ proc'[c] = "begin" /\ c \in entries[d]
                          /\ stdio'[c] = stdio[d] /\ c \notin todo'[d]
                          /\ proc[d] = "scan" /\ proc'[d] = "scan"
    <2>1. /\ proc[d] = "scan" /\ e \in todo[d] /\ e \in Dir /\ UNCHANGED <<tree, string_buff>>
          /\ todo' = [todo EXCEPT ![d] = todo[d] \ {e}]
          /\ \/ proc' = [proc EXCEPT ![e] = "begin"] /\ stdio' = [stdio EXCEPT ![e] = stdio[d]]
                  /\ UNCHANGED lost
             \/ lost' = lost \cup {e} /\ UNCHANGED <<proc, stdio>>
      BY <1>2 DEF Descend
    <2>2. proc[e] = "none" /\ e # d
      BY <2>1 DEF ForkInv, Subdirs
    <2> QED
      BY <2>1, <2>2
  <1>3. CASE \E e \in entries[d] : Skip(d, e)
    BY <1>3 DEF Skip
  <1>4. CASE \E e \in entries[d] : Compare(d, e)
    BY <1>4 DEF Compare
  <1>5. CASE Flush(d) \/ Wait(d) \/ CloseDir(d)
    BY <1>5 DEF Flush, Wait, CloseDir, Write
  <1> QED
    BY <1>1, <1>2, <1>3, <1>4, <1>5 DEF Step

LEMMA ForkKept ==
    ASSUME SearchAssumption, TypeInv, ForkInv, NEW d \in Dir, Step(d)
    PROVE  ForkInv'
  <1>1. ASSUME NEW c \in Dir
        PROVE  todo'[c] \subseteq entries[c]
    BY <1>1, Moves DEF ForkInv
  <1>2. ASSUME NEW c \in Dir, NEW e \in Subdirs(c),
               proc'[c] \in {"none", "begin"} \/ e \in todo'[c]
        PROVE  proc'[e] = "none"
    <2>1. e \in Dir /\ e \in entries[c]
      BY DEF Subdirs
    <2>2. proc[c] \in {"none", "begin"} \/ e \in todo[c]
      BY <1>2, <2>1, Moves
    <2>3. proc[e] = "none" /\ e # d
      BY <1>2, <2>2, Moves DEF ForkInv
    <2>4. CASE proc'[e] = proc[e]
      BY <2>3, <2>4
    <2>5. CASE /\ e \in entries[d] /\ e \notin todo'[d] /\ proc'[d] = "scan"
      <3>1. c = d
        BY <2>1, <2>5, OneParent
      <3> QED
        BY <1>2, <2>5, <3>1
    <2> QED
      BY <2>1, <2>3, <2>4, <2>5, Moves
  <1> QED
    BY <1>1, <1>2 DEF ForkInv, Subdirs

\* What has been seen stays so.
LEMMA SeenGrows ==
    ASSUME SearchAssumption, TypeInv, ForkInv, NEW d \in Dir, Step(d)
    PROVE  /\ \A c \in Dir : Seen(c) \subseteq Seen(c)'
           /\ \A c \in Dir \ {d} : Seen(c)' = Seen(c)
           /\ \A c \in Dir : Seen(c) \subseteq entries[c]
  <1>1. ASSUME NEW c \in Dir \ {d}
        PROVE  Seen(c)' = Seen(c)
    BY Moves DEF Seen
  <1>2. Seen(d) \subseteq Seen(d)'
    BY Moves DEF Seen
  <1>3. \A c \in Dir : Seen(c) \subseteq entries[c]
    BY DEF Seen
  <1> QED
    BY <1>1, <1>2, <1>3

\* A file that the process of d takes from readdir is seen from then on.
LEMMA FileSeen ==
    ASSUME SearchAssumption, TypeInv, ForkInv, NEW d \in Dir, NEW e \in entries[d],
           Skip(d, e) \/ Compare(d, e)
    PROVE  /\ e \in File /\ Seen(d)' = Seen(d) \cup {e} /\ e \notin Seen(d)
           /\ proc[d] = "scan" /\ UNCHANGED printed
  <1>1. /\ proc[d] = "scan" /\ e \in todo[d] /\ e \in File /\ UNCHANGED printed
        /\ todo' = [todo EXCEPT ![d] = todo[d] \ {e}]
    BY DEF Skip, Compare, Returned
  <1>2. proc'[d] \notin {"none", "begin"}
    BY Moves DEF Step
  <1>3. todo'[d] = todo[d] \ {e}
    BY <1>1 DEF TypeInv
  <1> QED
    BY <1>1, <1>2, <1>3 DEF Seen

LEMMA BuffKept ==
    ASSUME SearchAssumption, TypeInv, ForkInv, BuffInv, NEW d \in Dir, Step(d)
    PROVE  BuffInv'
  <1> SUFFICES ASSUME NEW c \in Dir, NEW j \in 1 .. length, string_buff'[c][j]
               PROVE  \E g \in Seen(c)' \cap File : j \in DOMAIN content'[g] /\ content'[g][j]
    BY DEF BuffInv
  <1>1. UNCHANGED content /\ Seen(c) \subseteq Seen(c)'
    BY Moves, SeenGrows DEF tree
  <1>2. CASE string_buff[c][j]
    BY <1>1, <1>2 DEF BuffInv
  <1>3. ASSUME NEW e \in entries[d], Compare(d, e), c = d
        PROVE  \E g \in Seen(c)' \cap File : j \in DOMAIN content'[g] /\ content'[g][j]
    <2>1. e \in File /\ e \in Seen(d)'
      BY <1>3, FileSeen
    <2>2. string_buff'[d] = Overwrite(string_buff[d], content[e])
      BY <1>3 DEF Compare, TypeInv
    <2>3. content[e] \in Bytes
      BY <2>1 DEF TypeInv
    <2>4. string_buff'[d][j] = IF j <= Len(content[e]) THEN content[e][j]
                                                       ELSE string_buff[d][j]
      BY <2>2 DEF Overwrite
    <2>5. CASE j <= Len(content[e])
      <3>1. j \in DOMAIN content[e]
        BY <2>3, <2>5, BytesAre
      <3> QED
        BY <1>1, <1>3, <2>1, <2>4, <2>5, <3>1
    <2>6. CASE ~(j <= Len(content[e]))
      BY <1>2, <1>3, <2>4, <2>6
    <2> QED
      BY <2>5, <2>6
  <1>4. CASE string_buff' = string_buff
    BY <1>2, <1>4
  <1>5. CASE c # d
    BY <1>2, <1>5, Moves
  <1> QED
    BY <1>3, <1>4, <1>5 DEF Step, Enter, Descend, Skip, Flush, CloseDir, Wait

-----------------------------------------------------------------------------
(* What is printed *)

\* Only fflush prints anything, and that one file.
LEMMA Prints ==
    ASSUME SearchAssumption, TypeInv, ForkInv, HeldInv, NEW d \in Dir, Step(d)
    PROVE  \/ UNCHANGED printed
           \/ /\ proc[d] = "flush"
              /\ \E h \in Seen(d) \cap File :
                    /\ stdio[d] = <<h>> /\ ~IsPrinted(h) /\ Explained(d, h)
                    /\ printed' = Append(printed, h)
  <1>1. CASE Flush(d)
    <2>1. proc[d] = "flush" /\ printed' = printed \o stdio[d]
      BY <1>1 DEF Flush, Goes, Write
    <2>2. PICK h \in Seen(d) \cap File :
             stdio[d] = <<h>> /\ ~IsPrinted(h) /\ Explained(d, h)
      BY <2>1 DEF HeldInv
    <2>3. printed' = Append(printed, h)
      BY <2>1, <2>2, AppendIsConcat DEF TypeInv
    <2> QED
      BY <2>1, <2>2, <2>3
  <1>2. CASE Wait(d)
    <2>1. proc[d] = "wait" /\ printed' = printed \o stdio[d]
      BY <1>2 DEF Wait, Goes, Write
    <2>2. stdio[d] = <<>>
      BY <2>1 DEF HeldInv
    <2> QED
      BY <2>1, <2>2, ConcatEmptySeq DEF TypeInv
  <1> QED
    BY <1>1, <1>2 DEF Step, Enter, Descend, Skip, Compare, CloseDir

LEMMA PrintedMore ==
    ASSUME TypeInv, NEW h \in File, printed' = Append(printed, h)
    PROVE  /\ \A f : IsPrinted(f)' <=> IsPrinted(f) \/ f = h
           /\ PrintedOnce /\ ~IsPrinted(h) => PrintedOnce'
  <1>1. /\ Len(printed) \in Nat /\ Len(printed') = Len(printed) + 1
        /\ \A k \in 1 .. Len(printed) : printed'[k] = printed[k]
        /\ printed'[Len(printed) + 1] = h
    BY AppendProperties DEF TypeInv
  <1>2. /\ \A k \in 1 .. Len(printed') : k \in 1 .. Len(printed) \/ k = Len(printed) + 1
        /\ Len(printed) + 1 \in 1 .. Len(printed')
        /\ \A k \in 1 .. Len(printed) : k \in 1 .. Len(printed')
    BY <1>1
  <1>3. \A f : IsPrinted(f)' <=> IsPrinted(f) \/ f = h
    BY <1>1, <1>2 DEF IsPrinted
  <1>4. PrintedOnce /\ ~IsPrinted(h) => PrintedOnce'
    BY <1>1, <1>2 DEF PrintedOnce, IsPrinted
  <1> QED
    BY <1>3, <1>4

\* Whether a file is explained depends on what the files hold, which stays so.
LEMMA SameExplained ==
    ASSUME UNCHANGED content
    PROVE  \A d, f : Explained(d, f)' <=> Explained(d, f)
  BY DEF Explained

LEMMA PrintKept ==
    ASSUME SearchAssumption, TypeInv, ForkInv, HeldInv, PrintInv, NEW d \in Dir, Step(d)
    PROVE  PrintInv'
  <1>1. UNCHANGED content
    BY Moves DEF tree
  <1>2. \A c \in Dir : \A f : f \in Seen(c) /\ Explained(c, f)
                            => f \in Seen(c)' /\ Explained(c, f)'
    BY <1>1, SeenGrows, SameExplained
  <1>3. ASSUME NEW f \in File, IsPrinted(f) \/ \E c \in Dir : f \in Seen(c) /\ Explained(c, f)
        PROVE  \E c \in Dir : f \in Seen(c)' /\ Explained(c, f)'
    BY <1>2, <1>3 DEF PrintInv
  <1>4. CASE UNCHANGED printed
    BY <1>3, <1>4 DEF PrintInv, PrintedOnce, IsPrinted
  <1>5. ASSUME NEW h \in Seen(d) \cap File, ~IsPrinted(h), Explained(d, h),
               printed' = Append(printed, h)
        PROVE  PrintInv'
    <2>1. PrintedOnce' /\ \A f : IsPrinted(f)' <=> IsPrinted(f) \/ f = h
      BY <1>5, PrintedMore DEF PrintInv
    <2> QED
      BY <1>3, <1>5, <2>1 DEF PrintInv
  <1> QED
    BY <1>4, <1>5, Prints

\* A file that is found has what it lacks in string_buff from others.
LEMMA FoundIsExplained ==
    ASSUME SearchAssumption, TypeInv, ForkInv, BuffInv, NEW d \in Dir,
           NEW e \in entries[d], Compare(d, e),
           Matches(Overwrite(string_buff[d], content[e]))
    PROVE  Explained(d, e)
  <1> DEFINE buff == Overwrite(string_buff[d], content[e])
  <1>1. e \in File /\ e \notin Seen(d) /\ Seen(d) \subseteq entries[d]
    BY FileSeen DEF Seen
  <1>2. content[e] \in Seq(BOOLEAN) /\ Len(content[e]) \in 0 .. length
        /\ DOMAIN content[e] = 1 .. Len(content[e])
    BY <1>1, BytesAre DEF TypeInv
  <1>3. length \in Nat
    BY DEF SearchAssumption
  <1>4. \A j \in 1 .. length : buff[j] = IF j <= Len(content[e]) THEN content[e][j]
                                                                 ELSE string_buff[d][j]
    BY DEF Overwrite
  <1>5. \A j \in 1 .. length : buff[j]
    BY DEF Matches
  <1> HIDE DEF buff
  <1>6. content[e] # <<>>
    BY DEF Compare, Nothing
  <1>7. \A j \in DOMAIN content[e] : content[e][j]
    <2>1. \A j \in 1 .. Len(content[e]) : j \in 1 .. length /\ j <= Len(content[e])
      BY <1>2, <1>3
    <2> QED
      BY <1>2, <1>4, <1>5, <2>1
  <1>8. ASSUME NEW j \in Len(content[e]) + 1 .. length
        PROVE  \E g \in (entries[d] \cap File) \ {e} : j \in DOMAIN content[g] /\ content[g][j]
    <2>1. j \in 1 .. length /\ ~(j <= Len(content[e]))
      BY <1>2, <1>3
    <2>2. string_buff[d][j]
      BY <1>4, <1>5, <2>1
    <2>3. PICK g \in Seen(d) \cap File : j \in DOMAIN content[g] /\ content[g][j]
      BY <2>1, <2>2 DEF BuffInv
    <2> QED
      BY <1>1, <2>3
  <1> QED
    BY <1>6, <1>7, <1>8 DEF Explained

LEMMA HeldKept ==
    ASSUME SearchAssumption, TypeInv, ForkInv, BuffInv, HeldInv, PrintInv,
           NEW d \in Dir, Step(d)
    PROVE  HeldInv'
  <1>1. UNCHANGED content
    BY Moves DEF tree
  <1>2. \A c \in Dir : \A f : /\ f \in Seen(c) => f \in Seen(c)' /\ f \in entries[c]
                              /\ Explained(c, f)' <=> Explained(c, f)
    BY <1>1, SeenGrows, SameExplained
  <1>3. ASSUME NEW c \in Dir \ {d}
        PROVE  IF proc'[c] = "flush"
               THEN \E f \in Seen(c)' \cap File :
                       stdio'[c] = <<f>> /\ ~IsPrinted(f)' /\ Explained(c, f)'
               ELSE stdio'[c] = <<>>
    <2>1. CASE proc'[c] = proc[c] /\ stdio'[c] = stdio[c] /\ proc[c] = "flush"
      <3>1. PICK f \in Seen(c) \cap File :
               stdio[c] = <<f>> /\ ~IsPrinted(f) /\ Explained(c, f)
        BY <2>1 DEF HeldInv
      <3>2. ~IsPrinted(f)'
        <4>1. CASE UNCHANGED printed
          BY <3>1, <4>1 DEF IsPrinted
        <4>2. ASSUME NEW h \in Seen(d) \cap File, printed' = Append(printed, h)
              PROVE  ~IsPrinted(f)'
          <5>1. f # h
            BY <1>2, OneParent
          <5> QED
            BY <3>1, <4>2, <5>1, PrintedMore
        <4> QED
          BY <4>1, <4>2, Prints
      <3> QED
        BY <1>2, <2>1, <3>1, <3>2
    <2>2. CASE proc'[c] = proc[c] /\ stdio'[c] = stdio[c] /\ proc[c] # "flush"
      BY <2>2 DEF HeldInv
    <2>3. CASE proc'[c] = "begin" /\ stdio'[c] = stdio[d] /\ proc[d] = "scan"
      BY <2>3 DEF HeldInv
    <2> QED
      BY <2>1, <2>2, <2>3, Moves
  <1>4. IF proc'[d] = "flush"
        THEN \E f \in Seen(d)' \cap File :
                stdio'[d] = <<f>> /\ ~IsPrinted(f)' /\ Explained(d, f)'
        ELSE stdio'[d] = <<>>
    <2>1. CASE Enter(d) \/ CloseDir(d) \/ \E e \in entries[d] : Skip(d, e)
      <3>1. proc[d] # "flush" /\ proc'[d] # "flush" /\ stdio' = stdio
        BY <2>1 DEF Enter, CloseDir, Skip, Goes, TypeInv
      <3> QED
        BY <3>1 DEF HeldInv
    <2>2. ASSUME NEW e \in entries[d], Descend(d, e)
          PROVE  proc'[d] # "flush" /\ stdio'[d] = <<>>
      <3>1. proc[d] = "scan" /\ e \in todo[d] \cap Dir
        BY <2>2 DEF Descend
      <3>2. e # d
        BY <3>1 DEF ForkInv, Subdirs
      <3>3. proc'[d] = proc[d] /\ stdio'[d] = stdio[d]
        BY <2>2, <3>2 DEF Descend, TypeInv
      <3> QED
        BY <3>1, <3>3 DEF HeldInv
    <2>3. CASE Flush(d) \/ Wait(d)
      BY <2>3 DEF Flush, Wait, Goes, Write, TypeInv
    <2>4. ASSUME NEW e \in entries[d], Compare(d, e)
          PROVE  IF proc'[d] = "flush"
                 THEN \E f \in Seen(d)' \cap File :
                         stdio'[d] = <<f>> /\ ~IsPrinted(f)' /\ Explained(d, f)'
                 ELSE stdio'[d] = <<>>
      <3>1. /\ e \in File /\ Seen(d)' = Seen(d) \cup {e} /\ e \notin Seen(d)
            /\ proc[d] = "scan" /\ UNCHANGED printed
        BY <2>4, FileSeen
      <3>2. stdio[d] = <<>>
        BY <3>1 DEF HeldInv
      <3>3. \/ proc'[d] # "flush" /\ stdio'[d] = stdio[d]
            \/ /\ Matches(Overwrite(string_buff[d], content[e]))
               /\ stdio'[d] = Append(stdio[d], e) /\ proc'[d] = "flush"
        BY <2>4, <3>1 DEF Compare, Goes, TypeInv
      <3>4. CASE proc'[d] # "flush" /\ stdio'[d] = stdio[d]
        BY <3>2, <3>4
      <3>5. CASE /\ Matches(Overwrite(string_buff[d], content[e]))
                 /\ stdio'[d] = Append(stdio[d], e) /\ proc'[d] = "flush"
        <4>1. stdio'[d] = <<e>>
          BY <3>2, <3>5
        <4>2. Explained(d, e)'
          BY <1>2, <2>4, <3>5, FoundIsExplained
        <4>3. ~IsPrinted(e)
          <5> SUFFICES ASSUME IsPrinted(e)
                       PROVE  FALSE
            OBVIOUS
          <5>1. PICK c \in Dir : e \in Seen(c)
            BY <3>1 DEF PrintInv
          <5>2. c = d
            BY <1>2, <5>1, OneParent
          <5> QED
            BY <3>1, <5>1, <5>2
        <4>4. ~IsPrinted(e)'
          BY <3>1, <4>3 DEF IsPrinted
        <4> QED
          BY <3>1, <3>5, <4>1, <4>2, <4>4
      <3> QED
        BY <3>3, <3>4, <3>5
    <2> QED
      BY <2>1, <2>2, <2>3, <2>4 DEF Step
  <1> QED
    BY <1>3, <1>4 DEF HeldInv

-----------------------------------------------------------------------------
(* What is found *)

\* What the process of d has seen since: an entry it has just handled, or
\* everything there is, when it cannot open d.
LEMMA NewlySeen ==
    ASSUME SearchAssumption, TypeInv, ForkInv, NEW d \in Dir, Step(d), d \notin denied,
           NEW e \in Seen(d)', e \notin Seen(d)
    PROVE  e \in entries[d] /\ (Skip(d, e) \/ Compare(d, e) \/ Descend(d, e))
  <1>1. proc'[d] \notin {"none", "begin"} /\ e \in entries[d] \ todo'[d]
    BY Moves DEF Seen
  <1>2. CASE Enter(d)
    <2>1. todo'[d] = entries[d]
      BY <1>2 DEF Enter, TypeInv
    <2> QED
      BY <1>1, <2>1
  <1>3. ASSUME NEW g \in entries[d], Skip(d, g) \/ Compare(d, g)
        PROVE  g = e
    BY <1>3, FileSeen
  <1>4. ASSUME NEW g \in entries[d], Descend(d, g)
        PROVE  g = e
    <2>1. proc[d] = "scan" /\ todo'[d] = todo[d] \ {g}
      BY <1>4 DEF Descend, Returned, TypeInv
    <2> QED
      BY <1>1, <2>1 DEF Seen
  <1>5. CASE Flush(d) \/ CloseDir(d) \/ Wait(d)
    <2>1. proc[d] \in {"flush", "scan", "wait"} /\ todo'[d] = todo[d]
      BY <1>5 DEF Flush, CloseDir, Wait, Goes
    <2> QED
      BY <1>1, <2>1 DEF Seen
  <1> QED
    BY <1>1, <1>2, <1>3, <1>4, <1>5 DEF Step

LEMMA SearchKept ==
    ASSUME SearchAssumption, TypeInv, ForkInv, HeldInv, SearchInv, NEW d \in Dir, Step(d)
    PROVE  SearchInv'
  <1> SUFFICES ASSUME NEW c \in Dir, c \notin denied', c \notin lost'
               PROVE  (/\ \A f \in Seen(c) \cap File :
                            BeginsWithString(f) /\ f \notin denied
                              => IsPrinted(f) \/ stdio[c] = <<f>>
                       /\ \A e \in Seen(c) \cap Dir : proc[e] # "none" \/ e \in lost
                       /\ proc[c] \in {"wait", "gone"} => todo[c] = {}
                       /\ proc[c] = "gone" =>
                            \A e \in Subdirs(c) : proc[e] = "gone" \/ e \in lost)'
    BY DEF SearchInv, NotSearched
  <1>1. /\ UNCHANGED <<content, denied>> /\ lost \subseteq lost'
        /\ proc[d] \in {"begin", "scan", "flush", "wait"}
        /\ proc'[d] \notin {"none", "begin"}
    BY Moves DEF tree
  <1>2. c \notin denied /\ ~NotSearched(c)
    BY <1>1 DEF NotSearched
  <1>3. /\ \A f \in Seen(c) \cap File :
              BeginsWithString(f) /\ f \notin denied => IsPrinted(f) \/ stdio[c] = <<f>>
        /\ \A e \in Seen(c) \cap Dir : proc[e] # "none" \/ e \in lost
        /\ proc[c] \in {"wait", "gone"} => todo[c] = {}
        /\ proc[c] = "gone" => \A e \in Subdirs(c) : proc[e] = "gone" \/ e \in lost
    BY <1>2 DEF SearchInv
  <1>4. \A e \in Dir : /\ proc[e] # "none" => proc'[e] # "none"
                       /\ proc[e] = "gone" => proc'[e] = "gone"
    BY <1>1, Moves
  <1>5. ASSUME NEW f \in Seen(c)', f \in File, BeginsWithString(f), f \notin denied
        PROVE  IsPrinted(f)' \/ stdio'[c] = <<f>>
    <2>1. CASE IsPrinted(f)
      <3>1. CASE UNCHANGED printed
        BY <2>1, <3>1 DEF IsPrinted
      <3>2. ASSUME NEW h \in File, printed' = Append(printed, h)
            PROVE  IsPrinted(f)'
        BY <2>1, <3>2, PrintedMore
      <3> QED
        BY <3>1, <3>2, Prints
    <2>2. CASE f \in Seen(c) /\ ~IsPrinted(f)
      <3>1. stdio[c] = <<f>>
        BY <1>3, <1>5, <2>2
      <3>2. proc[c] = "flush"
        BY <3>1 DEF HeldInv
      <3>3. CASE c # d
        BY <3>1, <3>2, <3>3, Moves
      <3>4. CASE c = d
        <4>1. Flush(d)
          BY <3>2, <3>4 DEF Step, Enter, Descend, Skip, Compare, CloseDir, Wait, Goes
        <4>2. printed' = printed \o <<f>>
          BY <3>1, <3>4, <4>1 DEF Flush, Write
        <4>3. printed' = Append(printed, f)
          BY <1>5, <4>2, AppendIsConcat DEF TypeInv
        <4> QED
          BY <1>5, <4>3, PrintedMore
      <3> QED
        BY <3>3, <3>4
    <2>3. CASE f \notin Seen(c)
      <3>1. c = d
        BY <1>5, <2>3, SeenGrows
      <3>2. f \in entries[d] /\ (Skip(d, f) \/ Compare(d, f) \/ Descend(d, f))
        BY <1>2, <1>5, <2>3, <3>1, NewlySeen
      <3>3. /\ length \in Nat /\ length > 0 /\ content[f] = [k \in 1 .. length |-> TRUE]
        BY <1>5 DEF BeginsWithString, SearchAssumption
      <3>4. content[f] # <<>>
        <4>1. content[f][1] = TRUE /\ 1 \in DOMAIN content[f]
          BY <3>3
        <4> QED
          BY <4>1
      <3>5. ~Nothing(f)
        BY <1>5, <3>3, <3>4 DEF Nothing
      <3>6. ~Skip(d, f) /\ ~Descend(d, f)
        BY <1>5, <3>5 DEF Skip, Descend, SearchAssumption
      <3>7. Compare(d, f)
        BY <3>2, <3>6
      <3>8. Matches(Overwrite(string_buff[d], content[f]))
        <4>1. Len(content[f]) = length
          <5>1. content[f] \in Bytes
            BY <1>5 DEF TypeInv
          <5>2. Len(content[f]) \in Nat /\ 1 .. Len(content[f]) = 1 .. length
            BY <3>3, <5>1, BytesAre
          <5> QED
            BY <3>3, <5>2
        <4> QED
          BY <3>3, <4>1 DEF Matches, Overwrite
      <3>9. stdio'[d] = Append(stdio[d], f)
        BY <3>1, <3>7, <3>8 DEF Compare, TypeInv
      <3>10. stdio[d] = <<>>
        BY <3>7 DEF Compare, HeldInv
      <3> QED
        BY <3>1, <3>9, <3>10
    <2> QED
      BY <2>1, <2>2, <2>3
  <1>6. ASSUME NEW e \in Seen(c)', e \in Dir
        PROVE  proc'[e] # "none" \/ e \in lost'
    <2>1. CASE e \in Seen(c)
      BY <1>1, <1>3, <1>4, <1>6, <2>1
    <2>2. CASE e \notin Seen(c)
      <3>1. c = d
        BY <1>6, <2>2, SeenGrows
      <3>2. Skip(d, e) \/ Compare(d, e) \/ Descend(d, e)
        BY <1>2, <1>6, <2>2, <3>1, NewlySeen
      <3>3. Descend(d, e)
        BY <1>6, <3>2 DEF Skip, Compare, SearchAssumption
      <3> QED
        BY <1>6, <3>3 DEF Descend, TypeInv
    <2> QED
      BY <2>1, <2>2
  <1>7. ASSUME proc'[c] \in {"wait", "gone"}
        PROVE  todo'[c] = {}
    <2>1. CASE c # d
      BY <1>3, <1>7, <2>1, Moves
    <2>2. CASE c = d /\ proc[d] = "wait"
      BY <1>3, <2>2, Moves
    <2>3. CASE c = d /\ proc[d] # "wait"
      <3>1. CloseDir(d)
        <4>1. ~Wait(d) /\ ~Flush(d)
          BY <1>7, <2>3 DEF Wait, Flush, Goes, TypeInv
        <4>2. ~Enter(d)
          BY <1>2, <1>7, <2>3 DEF Enter, Goes, TypeInv
        <4>3. ASSUME NEW e \in entries[d]
              PROVE  ~Descend(d, e) /\ ~Skip(d, e)
          <5>1. ~Skip(d, e)
            BY <1>7, <2>3 DEF Skip, TypeInv
          <5>2. ASSUME Descend(d, e)
                PROVE  FALSE
            <6>1. proc[d] = "scan" /\ (proc' = proc \/ proc' = [proc EXCEPT ![e] = "begin"])
              BY <5>2 DEF Descend
            <6>2. proc'[d] \in {"scan", "begin"}
              BY <6>1 DEF TypeInv
            <6> QED
              BY <1>7, <2>3, <6>2
          <5> QED
            BY <5>1, <5>2
        <4>4. ASSUME NEW e \in entries[d]
              PROVE  ~Compare(d, e)
          BY <1>7, <2>3 DEF Compare, Goes, TypeInv
        <4> QED
          BY <4>1, <4>2, <4>3, <4>4 DEF Step
      <3> QED
        BY <2>3, <3>1 DEF CloseDir
    <2> QED
      BY <2>1, <2>2, <2>3
  <1>8. ASSUME proc'[c] = "gone", NEW e \in Subdirs(c)
        PROVE  proc'[e] = "gone" \/ e \in lost'
    <2>1. e \in Dir /\ e \in entries[c]
      BY DEF Subdirs
    <2>2. CASE proc[c] = "gone"
      BY <1>1, <1>3, <1>4, <1>8, <2>1, <2>2
    <2>3. CASE proc[c] # "gone"
      <3>1. c = d
        BY <1>8, <2>3, Moves
      <3>2. Wait(d)
        <4>1. ~Enter(d) /\ ~Flush(d) /\ ~CloseDir(d)
          BY <1>8, <2>3, <3>1 DEF Enter, Flush, CloseDir, Goes, TypeInv
        <4>2. ASSUME NEW g \in entries[d]
              PROVE  ~Descend(d, g) /\ ~Skip(d, g) /\ ~Compare(d, g)
          BY <1>8, <2>3, <3>1 DEF Descend, Skip, Compare, Goes, TypeInv
        <4> QED
          BY <4>1, <4>2 DEF Step
      <3>3. proc[d] = "wait" /\ proc[e] \in {"none", "gone"} /\ proc' = [proc EXCEPT ![d] = "gone"]
        BY <1>8, <3>1, <3>2 DEF Wait, Goes
      <3>4. todo[d] = {} /\ e \in Seen(d)
        BY <1>3, <2>1, <3>1, <3>3 DEF Seen
      <3> QED
        BY <1>1, <1>3, <1>4, <2>1, <3>1, <3>3, <3>4
    <2> QED
      BY <2>2, <2>3
  <1> QED
    BY <1>1, <1>5, <1>6, <1>7, <1>8 DEF BeginsWithString, Subdirs

-----------------------------------------------------------------------------
(* The theorems *)

LEMMA InitInv ==
    ASSUME SearchAssumption, Init
    PROVE  Inv
  <1>1. length \in Nat /\ Root \in Dir
    BY DEF SearchAssumption
  <1>2. /\ proc = [d \in Dir |-> IF d = Root THEN "begin" ELSE "none"]
        /\ todo = [d \in Dir |-> {}] /\ string_buff = [d \in Dir |-> EmptyBuffer]
        /\ stdio = [d \in Dir |-> <<>>] /\ printed = <<>> /\ lost = {}
        /\ content \in [File -> Bytes] /\ denied \in SUBSET Deniable
    BY DEF Init
  <1>3. TypeInv
    <2>1. string_buff \in [Dir -> [1 .. length -> BOOLEAN]]
      BY <1>2 DEF EmptyBuffer
    <2>2. stdio \in [Dir -> Seq(File)] /\ printed \in Seq(File)
      BY <1>2, EmptySeq
    <2> QED
      BY <1>2, <2>1, <2>2 DEF TypeInv
  <1>4. ForkInv
    BY <1>2, OneParent DEF ForkInv, Subdirs
  <1>5. \A d \in Dir : Seen(d) = {}
    BY <1>2 DEF Seen
  <1>6. BuffInv
    BY <1>2 DEF BuffInv, EmptyBuffer
  <1>7. HeldInv
    BY <1>2 DEF HeldInv
  <1>8. PrintInv
    BY <1>2 DEF PrintInv, PrintedOnce, IsPrinted
  <1>9. SearchInv
    BY <1>2, <1>5 DEF SearchInv
  <1> QED
    BY <1>3, <1>4, <1>6, <1>7, <1>8, <1>9 DEF Inv

LEMMA NextInv ==
    ASSUME SearchAssumption, Inv, [Next]_vars
    PROVE  Inv'
  <1>1. ASSUME NEW d \in Dir, Step(d)
        PROVE  Inv'
    BY <1>1, StepType, ForkKept, BuffKept, HeldKept, PrintKept, SearchKept DEF Inv
  <1>2. CASE UNCHANGED vars
    <2>1. /\ UNCHANGED <<content, denied, proc, todo, string_buff, stdio, printed, lost>>
          /\ \A d : Seen(d)' = Seen(d) /\ NotSearched(d)' = NotSearched(d)
          /\ \A d, f : Explained(d, f)' = Explained(d, f)
          /\ \A f : IsPrinted(f)' = IsPrinted(f)
      BY <1>2 DEF vars, tree, Seen, NotSearched, Explained, IsPrinted
    <2>2. TypeInv' /\ ForkInv'
      BY <2>1 DEF Inv, TypeInv, ForkInv
    <2>3. BuffInv'
      BY <2>1 DEF Inv, BuffInv
    <2>4. HeldInv'
      BY <2>1 DEF Inv, HeldInv
    <2>5. PrintInv'
      BY <2>1 DEF Inv, PrintInv, PrintedOnce
    <2>6. SearchInv'
      BY <2>1 DEF Inv, SearchInv, BeginsWithString
    <2> QED
      BY <2>2, <2>3, <2>4, <2>5, <2>6 DEF Inv
  <1> QED
    BY <1>1, <1>2 DEF Next, Stopped

\* How the processes, their buffers, what they hold back and what is printed
\* hang together (search.c 43-92, 119).
THEOREM InvHolds == Spec => []Inv
  BY InitInv, NextInv, SearchAssumption, PTL DEF Spec

\* No file is printed twice, though every process begins with a copy of what its
\* parent has printed: fflush comes before any fork (search.c 53, 85-87).
THEOREM NothingPrintedTwice == Spec => []PrintedOnce
  <1>1. Inv => PrintedOnce
    BY DEF Inv, PrintInv
  <1> QED
    BY <1>1, InvHolds, PTL

\* When a process is gone, all that begins with the string in its directory has
\* been printed, and the processes below are gone (search.c 43-92, 119).
THEOREM GoneHasSearched == Spec => []GoneIsSearched
  <1>1. Inv => GoneIsSearched
    <2> SUFFICES ASSUME Inv, NEW d \in Dir, proc[d] = "gone", ~NotSearched(d)
                 PROVE  /\ \A f \in entries[d] \cap File :
                              BeginsWithString(f) /\ f \notin denied => IsPrinted(f)
                        /\ \A e \in Subdirs(d) : proc[e] = "gone" \/ e \in lost
      BY DEF GoneIsSearched, IsPrinted
    <2>1. todo[d] = {} /\ \A e \in Subdirs(d) : proc[e] = "gone" \/ e \in lost
      BY DEF Inv, SearchInv
    <2>2. Seen(d) = entries[d]
      BY <2>1 DEF Seen
    <2>3. stdio[d] = <<>>
      BY DEF Inv, HeldInv
    <2>4. \A f \in entries[d] \cap File : BeginsWithString(f) /\ f \notin denied
                                            => IsPrinted(f) \/ stdio[d] = <<f>>
      BY <2>2 DEF Inv, SearchInv
    <2> QED
      BY <2>1, <2>3, <2>4
  <1> QED
    BY <1>1, InvHolds, PTL

\* What is printed and does not begin with the string agrees with it as far as
\* it goes, and other files of the directory have what it lacks (search.c 32,
\* 70-74).
THEOREM FalseMatchesArePrefixes == Spec => []FalseMatchIsPrefix
  <1>1. Inv => FalseMatchIsPrefix
    <2> SUFFICES ASSUME Inv, NEW k \in 1 .. Len(printed)
                 PROVE  Explained(CHOOSE x \in Dir : printed[k] \in entries[x], printed[k])
      BY DEF FalseMatchIsPrefix, Explained
    <2>1. printed[k] \in File /\ IsPrinted(printed[k])
      BY DEF Inv, TypeInv, IsPrinted
    <2>2. PICK d \in Dir : printed[k] \in Seen(d) /\ Explained(d, printed[k])
      BY <2>1 DEF Inv, PrintInv
    <2>3. printed[k] \in entries[d]
      BY <2>2 DEF Seen
    <2>4. (CHOOSE x \in Dir : printed[k] \in entries[x]) = d
      BY <2>3, OneParent, SearchAssumption
    <2> QED
      BY <2>2, <2>4
  <1> QED
    BY <1>1, InvHolds, PTL

-----------------------------------------------------------------------------
(* Nobody waits for ever *)

\* The process of d can take a step.
CanGoOn(d) ==
    \/ proc[d] \in {"begin", "scan", "flush"}
    \/ proc[d] = "wait" /\ \A e \in Subdirs(d) : proc[e] \in {"none", "gone"}

Finished == \A d \in Dir : proc[d] \in {"none", "gone"}

NeverHangs == Finished \/ \E d \in Dir : CanGoOn(d)

\* Every process lies deeper in the tree than the one that forked it, and there is
\* a deepest.
IsDepth(depth, n) ==
    /\ n \in Nat /\ depth \in [Dir -> 0 .. n]
    /\ \A d \in Dir : \A e \in Subdirs(d) :
        proc[e] # "none" => proc[d] # "none" /\ depth[d] < depth[e]

DepthInv == \E n, depth : IsDepth(depth, n)

LEMMA InitDepth == ASSUME SearchAssumption, Init PROVE DepthInv
  <1> DEFINE depth == [d \in Dir |-> 0]
  <1>1. \A d \in Dir : \A e \in Subdirs(d) : proc[e] = "none"
    BY OneParent DEF Init, Subdirs
  <1>2. IsDepth(depth, 0)
    BY <1>1 DEF IsDepth
  <1> QED
    BY <1>2 DEF DepthInv

LEMMA NextDepth ==
    ASSUME SearchAssumption, Inv, DepthInv, [Next]_vars
    PROVE  DepthInv'
  <1>1. PICK n, depth : IsDepth(depth, n)
    BY DEF DepthInv
  <1>2. ASSUME NEW d \in Dir, Step(d) PROVE DepthInv'
    <2>0. /\ proc[d] # "none" /\ proc'[d] # "none"
          /\ \A c \in Dir \ {d} :
                \/ proc'[c] = proc[c]
                \/ proc[c] = "none" /\ c \in entries[d] /\ proc'[c] = "begin"
      BY <1>2, Moves DEF Inv
    <2>1. CASE \A c \in Dir \ {d} : proc'[c] = proc[c]
      <3>1. IsDepth(depth, n)'
        BY <1>1, <2>0, <2>1 DEF IsDepth, Subdirs
      <3> QED
        BY <3>1 DEF DepthInv
    <2>2. ASSUME NEW c \in Dir \ {d}, proc'[c] # proc[c] PROVE DepthInv'
      <3> DEFINE deeper == [depth EXCEPT ![c] = depth[d] + 1]
      <3>1. proc[c] = "none" /\ c \in entries[d] /\ proc'[c] = "begin"
        BY <2>0, <2>2
      <3>2. \A b \in Dir \ {c} : proc'[b] # "none" <=> proc[b] # "none"
        <4>1. PICK e \in Dir : \A b \in Dir \ {d, e} : proc'[b] = proc[b]
          BY <1>2 DEF Step, Enter, Flush, CloseDir, Wait, Goes, Descend, Skip, Compare, Inv,
                      TypeInv
        <4> QED
          BY <2>0, <2>2, <4>1
      <3>3. deeper \in [Dir -> 0 .. n + 1] /\ n + 1 \in Nat
        BY <1>1 DEF IsDepth
      <3>4. ASSUME NEW a \in Dir, NEW e \in Subdirs(a), proc'[e] # "none"
            PROVE  proc'[a] # "none" /\ deeper[a] < deeper[e]
        <4>1. e \in Dir /\ e \in entries[a]
          BY DEF Subdirs
        <4>2. CASE e = c
          <5>1. a = d
            BY <3>1, <4>1, <4>2, OneParent
          <5> QED
            BY <1>1, <2>0, <2>2, <4>2, <5>1 DEF IsDepth
        <4>3. CASE e # c
          <5>1. proc[e] # "none"
            BY <3>2, <3>4, <4>1, <4>3
          <5>2. proc[a] # "none" /\ depth[a] < depth[e]
            BY <1>1, <5>1 DEF IsDepth
          <5>3. a # c
            BY <3>1, <5>2
          <5> QED
            BY <1>1, <3>2, <4>1, <4>3, <5>2, <5>3 DEF IsDepth
        <4> QED
          BY <4>2, <4>3
      <3> HIDE DEF deeper
      <3>5. IsDepth(deeper, n + 1)'
        BY <3>3, <3>4 DEF IsDepth, Subdirs
      <3> QED
        BY <3>5 DEF DepthInv
    <2> QED
      BY <2>1, <2>2
  <1>3. CASE UNCHANGED vars
    <2>1. IsDepth(depth, n)'
      BY <1>1, <1>3 DEF IsDepth, Subdirs, vars
    <2> QED
      BY <2>1 DEF DepthInv
  <1> QED
    BY <1>2, <1>3 DEF Next, Stopped

\* A set of natural numbers has a least element.
LEMMA LeastNat ==
    ASSUME NEW S \in SUBSET Nat, S # {}
    PROVE  \E x \in S : \A y \in S : x <= y
  <1>1. PICK x \in S : \A y \in S : ~ (<<y, x>> \in OpToRel(<, Nat))
    BY NatLessThanWellFounded, WFMin
  <1>2. \A y \in S : ~ (y < x)
    BY <1>1, Zenon DEF OpToRel
  <1>3. \A y \in S : x <= y
    BY <1>2
  <1> QED
    BY <1>3

\* Whatever the tree and whatever fails, some process can go on until every process
\* is gone: the deepest waits for nobody (search.c 57-67, 119).
THEOREM SearchNeverHangs == Spec => []NeverHangs
  <1>1. Init => DepthInv
    BY InitDepth, SearchAssumption
  <1>2. Inv /\ DepthInv /\ [Next]_vars => DepthInv'
    BY NextDepth, SearchAssumption
  <1>3. Inv /\ DepthInv => NeverHangs
    <2> SUFFICES ASSUME Inv, DepthInv, ~Finished, \A d \in Dir : ~CanGoOn(d)
                 PROVE  FALSE
      BY DEF NeverHangs
    <2>1. PICK n, depth : IsDepth(depth, n)
      BY DEF DepthInv
    <2> DEFINE Alive == {d \in Dir : proc[d] \notin {"none", "gone"}}
               Heights == {n - depth[d] : d \in Alive}
    <2>2. Heights \in SUBSET Nat /\ Heights # {}
      BY <2>1 DEF IsDepth, Finished
    <2>3. PICK h \in Heights : \A k \in Heights : h <= k
      BY <2>2, LeastNat
    <2>4. PICK d \in Alive : h = n - depth[d]
      BY <2>3
    <2>5. proc[d] = "wait"
      BY <2>4 DEF CanGoOn, Inv, TypeInv
    <2>6. PICK e \in Subdirs(d) : proc[e] \notin {"none", "gone"}
      BY <2>4, <2>5 DEF CanGoOn
    <2>7. e \in Alive /\ depth[d] < depth[e]
      BY <2>1, <2>4, <2>6 DEF IsDepth, Subdirs
    <2>8. h <= n - depth[e]
      BY <2>3, <2>7
    <2> QED
      BY <2>1, <2>4, <2>7, <2>8 DEF IsDepth
  <1> QED
    BY <1>1, <1>2, <1>3, InvHolds, PTL DEF Spec
=============================================================================
