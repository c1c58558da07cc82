--------------------------- MODULE HandshakeProofs ---------------------------
(***************************************************************************)
(* Theorems about Handshake, for any senders, operations and numbers of    *)
(* commands.                                                               *)
(*                                                                         *)
(* The inductive invariant follows the one command a sender has under way: *)
(* pending at the catcher, obeyed by its handler, confirmed, or gone       *)
(* astray, and then for one of three reasons.                              *)
(***************************************************************************)
EXTENDS Handshake, TLAPS

-----------------------------------------------------------------------------
(* Handshake *)

IsPending(s) == pending # NoSignal /\ pending.from = s
IsObeyed(s) == siginfo # NoSignal /\ siginfo.from = s

\* The catcher works on a signal in its handler only, and takes none when gone.
CatcherInv ==
    /\ siginfo # NoSignal <=> catcher = "obeying"
    /\ catcher = "gone" => pending = NoSignal

\* Where the last command of s is.
CommandInv(s) ==
    /\ obeyed[s] \in {sent[s] - 1, sent[s]}
    /\ IsPending(s) => obeyed[s] = sent[s] - 1
    /\ IsObeyed(s) => obeyed[s] = sent[s] /\ s \notin confirmed
    /\ s \in confirmed => obeyed[s] = sent[s]
    /\ pc[s] \in {"send", "done"} =>
        obeyed[s] = sent[s] /\ ~IsObeyed(s) /\ s \notin confirmed
    /\ pc[s] \in {"suspend", "suspended"} =>
        IF obeyed[s] = sent[s] THEN s \in confirmed \/ IsObeyed(s) \/ s \in early
        ELSE IsPending(s) \/ s \in lost \/ catcher = "gone"

Inv == /\ TypeOK
       /\ CatcherInv
       /\ \A s \in Sender : CommandInv(s)

-----------------------------------------------------------------------------
\* The constants a proof needs to know of.
LEMMA SigInfoFields ==
    ASSUME HandshakeAssumption, NEW m \in SigInfo
    PROVE  m # NoSignal /\ m.from \in Sender /\ m.op \in Operations
  BY DEF HandshakeAssumption, SigInfo

LEMMA InitInv == ASSUME HandshakeAssumption, Init PROVE Inv
  <1>1. TypeOK
    <2>1. /\ pc \in [Sender -> {"send", "suspend", "suspended", "done", "dead"}]
          /\ sent \in [Sender -> Nat] /\ obeyed \in [Sender -> Nat]
      BY DEF Init
    <2>2. current_mode \in 0 .. 5 /\ mode_counter \in Nat
      BY DEF Init
    <2>3. /\ confirmed \subseteq Sender /\ early \subseteq Sender
          /\ lost \subseteq Sender /\ sigint \subseteq Interrupted
      BY DEF Init
    <2>4. /\ catcher \in {"suspended", "obeying", "exiting", "gone"}
          /\ pending \in SigInfo \cup {NoSignal}
          /\ siginfo \in SigInfo \cup {NoSignal}
          /\ alarm_set \in BOOLEAN /\ alarm_pending \in BOOLEAN
      BY DEF Init
    <2> QED
      BY <2>1, <2>2, <2>3, <2>4 DEF TypeOK
  <1>2. CatcherInv
    BY DEF Init, CatcherInv
  <1>3. \A s \in Sender : CommandInv(s)
    BY DEF Init, CommandInv, IsPending, IsObeyed
  <1> QED
    BY <1>1, <1>2, <1>3 DEF Inv

\* Every step keeps the types.
LEMMA NextTypeOK ==
    ASSUME HandshakeAssumption, TypeOK, CatcherInv, [Next]_vars
    PROVE  TypeOK'
  <1> USE DEF TypeOK, SenderGoes
  <1>1. ASSUME NEW s \in Sender, Sigqueue(s) PROVE TypeOK'
    BY <1>1 DEF Sigqueue, alarmVars, SigInfo
  <1>2. ASSUME NEW s \in Sender, Sigsuspend(s) PROVE TypeOK'
    BY <1>2 DEF Sigsuspend, alarmVars, history
  <1>3. ASSUME NEW s \in Sender, Confirmation(s) PROVE TypeOK'
    BY <1>3 DEF Confirmation, alarmVars, history
  <1>4. ASSUME NEW s \in Sender, EarlyConfirmation(s) PROVE TypeOK'
    BY <1>4 DEF EarlyConfirmation, alarmVars
  <1>5. ASSUME NEW s \in Sender, InterruptSender(s) PROVE TypeOK'
    BY <1>5 DEF InterruptSender, alarmVars, history
  <1>6. CASE Obey
    <2>1. pending \in SigInfo
      BY <1>6 DEF Obey
    <2>2. pending.from \in Sender /\ pending.op \in Operations
      BY <2>1, SigInfoFields
    <2>3. current_mode' \in 0 .. 5 /\ alarm_set' \in BOOLEAN
      BY <1>6, <2>2 DEF Obey, HandshakeAssumption
    <2> QED
      BY <1>6, <2>1, <2>2, <2>3 DEF Obey, senderVars
  <1>7. CASE Confirm
    <2>1. siginfo \in SigInfo
      BY <1>7 DEF Confirm, CatcherInv
    <2>2. siginfo.from \in Sender
      BY <2>1, SigInfoFields
    <2> QED
      BY <1>7, <2>2 DEF Confirm, Gone, alarmVars, history
  <1>8. CASE Exit
    BY <1>8 DEF Exit, Gone, senderVars, alarmVars, history
  <1>9. CASE AlarmRings
    BY <1>9 DEF AlarmRings, senderVars, history
  <1>10. CASE HandleAlarm
    <2>1. alarm_set' \in BOOLEAN
      BY <1>10 DEF HandleAlarm
    <2> QED
      BY <1>10, <2>1 DEF HandleAlarm, senderVars, history
  <1>11. CASE InterruptCatcher
    BY <1>11 DEF InterruptCatcher, Gone, senderVars, alarmVars, history,
                 HandshakeAssumption
  <1>12. CASE UNCHANGED vars
    BY <1>12 DEF vars, senderVars, alarmVars, history
  <1> QED
    BY <1>1, <1>2, <1>3, <1>4, <1>5, <1>6, <1>7, <1>8, <1>9, <1>10, <1>11, <1>12
       DEF Next

\* A step that leaves alone what a sender has under way, but may end the catcher
\* and what is pending there.
LEMMA OthersMove ==
    ASSUME NEW s \in Sender, CommandInv(s),
           pc'[s] = pc[s], sent'[s] = sent[s], obeyed'[s] = obeyed[s],
           s \in confirmed' <=> s \in confirmed,
           s \in early => s \in early', s \in lost => s \in lost',
           IsObeyed(s)' <=> IsObeyed(s),
           IsPending(s)' => IsPending(s),
           IsPending(s) => IsPending(s)' \/ catcher' = "gone",
           catcher = "gone" => catcher' = "gone"
    PROVE  CommandInv(s)'
  BY DEF CommandInv

\* Every step keeps what holds of the catcher.
LEMMA NextCatcherInv ==
    ASSUME HandshakeAssumption, TypeOK, CatcherInv, [Next]_vars
    PROVE  CatcherInv'
  <1> USE DEF CatcherInv
  <1>1. ASSUME NEW s \in Sender, Sigqueue(s) PROVE CatcherInv'
    BY <1>1 DEF Sigqueue
  <1>2. CASE Obey
    <2>1. pending \in SigInfo
      BY <1>2 DEF Obey, TypeOK
    <2> QED
      BY <1>2, <2>1 DEF Obey
  <1>3. CASE Confirm \/ Exit
    BY <1>3 DEF Confirm, Exit, Gone
  <1>4. CASE InterruptCatcher
    BY <1>4 DEF InterruptCatcher, Gone
  <1>5. CASE UNCHANGED <<catcher, pending, siginfo>>
    BY <1>5
  <1> QED
    BY <1>1, <1>2, <1>3, <1>4, <1>5
       DEF Next, Sigsuspend, Confirmation, EarlyConfirmation, InterruptSender,
           AlarmRings, HandleAlarm, vars

\* A step of a sender disturbs its own command only.
LEMMA SenderKeepsCommands ==
    ASSUME HandshakeAssumption, Inv, NEW t \in Sender, NEW s \in Sender,
           \/ Sigqueue(t) \/ Sigsuspend(t) \/ Confirmation(t)
           \/ EarlyConfirmation(t) \/ InterruptSender(t)
    PROVE  CommandInv(s)'
  <1> USE DEF SenderGoes
  <1>0. TypeOK /\ CatcherInv /\ CommandInv(s) /\ CommandInv(t)
    BY DEF Inv
  <1>1. CASE Sigqueue(t)
    <2>1. CASE s = t
      <3>1. /\ pc[s] = "send" /\ pc'[s] = "suspend"
            /\ sent[s] \in Nat /\ sent'[s] = sent[s] + 1
            /\ obeyed[s] = sent[s] /\ obeyed' = obeyed
        BY <1>0, <1>1, <2>1 DEF Sigqueue, TypeOK, CommandInv
      <3>2. ~IsObeyed(s)' /\ s \notin confirmed'
        BY <1>0, <1>1, <2>1 DEF Sigqueue, CommandInv, IsObeyed
      <3>3. IsPending(s)' \/ s \in lost'
        <4>1. CASE catcher = "gone" \/ pending # NoSignal
          BY <1>1, <2>1, <4>1 DEF Sigqueue
        <4>2. CASE ~(catcher = "gone" \/ pending # NoSignal)
          <5>1. PICK op \in Operations : pending' = [from |-> t, op |-> op]
            BY <1>1, <4>2 DEF Sigqueue
          <5>2. pending' \in SigInfo /\ pending'.from = s
            BY <2>1, <5>1 DEF SigInfo
          <5> QED
            BY <5>2, SigInfoFields DEF IsPending
        <4> QED
          BY <4>1, <4>2
      <3>4. obeyed'[s] = sent'[s] - 1 /\ obeyed'[s] # sent'[s]
        BY <3>1
      <3> QED
        BY <3>1, <3>2, <3>3, <3>4 DEF CommandInv
    <2>2. CASE s # t
      <3>1. pc'[s] = pc[s] /\ sent'[s] = sent[s]
        BY <1>0, <1>1, <2>2 DEF Sigqueue, TypeOK
      <3>2. IsPending(s)' <=> IsPending(s)
        <4>1. CASE catcher = "gone" \/ pending # NoSignal
          BY <1>1, <4>1 DEF Sigqueue, IsPending
        <4>2. CASE ~(catcher = "gone" \/ pending # NoSignal)
          <5>1. PICK op \in Operations : pending' = [from |-> t, op |-> op]
            BY <1>1, <4>2 DEF Sigqueue
          <5> QED
            BY <2>2, <4>2, <5>1 DEF IsPending
        <4> QED
          BY <4>1, <4>2
      <3>3. /\ UNCHANGED <<confirmed, catcher, siginfo, obeyed, early>>
            /\ lost \subseteq lost'
        BY <1>1 DEF Sigqueue
      <3>4. IsObeyed(s)' <=> IsObeyed(s)
        BY <3>3 DEF IsObeyed
      <3> QED
        BY <1>0, <3>1, <3>2, <3>3, <3>4, OthersMove
    <2> QED
      BY <2>1, <2>2
  <1> DEFINE Same == UNCHANGED <<sent, catcher, pending, siginfo, obeyed, lost>>
  <1>2. ASSUME Same PROVE /\ IsPending(s)' <=> IsPending(s)
                          /\ IsObeyed(s)' <=> IsObeyed(s)
    BY <1>2 DEF IsPending, IsObeyed
  <1>3. CASE Sigsuspend(t)
    <2>1. Same /\ confirmed' = confirmed /\ early' = early
      BY <1>3 DEF Sigsuspend, history
    <2>2. \/ pc'[s] = pc[s]
          \/ pc[s] = "suspend" /\ pc'[s] = "suspended"
      BY <1>0, <1>3 DEF Sigsuspend, TypeOK
    <2> QED
      BY <1>0, <1>2, <2>1, <2>2 DEF CommandInv
  <1>4. CASE Confirmation(t)
    <2>1. Same /\ confirmed' = confirmed \ {t} /\ early' = early
      BY <1>4 DEF Confirmation, history
    <2>2. CASE s = t
      <3>1. s \in confirmed /\ pc'[s] \in {"dead", "send", "done"}
        BY <1>0, <1>4, <2>2 DEF Confirmation, TypeOK
      <3>2. obeyed[s] = sent[s] /\ ~IsObeyed(s)
        BY <1>0, <3>1 DEF CommandInv
      <3> QED
        BY <1>0, <1>2, <2>1, <2>2, <3>1, <3>2 DEF CommandInv
    <2>3. CASE s # t
      <3>1. pc'[s] = pc[s]
        BY <1>0, <1>4, <2>3 DEF Confirmation, TypeOK
      <3> QED
        BY <1>0, <1>2, <2>1, <2>3, <3>1, OthersMove
    <2> QED
      BY <2>2, <2>3
  <1>5. CASE EarlyConfirmation(t)
    <2>1. /\ Same /\ pc' = pc
          /\ confirmed' = confirmed \ {t} /\ early' = early \cup {t}
      BY <1>5 DEF EarlyConfirmation
    <2>2. CASE s = t
      <3>1. pc[s] = "suspend" /\ s \in confirmed
        BY <1>5, <2>2 DEF EarlyConfirmation
      <3> QED
        BY <1>0, <1>2, <2>1, <2>2, <3>1 DEF CommandInv
    <2>3. CASE s # t
      BY <1>0, <1>2, <2>1, <2>3, OthersMove
    <2> QED
      BY <2>2, <2>3
  <1>6. CASE InterruptSender(t)
    <2>1. Same /\ early' = early
      BY <1>6 DEF InterruptSender, history
    <2>2. CASE s = t /\ pc[t] # "suspended"
      <3>1. pc'[s] = "dead" /\ s \notin confirmed'
        BY <1>0, <1>6, <2>2 DEF InterruptSender, TypeOK
      <3> QED
        BY <1>0, <1>2, <2>1, <3>1 DEF CommandInv
    <2>3. CASE s # t \/ pc[t] = "suspended"
      <3>1. pc'[s] = pc[s] /\ (s \in confirmed' <=> s \in confirmed)
        BY <1>0, <1>6, <2>3 DEF InterruptSender, TypeOK
      <3> QED
        BY <1>0, <1>2, <2>1, <3>1, OthersMove
    <2> QED
      BY <2>2, <2>3
  <1> QED
    BY <1>1, <1>3, <1>4, <1>5, <1>6

\* A step of the catcher takes a command one place further, or drops it when
\* the catcher goes.
LEMMA CatcherKeepsCommands ==
    ASSUME HandshakeAssumption, Inv, NEW s \in Sender,
           \/ Obey \/ Confirm \/ Exit \/ AlarmRings \/ HandleAlarm
           \/ InterruptCatcher \/ UNCHANGED vars
    PROVE  CommandInv(s)'
  <1>0. TypeOK /\ CatcherInv /\ CommandInv(s)
    BY DEF Inv
  <1>1. CASE Obey
    <2>1. /\ pending \in SigInfo /\ pending # NoSignal /\ siginfo = NoSignal
          /\ pending' = NoSignal /\ siginfo' = pending
          /\ UNCHANGED <<pc, sent, confirmed, early, lost>>
          /\ catcher = "suspended" /\ catcher' = "obeying"
          /\ obeyed' = [obeyed EXCEPT ![pending.from] = @ + 1]
      BY <1>0, <1>1 DEF Obey, TypeOK, CatcherInv, senderVars
    <2>2. ~IsPending(s)' /\ ~IsObeyed(s)
      BY <2>1 DEF IsPending, IsObeyed
    <2>3. CASE pending.from = s
      <3>1. IsPending(s) /\ IsObeyed(s)'
        BY <2>1, <2>3 DEF IsPending, IsObeyed
      <3>2. obeyed[s] = sent[s] - 1 /\ sent[s] \in Nat /\ s \notin confirmed
        BY <1>0, <3>1 DEF CommandInv, TypeOK
      <3>3. obeyed'[s] = sent'[s]
        BY <1>0, <2>1, <2>3, <3>2 DEF TypeOK
      <3>4. pc[s] \notin {"send", "done"}
        BY <1>0, <3>2 DEF CommandInv
      <3> QED
        BY <2>1, <2>2, <3>1, <3>2, <3>3, <3>4 DEF CommandInv
    <2>4. CASE pending.from # s
      <3>1. ~IsPending(s) /\ ~IsObeyed(s)' /\ obeyed'[s] = obeyed[s]
        BY <1>0, <2>1, <2>4 DEF IsPending, IsObeyed, TypeOK
      <3> QED
        BY <1>0, <2>1, <2>2, <3>1, OthersMove
    <2> QED
      BY <2>3, <2>4
  <1>2. CASE Confirm
    <2>1. /\ siginfo # NoSignal /\ siginfo' = NoSignal
          /\ UNCHANGED <<pc, sent, obeyed, early, lost>>
          /\ catcher = "obeying"
      BY <1>0, <1>2 DEF Confirm, CatcherInv, history
    <2>2. pending' = pending \/ (pending' = NoSignal /\ catcher' = "gone")
      BY <1>2 DEF Confirm, Gone
    <2>3. /\ ~IsObeyed(s)' /\ (IsPending(s)' => IsPending(s))
          /\ IsPending(s) => IsPending(s)' \/ catcher' = "gone"
      BY <2>1, <2>2 DEF IsPending, IsObeyed
    <2>4. CASE siginfo.from = s
      <3>1. IsObeyed(s) /\ obeyed[s] = sent[s]
        BY <1>0, <2>1, <2>4 DEF IsObeyed, CommandInv
      <3>2. pc[s] # "dead" => s \in confirmed'
        BY <1>2, <2>4 DEF Confirm
      <3>3. ~IsPending(s)
        BY <1>0, <3>1 DEF CommandInv, TypeOK
      <3>4. pc[s] \notin {"send", "done"}
        BY <1>0, <3>1 DEF CommandInv
      <3> QED
        BY <1>0, <2>1, <2>3, <3>1, <3>2, <3>3, <3>4 DEF CommandInv, TypeOK
    <2>5. CASE siginfo.from # s
      <3>1. ~IsObeyed(s) /\ (s \in confirmed' <=> s \in confirmed)
        BY <1>2, <2>1, <2>5 DEF IsObeyed, Confirm
      <3> QED
        BY <1>0, <2>1, <2>3, <3>1, OthersMove
    <2> QED
      BY <2>4, <2>5
  <1>3. CASE \/ Exit \/ AlarmRings \/ HandleAlarm
             \/ InterruptCatcher \/ UNCHANGED vars
    <2>1. /\ UNCHANGED <<pc, sent, confirmed, siginfo, obeyed, early, lost>>
          /\ \/ UNCHANGED <<pending, catcher>>
             \/ pending' = NoSignal /\ catcher' = "gone"
      BY <1>3 DEF Exit, AlarmRings, HandleAlarm, InterruptCatcher, vars,
                  senderVars, alarmVars, history, Gone
    <2>2. /\ (IsObeyed(s)' <=> IsObeyed(s)) /\ (IsPending(s)' => IsPending(s))
          /\ IsPending(s) => IsPending(s)' \/ catcher' = "gone"
      BY <2>1 DEF IsPending, IsObeyed
    <2> QED
      BY <1>0, <2>1, <2>2, OthersMove
  <1> QED
    BY <1>1, <1>2, <1>3

LEMMA NextInv == ASSUME HandshakeAssumption, Inv, [Next]_vars PROVE Inv'
  <1>1. TypeOK' /\ CatcherInv'
    BY NextTypeOK, NextCatcherInv DEF Inv
  <1>2. ASSUME NEW s \in Sender PROVE CommandInv(s)'
    <2>1. ASSUME NEW t \in Sender,
                 \/ Sigqueue(t) \/ Sigsuspend(t) \/ Confirmation(t)
                 \/ EarlyConfirmation(t) \/ InterruptSender(t)
          PROVE  CommandInv(s)'
      BY <2>1, SenderKeepsCommands
    <2>2. CASE \/ Obey \/ Confirm \/ Exit \/ AlarmRings \/ HandleAlarm
               \/ InterruptCatcher \/ UNCHANGED vars
      BY <2>2, CatcherKeepsCommands
    <2> QED
      BY <2>1, <2>2 DEF Next
  <1> QED
    BY <1>1, <1>2 DEF Inv

\* Where every command is, in every reachable state.
THEOREM InvHolds == Spec => []Inv
  <1>1. Init => Inv
    BY InitInv, HandshakeAssumption
  <1>2. Inv /\ [Next]_vars => Inv'
    BY NextInv, HandshakeAssumption
  <1> QED
    BY <1>1, <1>2, PTL DEF Spec

-----------------------------------------------------------------------------
\* The types of all variables.
THEOREM TypeCorrect == Spec => []TypeOK
  <1>1. Inv => TypeOK
    BY DEF Inv
  <1> QED
    BY <1>1, InvHolds, PTL

\* No sender is past a command that was not obeyed, and none is obeyed twice,
\* however many senders there are (sender.c 37-41).
THEOREM CommandsNeverSkipped == Spec => []NoCommandSkipped
  <1>1. Inv => NoCommandSkipped
    BY DEF Inv, TypeOK, CommandInv, NoCommandSkipped
  <1> QED
    BY <1>1, InvHolds, PTL

\* A sender waits for ever only if its confirmation came too early, its signal
\* was dropped, or the catcher is gone (sender.c 39-40, catcher.c 38-42, 75).
THEOREM WaitsForEverForAReason == Spec => []WaitsForEverOnlyIf
  <1>1. Inv => WaitsForEverOnlyIf
    BY DEF Inv, CommandInv, WaitsForEverOnlyIf, WaitsForEver, Coming, IsPending,
           IsObeyed
  <1> QED
    BY <1>1, InvHolds, PTL

\* What Coming(s) looks at, of a sender that waits for ever, stays as it is.
LEMMA NothingComes ==
    ASSUME HandshakeAssumption, TypeOK, CatcherInv, [Next]_vars,
           NEW s \in Sender, WaitsForEver(s)
    PROVE  WaitsForEver(s)'
  <1> USE DEF WaitsForEver, Coming, SenderGoes
  <1>1. ASSUME NEW t \in Sender, Sigqueue(t) PROVE WaitsForEver(s)'
    <2>1. s # t /\ pc'[s] = pc[s] /\ confirmed' = confirmed /\ siginfo' = siginfo
      BY <1>1 DEF Sigqueue, TypeOK
    <2>2. pending' = pending \/ \E op \in Operations : pending' = [from |-> t, op |-> op]
      BY <1>1 DEF Sigqueue
    <2> QED
      BY <2>1, <2>2
  <1>2. ASSUME NEW t \in Sender,
               \/ Sigsuspend(t) \/ Confirmation(t) \/ EarlyConfirmation(t)
               \/ InterruptSender(t)
        PROVE  WaitsForEver(s)'
    <2>1. UNCHANGED <<pending, siginfo>> /\ confirmed' \subseteq confirmed
      BY <1>2 DEF Sigsuspend, Confirmation, EarlyConfirmation, InterruptSender
    <2>2. pc'[s] = "suspended"
      BY <1>2 DEF Sigsuspend, Confirmation, EarlyConfirmation, InterruptSender,
                  TypeOK
    <2> QED
      BY <2>1, <2>2
  <1>3. CASE Obey
    BY <1>3 DEF Obey, senderVars
  <1>4. CASE Confirm
    <2>1. siginfo # NoSignal
      BY <1>4 DEF Confirm, CatcherInv
    <2> QED
      BY <1>4, <2>1 DEF Confirm, Gone
  <1>5. CASE \/ Exit \/ AlarmRings \/ HandleAlarm
             \/ InterruptCatcher \/ UNCHANGED vars
    BY <1>5 DEF Exit, AlarmRings, HandleAlarm, InterruptCatcher, Gone, vars,
                senderVars
  <1> QED
    BY <1>1, <1>2, <1>3, <1>4, <1>5 DEF Next

\* Nothing the senders, the catcher or the terminal do ends such a wait: SIGINT
\* is blocked (sender.c 28-30, 40).
THEOREM WaitsLastForEver == Spec => WaitIsForEver
  <1>1. Inv /\ [Next]_vars => [\A s \in Sender : WaitsForEver(s) => WaitsForEver(s)']_vars
    BY NothingComes, HandshakeAssumption DEF Inv
  <1> QED
    BY <1>1, InvHolds, PTL DEF Spec, WaitIsForEver

-----------------------------------------------------------------------------
(* The alarm *)

\* While there is a catcher in mode 4, SIGALRM is on its way or pending: a change
\* of mode, a number that is no mode, and the SIGALRM of an earlier spell in
\* mode 4 leave the chain of alarms whole (catcher.c 31-36, 44-47).
AlarmChain == current_mode = 4 /\ catcher # "gone" => alarm_set \/ alarm_pending

\* The safety half of TimeIsPrinted.
THEOREM AlarmChainUnbroken == Spec => []AlarmChain
  <1>1. Init => AlarmChain
    BY DEF Init, AlarmChain
  <1>2. AlarmChain /\ [Next]_vars => AlarmChain'
    <2> SUFFICES ASSUME AlarmChain, [Next]_vars PROVE AlarmChain'
      OBVIOUS
    <2> USE DEF AlarmChain
    <2>1. CASE Obey
      BY <2>1 DEF Obey
    <2>2. CASE HandleAlarm
      BY <2>2 DEF HandleAlarm
    <2>3. CASE AlarmRings
      BY <2>3 DEF AlarmRings
    <2>4. CASE Confirm \/ Exit \/ InterruptCatcher
      BY <2>4 DEF Confirm, Exit, InterruptCatcher, Gone, alarmVars
    <2>5. CASE UNCHANGED <<catcher, alarmVars>>
      BY <2>5 DEF alarmVars
    <2> QED
      BY <2>1, <2>2, <2>3, <2>4, <2>5
         DEF Next, Sigqueue, Sigsuspend, Confirmation, EarlyConfirmation,
             InterruptSender, vars
  <1> QED
    BY <1>1, <1>2, PTL DEF Spec
-----------------------------------------------------------------------------
(* No sender is stuck for want of a step of another *)

\* A sender or the catcher has a call to make, or a SIGUSR1 to handle: Sigqueue,
\* Sigsuspend, Confirmation, Obey, Confirm or Exit.  Alarms and SIGINT do not count.
CanGoOn ==
    \/ \E s \in Sender : \/ pc[s] \in {"send", "suspend"}
                         \/ pc[s] = "suspended" /\ s \in confirmed
    \/ catcher = "suspended" /\ pending # NoSignal
    \/ catcher \in {"obeying", "exiting"}

\* When nobody can go on, every sender is at its end or waits for ever; by
\* WaitsForEverForAReason for one of three reasons.  The catcher is then in
\* sigsuspend with nothing pending, or gone: it never keeps a command for itself.
AtTheEnd ==
    /\ \A s \in Sender : pc[s] \in {"done", "dead"} \/ WaitsForEver(s)
    /\ catcher \in {"suspended", "gone"} /\ pending = NoSignal /\ siginfo = NoSignal

\* With any number of senders, sender and catcher never wait for each other but
\* where a signal came too early or was lost: the safety half of
\* SendersComeToAnEnd (sender.c 34-41, catcher.c 38-77).
THEOREM SendersNeverStuck == Spec => [](CanGoOn \/ AtTheEnd)
  <1>1. Inv => CanGoOn \/ AtTheEnd
    <2> SUFFICES ASSUME Inv, ~CanGoOn PROVE AtTheEnd
      OBVIOUS
    <2>1. /\ catcher \in {"suspended", "gone"}
          /\ pending = NoSignal /\ siginfo = NoSignal
      BY DEF Inv, TypeOK, CatcherInv, CanGoOn
    <2>2. ASSUME NEW s \in Sender
          PROVE  pc[s] \in {"done", "dead"} \/ WaitsForEver(s)
      <3>1. \/ pc[s] \in {"done", "dead"}
            \/ pc[s] = "suspended" /\ s \notin confirmed
        BY DEF Inv, TypeOK, CanGoOn
      <3> QED
        BY <2>1, <3>1 DEF WaitsForEver, Coming
    <2> QED
      BY <2>1, <2>2 DEF AtTheEnd
  <1> QED
    BY <1>1, InvHolds, PTL
==============================================================================
