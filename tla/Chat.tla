--------------------------------- MODULE Chat ---------------------------------
(***************************************************************************)
(* The chat of cw06/zad1: server.c and any number of client.c, each with a *)
(* System V message queue of its own.  Clients send INIT, LIST, 2ALL, 2ONE *)
(* and STOP to the server's queue; the server keeps the connected ones in  *)
(* the slots of client_list and answers into their queues.  SIGINT may     *)
(* reach any process between any two system calls.                         *)
(*                                                                         *)
(* A client is one process: INIT after a restart is another client.  What  *)
(* a message says is left out, but for the answer to INIT.  A process and  *)
(* the id of its queue are one and the same; 0, the value of an empty slot *)
(* of client_list, may be the id of a process too, and a user may type any *)
(* id after INIT.                                                          *)
(*                                                                         *)
(* The definitions marked (wrong) are mistakes the code does not make: put *)
(* in place of the definition they precede, each breaks a property below.  *)
(***************************************************************************)
EXTENDS MessageQueues

CONSTANTS Client, Server,
          Free,              \* 0: an empty slot of client_list
          Nobody,            \* -1, or any id that is no queue's
          MAX_NO_CLIENTS,
          MaxCommands,       \* bound: the messages each user sends, STOP aside
          Hosts,             \* the ids users type after INIT
          Recipients,        \* the ids users type after 2ONE
          Interrupted        \* the processes SIGINT may reach

ASSUME ChatAssumption ==
    /\ Server \notin Client
    /\ Nobody \notin Client \cup {Server, Free}
    /\ MAX_NO_CLIENTS \in Nat \ {0}
    /\ MaxCommands \in [Client -> Nat]
    /\ Hosts \cup Recipients \subseteq Client \cup {Server, Nobody}
    /\ Interrupted \subseteq Client \cup {Server}

INIT == 1  \* the types of headers.h, which are also the server's priorities
TO_ALL == 3
TO_ONE == 4
LIST == 5
STOP == 6

Process == Client \cup {Server}
Slot == 1 .. MAX_NO_CLIENTS

Message == [ mtype : {INIT, TO_ALL, TO_ONE, LIST, STOP},
             mtext : {"text", "connected", "refused"},
             sender_id : Process, send_to : Process \cup {Nobody} ]

VARIABLES
    queues,       \* the queue of every process
    removed,      \* processes whose queue was removed (msgctl IPC_RMID)
    client_list,  \* the server's slots
    srv,          \* where the server is, its message and its loop counter
    pc,           \* where each client is
    connected,    \* the flag of each client
    server_id,    \* the queue each client takes for the server's
    commands,     \* messages each user has sent
    named         \* history: the clients whose id a user typed after INIT

serverVars == <<client_list, srv>>
clientVars == <<pc, connected, server_id, commands, named>>
vars == <<queues, removed, serverVars, clientVars>>

Msg(t, text, from, to) ==
    [mtype |-> t, mtext |-> text, sender_id |-> from, send_to |-> to]

Listed == {client_list[s] : s \in Slot} \ {Free}

\* Between two messages the server's variables are dead: they are forgotten.
Idle == [at |-> "receive", msg |-> Msg(STOP, "text", Server, Server), i |-> 1]

Init ==
    /\ queues = [p \in Process |-> <<>>]
    /\ removed = {}
    /\ client_list = [s \in Slot |-> Free]
    /\ srv = Idle
    /\ pc = [c \in Client |-> "check"]
    /\ connected = [c \in Client |-> FALSE]
    /\ server_id \in [Client -> {Server, Nobody}]  \* Nobody: started first
    /\ commands = [c \in Client |-> 0]
    /\ named = {}

\* There is no such queue, or none any more.
NoQueue(p) == p \in removed \cup {Nobody}

\* msgsnd without IPC_NOWAIT: blocks while the queue is full, and fails, to no
\* effect, when there is none.
msgsnd(p, m) ==
    \/ NoQueue(p) /\ UNCHANGED queues
    \/ /\ ~NoQueue(p) /\ HasRoom(queues[p])
       /\ queues' = [queues EXCEPT ![p] = Append(@, m)]

\* Takes the message at index i out of the queue of p.
msgrcv(p, i) == queues' = [queues EXCEPT ![p] = RemoveAt(@, i)]

-----------------------------------------------------------------------------
(* server.c *)

ServerGoes(from, to) == srv.at = from /\ srv' = [srv EXCEPT !.at = to]
ServerDone(from) == srv.at = from /\ srv' = Idle

\* (wrong) The limit is -5: STOP is never taken.
ReceiveBelowStop ==
    LET q == queues[Server]
        i == LowestType(q)
    IN  /\ srv.at = "receive" /\ q # <<>> /\ q[i].mtype < STOP
        /\ msgrcv(Server, i)
        /\ srv' = [srv EXCEPT !.at = "react", !.msg = q[i]]
        /\ UNCHANGED <<removed, client_list, clientVars>>

\* (wrong) STOP before everything else, then the oldest message.
ReceiveStopFirst ==
    /\ srv.at = "receive" /\ queues[Server] # <<>>
    /\ LET q == queues[Server]
           i == IF OfType(q, STOP) # {} THEN OldestOf(q, STOP) ELSE 1
       IN  /\ msgrcv(Server, i)
           /\ srv' = [srv EXCEPT !.at = "react", !.msg = q[i]]
    /\ UNCHANGED <<removed, client_list, clientVars>>

\* msgrcv(server_id, &message, MSG_SIZE, -6, 0)
Receive ==
    /\ srv.at = "receive" /\ queues[Server] # <<>>
    /\ LET i == LowestType(queues[Server])
       IN  /\ msgrcv(Server, i)
           /\ srv' = [srv EXCEPT !.at = "react", !.msg = queues[Server][i]]
    /\ UNCHANGED <<removed, client_list, clientVars>>

Reacting(t) == srv.at = "react" /\ srv.msg.mtype = t

\* (wrong) The type of msg_init, copied into the answer to LIST.
AnswerAsInit(t, text) ==
    srv' = [srv EXCEPT !.at = "send",
                       !.msg = Msg(INIT, text, Server, srv.msg.sender_id)]

Answer(t, text) ==
    srv' = [srv EXCEPT !.at = "send",
                       !.msg = Msg(t, text, Server, srv.msg.sender_id)]

FreeSlots == {s \in Slot : client_list[s] = Free}

\* (wrong) Without the break, every free slot is the client's.
AdmitEverywhere ==
    /\ Reacting(INIT) /\ FreeSlots # {}
    /\ client_list' = [s \in Slot |-> IF s \in FreeSlots THEN srv.msg.sender_id
                                      ELSE client_list[s]]
    /\ Answer(INIT, "connected")
    /\ UNCHANGED <<queues, removed, clientVars>>

\* The first free slot is the client's before the client is told.
Admit ==
    /\ Reacting(INIT) /\ FreeSlots # {}
    /\ client_list' = [client_list EXCEPT ![Min(FreeSlots)] = srv.msg.sender_id]
    /\ Answer(INIT, "connected")
    /\ UNCHANGED <<queues, removed, clientVars>>

\* (wrong) Who is refused gets no answer.
RefuseSilently ==
    /\ Reacting(INIT) /\ FreeSlots = {}
    /\ ServerDone("react")
    /\ UNCHANGED <<queues, removed, client_list, clientVars>>

Refuse ==
    /\ Reacting(INIT) /\ FreeSlots = {}
    /\ Answer(INIT, "refused")
    /\ UNCHANGED <<queues, removed, client_list, clientVars>>

\* (wrong) The break is lost and, with it, the test: the first slot is freed.
UnlistFirst(c) == client_list' = [client_list EXCEPT ![1] = Free]

\* The first slot of the client is freed, if it has one.
Unlist(c) ==
    LET mine == {s \in Slot : client_list[s] = c}
    IN  client_list' = IF mine = {} THEN client_list
                       ELSE [client_list EXCEPT ![Min(mine)] = Free]

ReactStop ==
    /\ Reacting(STOP)
    /\ Unlist(srv.msg.sender_id)
    /\ ServerDone("react")
    /\ UNCHANGED <<queues, removed, clientVars>>

ReactList ==
    /\ Reacting(LIST)
    /\ Answer(LIST, "text")
    /\ UNCHANGED <<queues, removed, client_list, clientVars>>

\* TO_ONE is passed on as it came, to whatever id the user typed.
ReactToOne ==
    /\ Reacting(TO_ONE)
    /\ ServerGoes("react", "send")
    /\ UNCHANGED <<queues, removed, client_list, clientVars>>

ReactToAll ==
    /\ Reacting(TO_ALL)
    /\ srv' = [srv EXCEPT !.at = "broadcast", !.i = 1]
    /\ UNCHANGED <<queues, removed, client_list, clientVars>>

Send ==
    /\ ServerDone("send")
    /\ msgsnd(srv.msg.send_to, srv.msg)
    /\ UNCHANGED <<removed, client_list, clientVars>>

\* One round of the loop of TO_ALL: every listed client but the sender.
Broadcast ==
    /\ srv.at = "broadcast" /\ srv.i \in Slot
    /\ LET c == client_list[srv.i]
       IN  IF c \in {Free, srv.msg.sender_id} THEN UNCHANGED queues
           ELSE msgsnd(c, [srv.msg EXCEPT !.send_to = c])
    /\ srv' = [srv EXCEPT !.i = @ + 1]
    /\ UNCHANGED <<removed, client_list, clientVars>>

BroadcastDone ==
    /\ srv.i \notin Slot
    /\ ServerDone("broadcast")
    /\ UNCHANGED <<queues, removed, client_list, clientVars>>

\* SIGINT: the handler never returns, so whatever was under way is dropped.
InterruptServer ==
    /\ Server \in Interrupted
    /\ srv.at \in {"receive", "react", "send", "broadcast"}
    /\ srv' = [Idle EXCEPT !.at = "drain"]
    /\ UNCHANGED <<queues, removed, client_list, clientVars>>

\* A STOP that is in the queue: its sender is taken off the list.
TakeStop(from, to) ==
    LET q == queues[Server]
        i == OldestOf(q, STOP)
    IN  /\ OfType(q, STOP) # {}
        /\ msgrcv(Server, i)
        /\ Unlist(q[i].sender_id)
        /\ srv.at = from /\ srv' = to

DrainStop ==
    /\ TakeStop("drain", srv)
    /\ UNCHANGED <<removed, clientVars>>

NoMoreStops ==
    /\ srv.at = "drain" /\ OfType(queues[Server], STOP) = {}
    /\ srv' = [srv EXCEPT !.at = "close", !.i = 1]
    /\ UNCHANGED <<queues, removed, client_list, clientVars>>

\* Tell the client in the next slot to stop; an empty slot is passed over.
CloseSlot ==
    /\ srv.at = "close" /\ srv.i \in Slot
    /\ LET c == client_list[srv.i]
       IN  IF c = Free
           THEN UNCHANGED queues /\ srv' = [srv EXCEPT !.i = @ + 1]
           ELSE /\ msgsnd(c, Msg(STOP, "text", Server, c))
                /\ srv' = [srv EXCEPT !.at = "await_stop"]
    /\ UNCHANGED <<removed, client_list, clientVars>>

\* The server waits for a STOP, of whichever client sends one first.
AwaitStop ==
    /\ TakeStop("await_stop", [srv EXCEPT !.at = "close", !.i = @ + 1])
    /\ UNCHANGED <<removed, clientVars>>

CloseServer ==
    /\ srv.i \notin Slot
    /\ srv.at = "close" /\ srv' = [Idle EXCEPT !.at = "closed"]
    /\ removed' = removed \cup {Server}
    /\ queues' = [queues EXCEPT ![Server] = <<>>]
    /\ UNCHANGED <<client_list, clientVars>>

-----------------------------------------------------------------------------
(* client.c *)

Goes(c, from, to) == pc[c] = from /\ pc' = [pc EXCEPT ![c] = to]

\* What most steps of a client leave alone.
clientRest == <<removed, serverVars, connected, server_id, commands, named>>

\* react_to_server_messages: first a look for a STOP of the server's ...
NoticeStop(c) ==
    /\ OfType(queues[c], STOP) # {}
    /\ msgrcv(c, OldestOf(queues[c], STOP))
    /\ Goes(c, "check", "ack")
    /\ connected' = [connected EXCEPT ![c] = FALSE]
    /\ UNCHANGED <<removed, serverVars, server_id, commands, named>>

SendAck(c) ==
    /\ Goes(c, "ack", "command")
    /\ msgsnd(server_id[c], Msg(STOP, "text", c, server_id[c]))
    /\ server_id' = [server_id EXCEPT ![c] = Nobody]
    /\ UNCHANGED <<removed, serverVars, connected, commands, named>>

NoStop(c) ==
    /\ OfType(queues[c], STOP) = {}
    /\ Goes(c, "check", "drain")
    /\ UNCHANGED <<queues, clientRest>>

\* ... then every message there is, of whatever type, is printed and dropped.
PrintMessage(c) ==
    /\ queues[c] # <<>>
    /\ msgrcv(c, 1)
    /\ Goes(c, "drain", "drain")
    /\ UNCHANGED clientRest

Drained(c) ==
    /\ queues[c] = <<>>
    /\ Goes(c, "drain", "command")
    /\ UNCHANGED <<queues, clientRest>>

\* An empty line, an unknown command, or any but INIT when not connected.
EnterNothing(c) ==
    /\ Goes(c, "command", "check")
    /\ UNCHANGED <<queues, clientRest>>

\* A line that makes the client send something: it is bound to, from here on.
Command(c, to) ==
    /\ commands[c] < MaxCommands[c]
    /\ commands' = [commands EXCEPT ![c] = @ + 1]
    /\ Goes(c, "command", to)
    /\ UNCHANGED <<queues, removed, serverVars, connected>>

\* The client sends m to what it takes for the server; when there is no such
\* queue, msgsnd fails and the client goes on to the next line.
Request(c, from, m, to) ==
    /\ msgsnd(server_id[c], m)
    /\ Goes(c, from, IF NoQueue(server_id[c]) THEN "check" ELSE to)
    /\ UNCHANGED clientRest

\* INIT <id>: whatever is typed is the server from now on.
CommandInit(c) ==
    /\ ~connected[c]
    /\ \E p \in Hosts : /\ server_id' = [server_id EXCEPT ![c] = p]
                        /\ named' = named \cup ({p} \cap Client)
    /\ Command(c, "send_init")

SendInit(c) ==
    Request(c, "send_init", Msg(INIT, "text", c, server_id[c]), "await_init")

\* The oldest message of type INIT is the answer, whoever sent it.
AwaitInit(c) ==
    LET i == OldestOf(queues[c], INIT)
    IN  /\ OfType(queues[c], INIT) # {}
        /\ msgrcv(c, i)
        /\ Goes(c, "await_init", "check")
        /\ connected' = [connected EXCEPT
                           ![c] = queues[c][i].mtext # "refused"]
        /\ UNCHANGED <<removed, serverVars, server_id, commands, named>>

CommandList(c) ==
    /\ connected[c]
    /\ Command(c, "send_list")
    /\ UNCHANGED <<server_id, named>>

SendList(c) ==
    Request(c, "send_list", Msg(LIST, "text", c, server_id[c]), "await_list")

\* (wrong) The next message, of whatever type, is taken for the answer.
AwaitAnything(c) ==
    /\ queues[c] # <<>>
    /\ msgrcv(c, 1)
    /\ Goes(c, "await_list", "check")
    /\ UNCHANGED clientRest

AwaitList(c) ==
    /\ OfType(queues[c], LIST) # {}
    /\ msgrcv(c, OldestOf(queues[c], LIST))
    /\ Goes(c, "await_list", "check")
    /\ UNCHANGED clientRest

CommandToAll(c) ==
    /\ connected[c]
    /\ Command(c, "send_all")
    /\ UNCHANGED <<server_id, named>>

SendToAll(c) ==
    Request(c, "send_all", Msg(TO_ALL, "text", c, server_id[c]), "check")

CommandToOne(c) ==
    /\ connected[c] /\ Recipients # {}
    /\ Command(c, "send_one")
    /\ UNCHANGED <<server_id, named>>

\* Nobody sees the id that was typed before the message is sent.
SendToOne(c) ==
    \E p \in Recipients :
        Request(c, "send_one", Msg(TO_ONE, "text", c, p), "check")

\* STOP calls sigint_handler as a function: SIGINT is not masked meanwhile.
CommandStop(c) ==
    /\ connected[c]
    /\ Goes(c, "command", "stop")
    /\ UNCHANGED <<queues, clientRest>>

InterruptClient(c) ==
    /\ c \in Interrupted
    /\ pc[c] \notin {"bye", "remove", "gone"}
    /\ pc' = [pc EXCEPT ![c] = "bye"]
    /\ UNCHANGED <<queues, clientRest>>

\* (wrong) msgsnd with IPC_NOWAIT: no STOP when the server's queue is full.
SayGoodbyeIfRoom(c) ==
    /\ Goes(c, "stop", "remove_after_stop") \/ Goes(c, "bye", "remove")
    /\ IF connected[c] /\ HasRoom(queues[Server])
       THEN msgsnd(server_id[c], Msg(STOP, "text", c, server_id[c]))
       ELSE UNCHANGED queues
    /\ UNCHANGED clientRest

SayGoodbye(c) ==
    /\ Goes(c, "stop", "remove_after_stop") \/ Goes(c, "bye", "remove")
    /\ IF connected[c]
       THEN msgsnd(server_id[c], Msg(STOP, "text", c, server_id[c]))
       ELSE UNCHANGED queues
    /\ UNCHANGED clientRest

\* msgctl(client_id, IPC_RMID, NULL): in the handler of a signal exit follows
\* undisturbed, in the call of STOP the signal may still come in between.
RemoveQueue(c) ==
    /\ Goes(c, "remove", "gone") \/ Goes(c, "remove_after_stop", "exit")
    /\ removed' = removed \cup {c}
    /\ queues' = [queues EXCEPT ![c] = <<>>]
    /\ UNCHANGED <<serverVars, connected, server_id, commands, named>>

Exit(c) ==
    /\ Goes(c, "exit", "gone")
    /\ UNCHANGED <<queues, clientRest>>

-----------------------------------------------------------------------------
ServerStep ==
    \/ Receive \/ Admit \/ Refuse \/ ReactStop \/ ReactList \/ ReactToOne
    \/ ReactToAll \/ Send \/ Broadcast \/ BroadcastDone
    \/ DrainStop \/ NoMoreStops \/ CloseSlot \/ AwaitStop \/ CloseServer

\* What a client does by itself, an impatient user's empty lines included.
ClientStep(c) ==
    \/ NoticeStop(c) \/ SendAck(c) \/ NoStop(c) \/ PrintMessage(c)
    \/ Drained(c) \/ EnterNothing(c)
    \/ SendInit(c) \/ AwaitInit(c) \/ SendList(c) \/ AwaitList(c)
    \/ SendToAll(c) \/ SendToOne(c)
    \/ SayGoodbye(c) \/ RemoveQueue(c) \/ Exit(c)

UserCommand(c) ==
    \/ CommandInit(c) \/ CommandList(c) \/ CommandToAll(c) \/ CommandToOne(c)
    \/ CommandStop(c)

Next ==
    \/ ServerStep \/ InterruptServer
    \/ \E c \in Client : ClientStep(c) \/ UserCommand(c) \/ InterruptClient(c)

Spec == Init /\ [][Next]_vars

\* The server and every client keep running; users need type nothing but
\* empty lines, and nobody need press Control-C.
FairSpec == Spec /\ WF_vars(ServerStep)
                 /\ \A c \in Client : WF_vars(ClientStep(c))

-----------------------------------------------------------------------------
(* Properties *)

ClientLabel ==
    {"check", "ack", "drain", "command", "send_init", "await_init", "send_list",
     "await_list", "send_all", "send_one", "stop", "remove_after_stop", "exit",
     "bye", "remove", "gone"}
ServerLabel ==
    {"receive", "react", "send", "broadcast", "drain", "close", "await_stop",
     "closed"}

\* The type of every variable.
TypeOK ==
    /\ DOMAIN queues = Process
    /\ \A p \in Process : /\ queues[p] \in Seq(Message)
                          /\ Len(queues[p]) <= QUEUE_SIZE
    /\ removed \subseteq Process
    /\ client_list \in [Slot -> Client \cup {Free}]
    /\ srv \in [at : ServerLabel, msg : Message, i : 1 .. MAX_NO_CLIENTS + 1]
    /\ pc \in [Client -> ClientLabel]
    /\ connected \in [Client -> BOOLEAN]
    /\ server_id \in [Client -> Process \cup {Nobody}]
    /\ commands \in [Client -> Nat]
    /\ \A c \in Client : commands[c] <= MaxCommands[c]
    /\ named \subseteq Client

ServerUp == srv.at \in {"receive", "react", "send", "broadcast"}
Leaving(c) ==
    pc[c] \in {"stop", "remove_after_stop", "exit", "bye", "remove", "gone"}

\* The clients the server can tell from an empty slot, and that no user has taken
\* for the server.
Ordinary == Client \ (named \cup {Free})

\* Messages of type t that c sent, or that are for c, in a queue.
From(c, t, p) == {i \in OfType(queues[p], t) : queues[p][i].sender_id = c}

\* However often a client asks and however its answers are delayed, it takes no
\* two slots of client_list; and one that thinks it is connected has its slot
\* until it takes its leave, even while the server is shutting down
\* (client.c 100-101, server.c 26-52).  Not so if somebody typed its id after
\* INIT: it takes that request for its answer; nor if its id is 0.
ConnectedIsListed ==
    /\ \A s, r \in Slot :
          client_list[s] = client_list[r] /\ client_list[s] \in Ordinary => s = r
    /\ \A c \in Ordinary : connected[c] /\ ~Leaving(c) => c \in Listed

\* The server never handles a message of somebody it has already let go: STOP
\* is the type it takes last (server.c 141).
HandlesOnlyListed ==
    (/\ srv.at \in {"react", "broadcast"}
     /\ srv.msg.mtype \in {LIST, TO_ALL, TO_ONE}
     /\ srv.msg.sender_id \in Ordinary)
    => srv.msg.sender_id \in Listed

\* The number of requests of type t of client c under way, and of answers.
InFlight(c, t) ==
    Cardinality(From(c, t, Server)) + Cardinality(From(Server, t, c))
      + (IF /\ srv.msg.mtype = t
            /\ \/ srv.at = "react" /\ srv.msg.sender_id = c
               \/ srv.at = "send" /\ srv.msg.send_to = c
         THEN 1 ELSE 0)

\* An answer to INIT or LIST meets the client that still waits for it: never
\* two answers, none after the wait is over, and none lost while the server is
\* up (client.c 90-101, 115-123).  A client that asked another than the server
\* is never answered.
AnswerMeetsRequest ==
    \A c \in Ordinary :
        /\ pc[c] = "await_init" =>
              InFlight(c, INIT) \in (IF server_id[c] # Server THEN {0}
                                     ELSE IF ServerUp THEN {1} ELSE {0, 1})
        /\ pc[c] = "await_list" =>
              InFlight(c, LIST) \in (IF ServerUp THEN {1} ELSE {0, 1})
        /\ ~Leaving(c) /\ pc[c] # "await_init" => InFlight(c, INIT) = 0
        /\ ~Leaving(c) /\ pc[c] # "await_list" => InFlight(c, LIST) = 0

\* c waits for an answer that has not come.
WaitsForAnswer(c) ==
    \/ pc[c] = "await_init" /\ OfType(queues[c], INIT) = {}
    \/ pc[c] = "await_list" /\ OfType(queues[c], LIST) = {}

\* The server does not sit and wait on its empty queue while a client that asked
\* it waits for the answer (server.c 25-44, 54-71, 141-147, client.c 90-101,
\* 115-123).
IdleServerKeepsNobody ==
    srv.at = "receive" /\ queues[Server] = <<>> =>
        \A c \in Ordinary : server_id[c] = Server => ~WaitsForAnswer(c)

\* The server is sending to p.
SendsTo(p) ==
    \/ srv.at = "send" /\ srv.msg.send_to = p
    \/ /\ srv.at = "broadcast" /\ srv.i \in Slot
       /\ client_list[srv.i] = p /\ p \notin {Free, srv.msg.sender_id}

\* A client that goes no further until somebody else takes a step.
Waits(c) ==
    \/ WaitsForAnswer(c)
    \/ /\ \/ pc[c] \in {"send_init", "send_list", "send_all", "send_one", "ack"}
          \/ pc[c] \in {"stop", "bye"} /\ connected[c]
       /\ ~NoQueue(server_id[c]) /\ ~HasRoom(queues[server_id[c]])

\* The server sends into a full queue, its own or that of a client which waits
\* for somebody itself.
ServerStuck ==
    \E p \in Process \ removed :
        SendsTo(p) /\ ~HasRoom(queues[p]) /\ (p \in Client => Waits(p))

\* The server has, or passes on, a message it is to pass on to itself: it will
\* do so for ever, and LIST and STOP come after it.
SendsToItself ==
    \/ \E i \in OfType(queues[Server], TO_ONE) :
          queues[Server][i].send_to = Server
    \/ srv.at \in {"react", "send"} /\ srv.msg.mtype = TO_ONE
                                    /\ srv.msg.send_to = Server

\* A client that asked the server for a slot or the list is answered, unless the
\* server was told to shut down, or is stuck for good on a full queue, its own or
\* that of a client that waits itself, or, for the list, somebody had it send a
\* message to itself (client.c 90-101, 115-123, server.c 75, 83, 141).  Others'
\* messages delay an answer, but users type finitely many.
RequestsAnswered ==
    \A c \in Client :
        /\ pc[c] = "await_init" /\ server_id[c] = Server
              ~> pc[c] # "await_init" \/ ~ServerUp \/ []ServerStuck
        /\ pc[c] = "await_list" /\ server_id[c] = Server
              ~> pc[c] # "await_list" \/ ~ServerUp \/ SendsToItself
                   \/ []ServerStuck

\* The slot of a client that leaves is freed, but for the same reasons
\* (client.c 10-15, server.c 46-52, 141).
SlotFreed ==
    \A c \in Client :
        Leaving(c) /\ connected[c]
            ~> c \notin Listed \cap Ordinary \/ ~ServerUp \/ SendsToItself
                 \/ []ServerStuck

\* The STOP of c is in the server's queue, or in its hand.
StopUnderWay(c) ==
    \/ From(c, STOP, Server) # {}
    \/ srv.at = "react" /\ srv.msg.mtype = STOP /\ srv.msg.sender_id = c

\* A client that is gone keeps its slot for good only if it did not know that it
\* was connected: of any other that is still listed the STOP is with the server,
\* even if the server's queue was full, or the handler ran twice (client.c 8-18,
\* server.c 46-52).
SlotLostOnlyUnaware ==
    \A c \in Ordinary : ServerUp /\ pc[c] = "gone" /\ c \in Listed =>
        ~connected[c] \/ StopUnderWay(c)

\* SIGINT closes the server: "Disconnecting clients.." ends in "Closing
\* server..." (server.c 101-122).
ServerCloses == srv.at = "drain" ~> srv.at = "closed"
=============================================================================
