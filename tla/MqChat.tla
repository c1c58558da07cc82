-------------------------------- MODULE MqChat --------------------------------
(***************************************************************************)
(* The chat of cw06/zad2: server.c and any number of client.c over POSIX   *)
(* message queues, which hand out the message of the highest priority      *)
(* first.  A queue is known by its name, and a client names its queue      *)
(* after the second it was started in (rand_char seeds with the time), so  *)
(* that clients may share one.                                             *)
(*                                                                         *)
(* A client reads its queue only where it waits for an answer, and takes   *)
(* whatever comes first for it.  What a line of chat says is left out but  *)
(* for what tells lines apart.  handle_stop and handle_to_one are not      *)
(* modelled: no client sends with the priorities that lead there.          *)
(*                                                                         *)
(* The definitions marked (wrong) are mistakes the code does not make: put *)
(* in place of the definition they precede, each breaks a property below.  *)
(***************************************************************************)
EXTENDS MessageQueues

CONSTANTS Client,
          Name,              \* the names of the clients' queues
          SERVER_QUEUE,
          None,              \* "" in client_list, 0 in client_que_desc
          MAX_NO_CLIENTS,    \* slots; QUEUE_SIZE in the code as well
          MaxCommands        \* bound: the commands the users give, in all

ASSUME MqChatAssumption ==
    /\ SERVER_QUEUE \notin Name /\ None \notin Name \cup {SERVER_QUEUE}
    /\ MAX_NO_CLIENTS \in Nat \ {0} /\ MaxCommands \in Nat

ERR == 0    \* the priorities of header.h
INIT == 1
TO_ALL == 3
LIST == 4

Slot == 1 .. MAX_NO_CLIENTS
Queue == Name \cup {SERVER_QUEUE}

\* A message; line is the number of the command, 0 in the server's answers.
Message == [ mtype : {ERR, INIT, TO_ALL, LIST}, sender_name : Queue,
             line : 0 .. MaxCommands ]

VARIABLES
    name,             \* client_name of each client
    queues,           \* the queues, by name
    client_list,      \* the server's slots: what it takes for their names
    client_que_desc,  \* the queue each slot has open
    srv,              \* where the server is and what it is about to send
    pc,               \* where each client is
    connected,        \* the flag of each client
    commands          \* the commands given so far

serverVars == <<client_list, client_que_desc, srv>>
clientVars == <<pc, connected, commands>>
vars == <<name, queues, serverVars, clientVars>>

Msg(t, sender, line) == [mtype |-> t, sender_name |-> sender, line |-> line]

\* asker: the client whose message is handled; to: the queue of the answer; i:
\* the slot a message to all has come to.
Waiting == [at |-> "receive", asker |-> None, to |-> None,
            msg |-> Msg(ERR, SERVER_QUEUE, 0), i |-> 1]

Init ==
    /\ name \in [Client -> Name]
    /\ queues = [q \in Queue |-> <<>>]
    /\ client_list = [s \in Slot |-> None]
    /\ client_que_desc = [s \in Slot |-> None]
    /\ srv = Waiting
    /\ pc = [c \in Client |-> "command"]
    /\ connected = [c \in Client |-> FALSE]
    /\ commands = 0

\* (wrong) A message that finds the queue full is dropped, as with O_NONBLOCK.
mq_send_or_drop(q, m) ==
    queues' = IF HasRoom(queues[q]) THEN [queues EXCEPT ![q] = Append(@, m)]
                                    ELSE queues

\* Blocks while the queue is full.
mq_send(q, m) == /\ HasRoom(queues[q])
                 /\ queues' = [queues EXCEPT ![q] = Append(@, m)]

\* The message mq_receive takes out of a queue; it blocks while there is none.
First(q) == queues[q][HighestType(queues[q])]
mq_receive(q) ==
    /\ queues[q] # <<>>
    /\ queues' = [queues EXCEPT ![q] = RemoveAt(@, HighestType(queues[q]))]

-----------------------------------------------------------------------------
(* server.c *)

\* Takes a message of the priority that leads to one of the handlers.
Receive(t) == /\ srv.at = "receive"
              /\ mq_receive(SERVER_QUEUE) /\ First(SERVER_QUEUE).mtype = t

Asker == First(SERVER_QUEUE).sender_name

\* The handler is about to send an answer, of no line of a user's.
Answers(t, q) ==
    srv' = [srv EXCEPT !.at = "answer", !.asker = Asker, !.to = q,
                       !.msg = Msg(t, SERVER_QUEUE, 0)]

FreeSlots == {s \in Slot : client_list[s] = None}

\* The first free slot gets the queue of the sender, but the name of the server:
\* fill_message has overwritten sender_name by then.
Admit ==
    /\ Receive(INIT) /\ FreeSlots # {}
    /\ client_list' = [client_list EXCEPT ![Min(FreeSlots)] = SERVER_QUEUE]
    /\ client_que_desc' = [client_que_desc EXCEPT ![Min(FreeSlots)] = Asker]
    /\ Answers(INIT, Asker)
    /\ UNCHANGED <<name, clientVars>>

\* (wrong) Without a slot, there is no answer either.
RefuseSilently ==
    /\ Receive(INIT) /\ FreeSlots = {}
    /\ UNCHANGED <<name, serverVars, clientVars>>

Refuse ==
    /\ Receive(INIT) /\ FreeSlots = {}
    /\ Answers(ERR, Asker)
    /\ UNCHANGED <<name, client_list, client_que_desc, clientVars>>

Matches(n) == {s \in Slot : client_list[s] = n}

\* The queues the variable `recipient' may stand for after the loop of
\* handle_list: the last match or, without one, what it happens to hold, which
\* is no descriptor (None) or any that is open.
Recipients(n) ==
    IF Matches(n) # {} THEN {client_que_desc[Max(Matches(n))]}
    ELSE {None, SERVER_QUEUE} \cup {client_que_desc[s] : s \in Slot}

HandleList ==
    /\ Receive(LIST)
    /\ \E q \in Recipients(Asker) : Answers(LIST, q)
    /\ UNCHANGED <<name, client_list, client_que_desc, clientVars>>

\* mq_send to what is no descriptor fails, and that is all.
SendAnswer ==
    /\ srv.at = "answer" /\ srv' = Waiting
    /\ \/ srv.to = None /\ UNCHANGED queues
       \/ srv.to # None /\ mq_send(srv.to, srv.msg)
    /\ UNCHANGED <<name, client_list, client_que_desc, clientVars>>

HandleToAll ==
    /\ Receive(TO_ALL)
    /\ srv' = [srv EXCEPT !.at = "to_all", !.asker = Asker,
                          !.msg = First(SERVER_QUEUE)]
    /\ UNCHANGED <<name, client_list, client_que_desc, clientVars>>

\* One round of the loop of handle_to_all.
SendToAll ==
    /\ srv.at = "to_all"
    /\ \/ client_que_desc[srv.i] = None /\ UNCHANGED queues
       \/ /\ client_que_desc[srv.i] # None
          /\ mq_send(client_que_desc[srv.i], srv.msg)
    /\ srv' = IF srv.i = MAX_NO_CLIENTS THEN Waiting ELSE [srv EXCEPT !.i = @ + 1]
    /\ UNCHANGED <<name, client_list, client_que_desc, clientVars>>

ServerStep == Admit \/ Refuse \/ HandleList \/ SendAnswer
                    \/ HandleToAll \/ SendToAll

-----------------------------------------------------------------------------
(* client.c *)

\* A command is typed and sent.  A user whose message finds the server's queue
\* full can do nothing else meanwhile, which is no different from not typing.
Command(c, t, to) ==
    /\ pc[c] = "command" /\ commands < MaxCommands
    /\ commands' = commands + 1
    /\ mq_send(SERVER_QUEUE, Msg(t, name[c], commands'))
    /\ pc' = [pc EXCEPT ![c] = to]
    /\ UNCHANGED <<name, serverVars, connected>>

CommandInit(c) == ~connected[c] /\ Command(c, INIT, "await_init")

\* (wrong) Any answer is as good as another.
AwaitAnyInit(c) ==
    /\ pc[c] = "await_init" /\ mq_receive(name[c])
    /\ pc' = [pc EXCEPT ![c] = "command"]
    /\ connected' = [connected EXCEPT ![c] = TRUE]
    /\ UNCHANGED <<name, serverVars, commands>>

\* The message that comes first is taken for the answer; all but a refusal, of
\* priority 0, connect.
AwaitInit(c) ==
    /\ pc[c] = "await_init" /\ mq_receive(name[c])
    /\ pc' = [pc EXCEPT ![c] = "command"]
    /\ connected' = [connected EXCEPT ![c] = First(name[c]).mtype # ERR]
    /\ UNCHANGED <<name, serverVars, commands>>

CommandList(c) == connected[c] /\ Command(c, LIST, "await_list")

AwaitList(c) ==
    /\ pc[c] = "await_list" /\ mq_receive(name[c])
    /\ pc' = [pc EXCEPT ![c] = "command"]
    /\ UNCHANGED <<name, serverVars, connected, commands>>

\* 2ALL, and 2ONE: client.c sends both with the priority of the former, and the
\* recipient it fills in is overwritten by the server.
CommandToAll(c) == connected[c] /\ Command(c, TO_ALL, "command")

ClientStep(c) == AwaitInit(c) \/ AwaitList(c)
UserCommand(c) == CommandInit(c) \/ CommandList(c) \/ CommandToAll(c)

Next == ServerStep \/ \E c \in Client : ClientStep(c) \/ UserCommand(c)

Spec == Init /\ [][Next]_vars

-----------------------------------------------------------------------------
(* Properties *)

\* The type of every variable.
TypeOK ==
    /\ name \in [Client -> Name]
    /\ queues \in [Queue -> Seq(Message)]
    /\ \A q \in Queue : Len(queues[q]) <= QUEUE_SIZE
    /\ client_list \in [Slot -> {None, SERVER_QUEUE}]
    /\ client_que_desc \in [Slot -> Name \cup {None}]
    /\ srv \in [at : {"receive", "answer", "to_all"}, asker : Queue \cup {None},
                to : Queue \cup {None}, msg : Message, i : Slot]
    /\ pc \in [Client -> {"command", "await_init", "await_list"}]
    /\ connected \in [Client -> BOOLEAN]
    /\ commands \in 0 .. MaxCommands

\* The slots that have a queue open.
SlotsOf(q) == {s \in Slot : client_que_desc[s] = q}

\* A client that thinks it is connected has a slot, although it takes any
\* message for the answer to INIT (client.c 50-52): a client that was refused
\* never finds anything but the refusal, unless it shares its name.
ConnectedIsListed ==
    \A c \in Client : connected[c] => SlotsOf(name[c]) # {}

\* A client that waits for the answer to INIT, under a name of its own, has its
\* request under way, is being answered, or has something to read (client.c
\* 49-50): whatever happens to the others, its wait is for the server only.
InitUnderWay ==
    \A c \in Client :
        pc[c] = "await_init" /\ (\A d \in Client \ {c} : name[d] # name[c])
        => \/ \E i \in OfType(queues[SERVER_QUEUE], INIT) :
                  queues[SERVER_QUEUE][i].sender_name = name[c]
           \/ srv.at = "answer" /\ srv.to = name[c]
           \/ queues[name[c]] # <<>>

\* The lines of chat that wait in a queue.
Lines(q) == {queues[q][k] : k \in OfType(queues[q], TO_ALL)}

InOrder(q) == \A j, k \in OfType(queues[q], TO_ALL) :
                 j < k => queues[q][j].line < queues[q][k].line

\* A queue that is listed once.
Alone(s) == client_que_desc[s] # None /\ SlotsOf(client_que_desc[s]) = {s}

\* Everybody reads the same conversation, in the order in which it was typed: of
\* queues listed once, each holds its lines in order, and a line that waits in
\* one but no more in another is older than all that wait there; except for the
\* line the server is handing out, which the first slots have got already
\* (server.c 151-158).
SameConversation ==
    \A s, r \in Slot :
        LET p == client_que_desc[s]
            q == client_que_desc[r]
        IN  /\ Alone(s) /\ Alone(r)
            /\ srv.at = "to_all" => (s < srv.i <=> r < srv.i)
            => /\ InOrder(p)
               /\ \A m \in Lines(p) \ Lines(q) : \A l \in Lines(q) : m.line < l.line
=============================================================================
