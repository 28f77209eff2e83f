------------------------------ MODULE ChatSysV ------------------------------
(****************************************************************************)
(* cw06/zad1: a chat server and its clients over System V message queues.   *)
(* The server takes from its queue the first message of the lowest type, so *)
(* STOP overtakes LIST, LIST overtakes 2ALL, and so on; a client takes the  *)
(* first message, or the first of the type it waits for.  msgsnd blocks on  *)
(* a full queue, and fails on one that was removed.                         *)
(*                                                                          *)
(* A text is known by who wrote it and which of its lines it is.  Each      *)
(* client runs once, in a home of its own: the queues have different keys,  *)
(* and a queue is named here by its client.                                 *)
(****************************************************************************)
EXTENDS Integers, Sequences, FiniteSets, SequencesExt, FiniteSetsExt

CONSTANTS
  Clients,
  QARRAY_SIZE,     \* the clients the server has room for
  QueueMax,        \* the messages one queue has room for
  NoQueue,         \* the 0 of a free entry of clients[]
  BadQueue,        \* the -1 that msgget may leave there
  MaxLines,        \* how many lines the users enter altogether at most
  MaxAccidents     \* how many kinds of accidents happen at most

Slots == 0 .. QARRAY_SIZE - 1

ASSUME ChatAssumption ==
  /\ IsFiniteSet(Clients)
  /\ QARRAY_SIZE \in Nat \ {0}
  /\ QueueMax \in Nat \ {0}
  /\ NoQueue # BadQueue /\ {NoQueue, BadQueue} \cap Clients = {}
  /\ MaxLines \in Nat /\ MaxAccidents \in Nat

VARIABLES
  sq,          \* the server's queue: for each type the messages in order
  sq_exists,
  clients,     \* the server's array of queues
  server,      \* where the server is
  feedback,    \* the message the server is sending,
  to,          \* ... and the slots it still has to send it to
  cq,          \* each client's queue
  cq_exists,
  client,      \* where each client is
  client_id,
  outbox,      \* the message a client is sending to the server
  lines,       \* how many lines each user has entered
  shown,       \* history: for each client, the latest line it has shown of each other
  accidents    \* history: the kinds of accidents that have happened

serverVars == <<clients, server, feedback, to>>
clientVars == <<client, client_id, outbox, lines, shown, accidents>>
vars == <<sq, sq_exists, serverVars, cq, cq_exists, clientVars>>

\* STOP 1, LIST 2, TOALL 3, TOONE 4, INIT 5: the types lower than each.
Types == {"STOP", "LIST", "TOALL", "TOONE", "INIT"}

\* Not the code: INIT is 2.
LowerInitSecond ==
  [STOP |-> {}, INIT |-> {"STOP"}, LIST |-> {"STOP", "INIT"},
   TOALL |-> {"STOP", "INIT", "LIST"}, TOONE |-> Types \ {"TOONE"}]
\* Not the code: TOONE is 3 and TOALL 4.
LowerToone ==
  [STOP |-> {}, LIST |-> {"STOP"}, TOONE |-> {"STOP", "LIST"},
   TOALL |-> {"STOP", "LIST", "TOONE"}, INIT |-> Types \ {"INIT"}]

Lower ==
  [STOP |-> {}, LIST |-> {"STOP"}, TOALL |-> {"STOP", "LIST"},
   TOONE |-> {"STOP", "LIST", "TOALL"}, INIT |-> Types \ {"INIT"}]

\* by, kind and line stand for the content: who wrote it, with which command,
\* and which of its lines it is.  For INIT it is the key of by's queue.
Message(type, sender, receiver, by, line) ==
  [type |-> type, sender_id |-> sender, receiver_id |-> receiver,
   by |-> by, kind |-> type, line |-> line]
\* The server's own messages: an id, or nothing that anyone looks at.
Notice(type, receiver) == Message(type, 0, receiver, NoQueue, 0)
\* What a variable that is out of scope holds.
Nothing == Notice("STOP", 0)

Registered == {i \in Slots : clients[i] # NoQueue}
Pending == UNION {ToSet(sq[t]) : t \in Types}
SqLength == Len(sq["STOP"]) + Len(sq["LIST"]) + Len(sq["TOALL"])
              + Len(sq["TOONE"]) + Len(sq["INIT"])

Init ==
  /\ sq = [t \in Types |-> <<>>]
  /\ sq_exists = TRUE
  /\ clients = [i \in Slots |-> NoQueue]
  /\ server = "receiving"
  /\ feedback = Nothing
  /\ to = {}
  /\ cq = [c \in Clients |-> <<>>]
  /\ cq_exists = [c \in Clients |-> FALSE]
  /\ client = [c \in Clients |-> "starting"]
  /\ client_id = [c \in Clients |-> 0]
  /\ outbox = [c \in Clients |-> Nothing]
  /\ lines = [c \in Clients |-> 0]
  /\ shown = [c \in Clients |-> [d \in Clients |-> 0]]
  /\ accidents = {}

-----------------------------------------------------------------------------
(* The server's handlers; m is the message just received. *)

\* The handler goes on to send the message "m" to the slots "receivers".
Sends(m, receivers) ==
  /\ to' = receivers
  /\ IF receivers = {}
       THEN server' = "receiving" /\ feedback' = Nothing
       ELSE server' = "sending" /\ feedback' = m
Returns == UNCHANGED <<server, feedback, to>>

\* Not the code: the loop of close_on_exit begins with 1.
ExitsFromOne(table) ==
  /\ server' = "closing"
  /\ feedback' = Notice("STOP", 0)
  /\ to' = {i \in Slots \ {0} : table[i] # NoQueue}

\* ERROR(1, ...) or SIGINT: close_on_exit begins, with the array "table".
Exits(table) ==
  /\ server' = "closing"
  /\ feedback' = Notice("STOP", 0)
  /\ to' = {i \in Slots : table[i] # NoQueue}

\* Not the code: taken slots are not skipped.
AnySlot == Slots

\* Not the code: the loop goes one slot too far.
FreePastEnd ==
  {i \in 0 .. QARRAY_SIZE : i = QARRAY_SIZE \/ clients[i] = NoQueue}

find_free == {i \in Slots : clients[i] = NoQueue}

handle_init(m) ==
  \/ /\ find_free = {}
     /\ Returns
     /\ UNCHANGED clients
  \/ /\ find_free # {}
     /\ LET index == Min(find_free) IN
          \/ /\ cq_exists[m.by]
             /\ clients' = [clients EXCEPT ![index] = m.by]
             /\ Sends(Notice("INIT", index), {index})
          \/ /\ ~cq_exists[m.by]
             /\ clients' = [clients EXCEPT ![index] = BadQueue]
             /\ Exits(clients')

handle_stop(m) ==
  \/ /\ clients[m.sender_id] # NoQueue
     /\ clients' = [clients EXCEPT ![m.sender_id] = NoQueue]
     /\ Returns
  \/ /\ clients[m.sender_id] = NoQueue
     /\ Exits(clients)
     /\ UNCHANGED clients

\* Not the code: the list goes to the slot in receiver_id.
handle_list_receiver(m) ==
  /\ Sends(Notice("LIST", 0), {m.receiver_id})
  /\ UNCHANGED clients

\* At most 32 short numbers: the list is never too long.
handle_list(m) ==
  /\ Sends(Notice("LIST", 0), {m.sender_id})
  /\ UNCHANGED clients

handle_toall(m) ==
  /\ Sends(m, Registered)
  /\ UNCHANGED clients

\* The feedback has type TOALL here as well (line 103).
handle_toone(m) ==
  /\ \/ clients[m.receiver_id] = NoQueue /\ Returns
     \/ clients[m.receiver_id] # NoQueue
          /\ Sends([m EXCEPT !.type = "TOALL"], {m.receiver_id})
  /\ UNCHANGED clients

\* msgrcv(sq_desc, ..., -6, 0), and the handler of what was received.
Receive ==
  /\ server = "receiving"
  /\ \E t \in Types :
       /\ sq[t] # <<>> /\ \A u \in Lower[t] : sq[u] = <<>>
       /\ sq' = [sq EXCEPT ![t] = Tail(@)]
       /\ LET m == Head(sq[t]) IN
            \/ t = "STOP" /\ handle_stop(m)
            \/ t = "LIST" /\ handle_list(m)
            \/ t = "TOALL" /\ handle_toall(m)
            \/ t = "TOONE" /\ handle_toone(m)
            \/ t = "INIT" /\ handle_init(m)
  /\ UNCHANGED <<sq_exists, cq, cq_exists, clientVars>>

-----------------------------------------------------------------------------
(* The server's msgsnd, and its end. *)

\* The queue of slot i, if there is one to send to.  The descriptors 0 and -1
\* are taken to belong to no queue.
Reachable(i) == clients[i] \in Clients /\ cq_exists[clients[i]]

\* One msgsnd, in the order of the slots, for a handler or for close_on_exit.
SendOne ==
  /\ to # {}
  /\ LET i == Min(to) IN
       /\ Reachable(i)
       /\ Len(cq[clients[i]]) < QueueMax
       /\ cq' = [cq EXCEPT ![clients[i]] = Append(@, feedback)]
       /\ to' = to \ {i}
  /\ IF server = "sending" /\ to' = {}
       THEN server' = "receiving" /\ feedback' = Nothing
       ELSE UNCHANGED <<server, feedback>>
  /\ UNCHANGED <<sq, sq_exists, clients, cq_exists, clientVars>>

\* msgsnd fails: the server exits; or, already on its way out, leaves the rest
\* undone and its own queue behind.
SendFails ==
  /\ to # {}
  /\ ~ Reachable(Min(to))
  /\ \/ server = "sending" /\ Exits(clients)
     \/ server = "closing" /\ server' = "down" /\ to' = {} /\ UNCHANGED feedback
  /\ UNCHANGED <<sq, sq_exists, clients, cq, cq_exists, clientVars>>

sigint_handler ==
  /\ server \in {"receiving", "sending"}
  /\ Exits(clients)
  /\ UNCHANGED <<sq, sq_exists, clients, cq, cq_exists, clientVars>>

\* msgctl(sq_desc, IPC_RMID, NULL)
RemoveServerQueue ==
  /\ server = "closing" /\ to = {}
  /\ server' = "down"
  /\ sq_exists' = FALSE
  /\ sq' = [t \in Types |-> <<>>]
  /\ UNCHANGED <<clients, feedback, to, cq, cq_exists, clientVars>>

-----------------------------------------------------------------------------
(* The clients. *)

ClientGoes(c, at) == client' = [client EXCEPT ![c] = at]

\* Client c has prepared message m and calls msgsnd.
Submits(c, m) ==
  /\ ClientGoes(c, "submitting")
  /\ outbox' = [outbox EXCEPT ![c] = m]

\* Not the code: exit without a message.
exit_silently(c) == ClientGoes(c, "exiting") /\ UNCHANGED outbox

send_stop(c) == Submits(c, Message("STOP", client_id[c], 0, c, 0))

\* initialize, up to its msgsnd: it takes a server to start.
Start(c) ==
  /\ client[c] = "starting"
  /\ sq_exists
  /\ cq_exists' = [cq_exists EXCEPT ![c] = TRUE]
  /\ Submits(c, Message("INIT", 0, 0, c, 0))
  /\ UNCHANGED <<sq, sq_exists, serverVars, cq, client_id, lines, shown, accidents>>

HasRoom == SqLength < QueueMax

\* msgsnd(sq_desc, ...), and what the client does next.
Msgsnd(c) ==
  /\ client[c] = "submitting"
  /\ sq_exists /\ HasRoom
  /\ sq' = [sq EXCEPT ![outbox[c].type] = Append(@, outbox[c])]
  /\ ClientGoes(c, CASE outbox[c].type = "INIT" -> "initializing"
                     [] outbox[c].type = "LIST" -> "listing"
                     [] outbox[c].type = "STOP" -> "exiting"
                     [] OTHER -> "looping")
  /\ outbox' = [outbox EXCEPT ![c] = Nothing]
  /\ UNCHANGED <<sq_exists, serverVars, cq, cq_exists, client_id, lines, shown, accidents>>

\* The server's queue is gone: ERROR(1, ...).
MsgsndFails(c) ==
  /\ client[c] = "submitting"
  /\ ~sq_exists
  /\ ClientGoes(c, "exiting")
  /\ outbox' = [outbox EXCEPT ![c] = Nothing]
  /\ UNCHANGED <<sq, sq_exists, serverVars, cq, cq_exists, client_id, lines, shown,
                 accidents>>

\* msgrcv(cq_desc, ..., type, 0): the first message of that type is m.
Takes(c, type, m) ==
  \E i \in DOMAIN cq[c] :
    /\ cq[c][i] = m
    /\ m.type = type /\ \A j \in 1 .. i - 1 : cq[c][j].type # type
    /\ cq' = [cq EXCEPT ![c] = RemoveAt(@, i)]

\* The end of initialize.
Initialized(c) ==
  /\ client[c] = "initializing"
  /\ \E m \in ToSet(cq[c]) :
       /\ Takes(c, "INIT", m)
       /\ client_id' = [client_id EXCEPT ![c] = m.receiver_id]
  /\ ClientGoes(c, "looping")
  /\ UNCHANGED <<sq, sq_exists, serverVars, cq_exists, outbox, lines, shown, accidents>>

\* The end of send_list.
Listed(c) ==
  /\ client[c] = "listing"
  /\ \E m \in ToSet(cq[c]) : Takes(c, "LIST", m)
  /\ ClientGoes(c, "looping")
  /\ UNCHANGED <<sq, sq_exists, serverVars, cq_exists, client_id, outbox, lines, shown,
                 accidents>>

\* The loop of main finds a message.  2ONE lines come with type TOALL too.  A list
\* that was meant for somebody else is thrown away.
Read(c) ==
  /\ client[c] = "looping"
  /\ cq[c] # <<>>
  /\ cq' = [cq EXCEPT ![c] = Tail(@)]
  /\ LET m == Head(cq[c]) IN
       /\ IF m.type = "STOP" THEN send_stop(c) ELSE UNCHANGED <<client, outbox>>
       /\ IF m.type = "TOALL" /\ m.line > shown[c][m.by]
            THEN shown' = [shown EXCEPT ![c][m.by] = m.line]
            ELSE UNCHANGED shown
  /\ UNCHANGED <<sq, sq_exists, serverVars, cq_exists, client_id, lines, accidents>>

\* The loop of main finds its queue empty and a line entered: a command (a 2ONE to
\* a slot there is), or something that is not one and changes nothing.
Idle(c) == client[c] = "looping" /\ cq[c] = <<>>

Command(c) ==
  /\ Idle(c)
  /\ FoldFunction(+, 0, lines) < MaxLines
  /\ lines' = [lines EXCEPT ![c] = @ + 1]
  /\ \/ \E type \in {"LIST", "TOALL"} :
          Submits(c, Message(type, client_id[c], 0, c, lines'[c]))
     \/ \E i \in Slots : Submits(c, Message("TOONE", client_id[c], i, c, lines'[c]))
  /\ UNCHANGED <<sq, sq_exists, serverVars, cq, cq_exists, client_id, shown, accidents>>

\* The command STOP, or SIGINT while the client is in its loop: also while it
\* waits in msgsnd, which then sends nothing.
Stop(c) ==
  /\ \/ client[c] = "looping"
     \/ client[c] = "submitting" /\ outbox[c].kind \in {"LIST", "TOALL", "TOONE"}
  /\ send_stop(c)
  /\ UNCHANGED <<sq, sq_exists, serverVars, cq, cq_exists, client_id, lines, shown, accidents>>

\* close_on_exit
RemoveQueue(c) ==
  /\ client[c] = "exiting"
  /\ ClientGoes(c, "gone")
  /\ cq_exists' = [cq_exists EXCEPT ![c] = FALSE]
  /\ cq' = [cq EXCEPT ![c] = <<>>]
  /\ UNCHANGED <<sq, sq_exists, serverVars, client_id, outbox, lines, shown, accidents>>

-----------------------------------------------------------------------------
(* Accidents: what the code handles with its last resort, or not at all. *)

Happens(kind) ==
  /\ Cardinality(accidents \union {kind}) <= MaxAccidents
  /\ accidents' = accidents \union {kind}

\* SIGINT before the client has an id (client_id is still 0), or while it waits
\* for a list.
SigintEarly(c) ==
  /\ \/ client[c] = "initializing"
     \/ client[c] = "submitting" /\ outbox[c].kind = "INIT"
  /\ Happens("sigint_initialize")
  /\ send_stop(c)
  /\ UNCHANGED <<sq, sq_exists, serverVars, cq, cq_exists, client_id, lines, shown>>

SigintListing(c) ==
  /\ client[c] = "listing"
  /\ Happens("sigint_list")
  /\ send_stop(c)
  /\ UNCHANGED <<sq, sq_exists, serverVars, cq, cq_exists, client_id, lines, shown>>

\* fgets returns NULL: ERROR(1, ...), and the server is not told.
EndOfInput(c) ==
  /\ Idle(c)
  /\ Happens("eof")
  /\ ClientGoes(c, "exiting")
  /\ UNCHANGED <<sq, sq_exists, serverVars, cq, cq_exists, client_id, outbox, lines, shown>>

\* On a blank line (or 2ONE alone) strtok_r returns NULL and the client crashes: its
\* queue stays.
BlankLine(c) ==
  /\ Idle(c)
  /\ Happens("blank")
  /\ ClientGoes(c, "gone")
  /\ UNCHANGED <<sq, sq_exists, serverVars, cq, cq_exists, client_id, outbox, lines, shown>>

-----------------------------------------------------------------------------

ServerStep == Receive \/ SendOne \/ SendFails \/ RemoveServerQueue

\* What a client does without its user.
ClientStep(c) ==
  \/ Start(c) \/ Initialized(c) \/ Listed(c) \/ Read(c)
  \/ Msgsnd(c) \/ MsgsndFails(c) \/ RemoveQueue(c)

Accident(c) == SigintEarly(c) \/ SigintListing(c) \/ EndOfInput(c) \/ BlankLine(c)

Next ==
  \/ ServerStep
  \/ sigint_handler
  \/ \E c \in Clients : ClientStep(c) \/ Command(c) \/ Stop(c) \/ Accident(c)

Spec == Init /\ [][Next]_vars

\* The processes run; users and signals come as they like.
Fairness ==
  /\ WF_vars(ServerStep)
  /\ \A c \in Clients : WF_vars(ClientStep(c))

FairSpec == Spec /\ Fairness

-----------------------------------------------------------------------------
(* Properties. *)

\* Type invariant, with the limits of the queues.
TypeOK ==
  /\ \A t \in Types : \A m \in ToSet(sq[t]) : m.type = t
  /\ SqLength <= QueueMax
  /\ clients \in [Slots -> Clients \union {NoQueue, BadQueue}]
  /\ server \in {"receiving", "sending", "closing", "down"}
  /\ to \subseteq Slots
  /\ \A c \in Clients : Len(cq[c]) <= QueueMax /\ client_id[c] \in Slots
  /\ \A c \in Clients :
       client[c] \in {"starting", "initializing", "looping", "listing", "submitting",
                      "exiting", "gone"}

\* Clients that have an id, and whose STOP the server has not seen.
Announced(c) == \E m \in Pending : m.type = "STOP" /\ m.by = c
Active(c) ==
  \/ client[c] \in {"looping", "listing"} \/ Announced(c)
  \/ client[c] = "submitting" /\ outbox[c].kind # "INIT"

\* Each client that is active has the slot of its id, and no queue is in two
\* slots: unless some client was interrupted before it had an id, which makes it
\* stop client 0.
TableRight == "sigint_initialize" \notin accidents =>
  /\ \A c \in Clients : Active(c) => clients[client_id[c]] = c
  /\ \A i, j \in Slots : clients[i] = clients[j] /\ clients[i] # NoQueue => i = j

\* A message in the server's queue never names as its sender the slot of somebody
\* else: slots are given away by INIT, which everything else overtakes.
SenderRight == "sigint_initialize" \notin accidents =>
  \A m \in Pending : m.type # "INIT" => clients[m.sender_id] \in {m.by, NoQueue}

\* A queue that is gone and still registered has been announced by a STOP, the
\* first message the server will take: it can only be found missing by a handler
\* that had begun before.  (After the server's end there is nobody to tell.)
LeaversAnnounced ==
  accidents \subseteq {"sigint_list", "blank"} /\ sq_exists =>
    \A i \in Slots : clients[i] # NoQueue /\ ~ Reachable(i) => Announced(clients[i])

\* Nobody is shown a 2ALL line after a later line of the same user.  (A 2ONE line
\* may be late: a 2ALL overtakes it.)
OrderKept == \A c \in Clients : \A j \in DOMAIN cq[c] :
  cq[c][j].kind = "TOALL" =>
    /\ cq[c][j].line > shown[c][cq[c][j].by]
    /\ \A i \in 1 .. j - 1 : cq[c][i].by = cq[c][j].by => cq[c][i].line < cq[c][j].line

\* A user that asks for the list gets it, if the server goes on, and nobody's
\* queue is full: a server that waits for room in the queue of a client that
\* waits for the list, or for room in the server's, waits for ever.  And if no
\* client was interrupted before it had an id: the STOP of such a one frees slot
\* 0, the next client gets that slot, and with it the list of the client before.
ListComes ==
  []( /\ server \in {"receiving", "sending"}
      /\ accidents \cap {"blank", "sigint_initialize"} = {}
      /\ \A c \in Clients : Len(cq[c]) < QueueMax) =>
    \A c \in Clients : client[c] = "listing" ~> client[c] # "listing"

\* When the server has taken its leave, whoever is in the loop ends as well: unless
\* a client that was interrupted before it had an id has stopped it as client 0.
StopReachesAll ==
  \A c \in Clients :
    (server = "down" /\ ~sq_exists /\ client[c] = "looping"
       /\ "sigint_initialize" \notin accidents) ~> client[c] = "gone"

\* "Received stop message from client that does not exist" (server.c:61): that
\* is to be an error, so what the clients send must never lead to it.
StopIsKnown == \A m \in Pending : m.type = "STOP" => clients[m.sender_id] # NoQueue
=============================================================================
