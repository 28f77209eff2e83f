------------------------------ MODULE ChatPosix ------------------------------
(****************************************************************************)
(* cw06/zad2: the chat over POSIX message queues.  As in ChatSysV, but      *)
(*   - every queue is sorted by priority, and whoever receives takes the    *)
(*     first message of the highest priority, whatever it waits for;        *)
(*   - a queue that was unlinked lives on while somebody has it open, so    *)
(*     sending never fails, it only blocks on a full queue.                 *)
(****************************************************************************)
EXTENDS Integers, Sequences, FiniteSets, SequencesExt, FiniteSetsExt

CONSTANTS
  Clients,
  QARRAY_SIZE,     \* the clients the server has room for
  QueueMax,        \* mq_maxmsg
  NoQueue,         \* the -1 of a free entry of clients[]
  MaxLines,        \* how many lines the users enter at most
  MaxAccidents     \* how many kinds of accidents happen at most

Slots == 0 .. QARRAY_SIZE - 1
\* What a byte can be, taken for an id: -1 stands for all that is no slot.
Outside == -1
Ids == Slots \union {Outside}

ASSUME ChatAssumption ==
  /\ IsFiniteSet(Clients) /\ NoQueue \notin Clients
  /\ QARRAY_SIZE \in Nat \ {0} /\ QueueMax \in Nat \ {0}
  /\ MaxLines \in Nat /\ MaxAccidents \in Nat

VARIABLES
  sq,          \* the server's queue: for each priority the messages in order
  sq_named,    \* whether SERVER_PATH names it
  clients,     \* the server's array of queues
  server,      \* where the server is
  feedback,    \* the message the server is sending,
  to,          \* ... and the slots it still has to send it to
  cq,          \* each client's queue
  cq_named,
  client,      \* where each client is
  client_id,
  outbox,      \* the message a client is sending to the server
  lines,       \* how many lines the users have entered
  accidents    \* history: the kinds of accidents that have happened

serverVars == <<clients, server, feedback, to>>
vars == <<sq, sq_named, serverVars, cq, cq_named, client, client_id, outbox, lines,
          accidents>>

\* Not the code: INIT is next to STOP.
InitNextToStop == [STOP |-> 5, INIT |-> 4, LIST |-> 3, TOALL |-> 2, TOONE |-> 1]

Priority == [STOP |-> 5, LIST |-> 4, TOALL |-> 3, TOONE |-> 2, INIT |-> 1]
Types == DOMAIN Priority

Empty == [t \in Types |-> <<>>]
Messages(q) == UNION {ToSet(q[t]) : t \in Types}
Length(q) == Len(q["STOP"]) + Len(q["LIST"]) + Len(q["TOALL"]) + Len(q["TOONE"])
               + Len(q["INIT"])

\* The type, and so the priority, of the message mq_receive takes from q.
Foremost(q, t) == q[t] # <<>> /\ \A u \in Types : Priority[u] > Priority[t] => q[u] = <<>>
Sent(q, m) == [q EXCEPT ![m.type] = Append(@, m)]

\* by stands for the text: who wrote it; for INIT it is the name of the queue.
Message(type, sender, receiver, by) ==
  [type |-> type, sender_id |-> sender, receiver_id |-> receiver, by |-> by]
Nothing == Message("STOP", 0, 0, NoQueue)

Init ==
  /\ sq = Empty /\ sq_named = TRUE
  /\ clients = [i \in Slots |-> NoQueue]
  /\ server = "receiving" /\ feedback = Nothing /\ to = {}
  /\ cq = [c \in Clients |-> Empty] /\ cq_named = [c \in Clients |-> FALSE]
  /\ client = [c \in Clients |-> "starting"]
  /\ client_id = [c \in Clients |-> 0]
  /\ outbox = [c \in Clients |-> Nothing]
  /\ lines = 0
  /\ accidents = {}

-----------------------------------------------------------------------------
(* The server. *)

Registered == {i \in Slots : clients[i] # NoQueue}

Sends(m, receivers) ==
  /\ to' = receivers
  /\ IF receivers = {}
       THEN server' = "receiving" /\ feedback' = Nothing
       ELSE server' = "sending" /\ feedback' = m
Returns == UNCHANGED <<server, feedback, to>>

\* Not the code: the loop of close_on_exit begins with 1.
ExitsFromOne == server' = "closing" /\ feedback' = Nothing /\ to' = Registered \ {0}

\* ERROR(1, ...) or SIGINT: close_on_exit begins.
Exits == server' = "closing" /\ feedback' = Nothing /\ to' = Registered

\* The same when the server has closed its own queue: mq_close is going to fail.
ExitsWithout == server' = "closing_without" /\ feedback' = Nothing /\ to' = Registered

\* What is at clients[id] is no descriptor; outside the array it may not even be
\* readable, or not writable.
NoDescriptor(id) ==
  \/ Exits
  \/ id = Outside /\ server' = "down" /\ feedback' = Nothing /\ to' = {}

find_free == {i \in Slots : clients[i] = NoQueue}

handle_init(m) ==
  \/ find_free = {} /\ Returns /\ UNCHANGED clients
  \/ find_free # {} /\ ~cq_named[m.by] /\ Exits /\ UNCHANGED clients
  \/ /\ find_free # {} /\ cq_named[m.by]
     /\ LET index == Min(find_free) IN
          /\ clients' = [clients EXCEPT ![index] = m.by]
          /\ Sends(Message("INIT", index, 0, NoQueue), {index})

\* Outside the array there may be a descriptor that is in no array, or that of the
\* server's own queue: the one or the other is closed.
handle_stop(m) ==
  \/ /\ m.sender_id \in Registered
     /\ clients' = [clients EXCEPT ![m.sender_id] = NoQueue]
     /\ Returns
  \/ /\ m.sender_id \notin Registered
     /\ NoDescriptor(m.sender_id)
     /\ UNCHANGED clients
  \/ /\ m.sender_id = Outside
     /\ Returns \/ ExitsWithout
     /\ UNCHANGED clients

\* Outside the array there may be any number, also one that is the descriptor of
\* some client's queue.  The message begins with a digit.
handle_list(m) ==
  /\ \/ \E i \in Registered :
          /\ m.sender_id \in {i, Outside}
          /\ Sends(Message("LIST", Outside, 0, NoQueue), {i})
     \/ m.sender_id \notin Registered /\ NoDescriptor(m.sender_id)
  /\ UNCHANGED clients

handle_toall(m) == Sends(m, Registered) /\ UNCHANGED clients

\* Not the code: whether there is a receiver is not looked at.
toone_anyone(m) == Sends(m, {m.receiver_id}) /\ UNCHANGED clients

handle_toone(m) ==
  /\ Sends(m, {m.receiver_id} \cap Registered)
  /\ UNCHANGED clients

Receive ==
  /\ server = "receiving"
  /\ \E t \in Types :
       /\ Foremost(sq, t)
       /\ sq' = [sq EXCEPT ![t] = Tail(@)]
       /\ LET m == Head(sq[t]) IN
            \/ t = "STOP" /\ handle_stop(m)
            \/ t = "LIST" /\ handle_list(m)
            \/ t = "TOALL" /\ handle_toall(m)
            \/ t = "TOONE" /\ handle_toone(m)
            \/ t = "INIT" /\ handle_init(m)
  /\ UNCHANGED <<sq_named, cq, cq_named, client, client_id, outbox, lines, accidents>>

\* One mq_send of a handler or of close_on_exit, in the order of the slots.
SendOne ==
  /\ to # {}
  /\ LET c == clients[Min(to)] IN
       /\ Length(cq[c]) < QueueMax
       /\ cq' = [cq EXCEPT ![c] = Sent(@, feedback)]
       /\ to' = to \ {Min(to)}
  /\ IF server = "sending" /\ to' = {}
       THEN server' = "receiving" /\ feedback' = Nothing
       ELSE UNCHANGED <<server, feedback>>
  /\ UNCHANGED <<sq, sq_named, clients, cq_named, client, client_id, outbox, lines,
                 accidents>>

sigint_handler ==
  /\ server \in {"receiving", "sending"}
  /\ Exits
  /\ UNCHANGED <<sq, sq_named, clients, cq, cq_named, client, client_id, outbox, lines,
                 accidents>>

\* The end of close_on_exit.  The clients have the queue open still.
UnlinkServerQueue ==
  /\ server \in {"closing", "closing_without"} /\ to = {}
  /\ server' = "down"
  /\ sq_named' = (sq_named /\ server = "closing_without")
  /\ UNCHANGED <<sq, clients, feedback, to, cq, cq_named, client, client_id, outbox, lines,
                 accidents>>

-----------------------------------------------------------------------------
(* The clients. *)

ClientGoes(c, at) == client' = [client EXCEPT ![c] = at]
Submits(c, m) == ClientGoes(c, "submitting") /\ outbox' = [outbox EXCEPT ![c] = m]

send_stop(c) == Submits(c, Message("STOP", client_id[c], 0, c))

\* What a user or a signal brings about, and what comes about by itself.
Happens(kind) ==
  /\ Cardinality((accidents \union {kind}) \ {"misread"}) <= MaxAccidents
  /\ accidents' = accidents \union {kind}
Misreads == accidents' = accidents \union {"misread"}

Start(c) ==
  /\ client[c] = "starting" /\ sq_named
  /\ cq_named' = [cq_named EXCEPT ![c] = TRUE]
  /\ Submits(c, Message("INIT", 0, 0, c))
  /\ UNCHANGED <<sq, sq_named, serverVars, cq, client_id, lines, accidents>>

\* mq_send(sq_desc, ...), and what the client does next.
MqSend(c) ==
  /\ client[c] = "submitting"
  /\ Length(sq) < QueueMax
  /\ sq' = Sent(sq, outbox[c])
  /\ outbox' = [outbox EXCEPT ![c] = Nothing]
  /\ ClientGoes(c, CASE outbox[c].type = "INIT" -> "initializing"
                     [] outbox[c].type = "LIST" -> "listing"
                     [] outbox[c].type = "STOP" -> "exiting"
                     [] OTHER -> "looping")
  /\ UNCHANGED <<sq_named, serverVars, cq, cq_named, client_id, lines, accidents>>

\* mq_receive: m is the message it takes.
Takes(c, m) ==
  /\ Foremost(cq[c], m.type) /\ m = Head(cq[c][m.type])
  /\ cq' = [cq EXCEPT ![c][m.type] = Tail(@)]

\* The end of initialize.  Whatever comes first is taken for the answer, and its
\* second byte for the id: in a line it is the sender's id, in a list a digit, and
\* in the server's STOP it was never set.
Initialized(c) ==
  /\ client[c] = "initializing"
  /\ \E m \in Messages(cq[c]) :
       /\ Takes(c, m)
       /\ \E id \in Ids :
            /\ m.type # "STOP" => id = m.sender_id
            /\ client_id' = [client_id EXCEPT ![c] = id]
       /\ \/ m.type = "INIT" /\ UNCHANGED accidents
          \/ m.type # "INIT" /\ Misreads
  /\ ClientGoes(c, "looping")
  /\ UNCHANGED <<sq, sq_named, serverVars, cq_named, outbox, lines>>

\* The end of send_list.
Listed(c) ==
  /\ client[c] = "listing"
  /\ \E m \in Messages(cq[c]) :
       /\ Takes(c, m)
       /\ \/ m.type = "LIST" /\ UNCHANGED accidents
          \/ m.type # "LIST" /\ Misreads
  /\ ClientGoes(c, "looping")
  /\ UNCHANGED <<sq, sq_named, serverVars, cq_named, client_id, outbox, lines>>

\* The loop of main finds a message.
Read(c) ==
  /\ client[c] = "looping"
  /\ \E m \in Messages(cq[c]) :
       /\ Takes(c, m)
       /\ \/ m.type = "STOP" /\ send_stop(c)
          \/ m.type # "STOP" /\ UNCHANGED <<client, outbox>>
  /\ UNCHANGED <<sq, sq_named, serverVars, cq_named, client_id, lines, accidents>>

\* The loop of main finds no message, and a line entered.
Idle(c) == client[c] = "looping" /\ cq[c] = Empty

\* A command (a 2ONE to a slot there is), or something that is not one and changes
\* nothing.
Command(c) ==
  /\ Idle(c)
  /\ lines < MaxLines /\ lines' = lines + 1
  /\ \/ \E type \in {"LIST", "TOALL"} :
          Submits(c, Message(type, client_id[c], 0, c))
     \/ \E i \in Slots : Submits(c, Message("TOONE", client_id[c], i, c))
  /\ UNCHANGED <<sq, sq_named, serverVars, cq, cq_named, client_id, accidents>>

\* The command STOP, or SIGINT once the client has its id.
Stop(c) ==
  /\ \/ client[c] \in {"looping", "listing"}
     \/ client[c] = "submitting" /\ outbox[c].type \in {"LIST", "TOALL", "TOONE"}
  /\ send_stop(c)
  /\ UNCHANGED <<sq, sq_named, serverVars, cq, cq_named, client_id, lines, accidents>>

\* SIGINT before the client has its id: client_id is still 0.
SigintEarly(c) ==
  /\ \/ client[c] = "initializing"
     \/ client[c] = "submitting" /\ outbox[c].type = "INIT"
  /\ Happens("sigint_initialize")
  /\ send_stop(c)
  /\ UNCHANGED <<sq, sq_named, serverVars, cq, cq_named, client_id, lines>>

\* fgets returns NULL: ERROR(1, ...), and the server is not told.  (A blank line,
\* which crashes the client, differs from this only in the name that stays.)
EndOfInput(c) ==
  /\ Idle(c)
  /\ Happens("eof")
  /\ ClientGoes(c, "exiting")
  /\ UNCHANGED <<sq, sq_named, serverVars, cq, cq_named, client_id, outbox, lines>>

\* close_on_exit
UnlinkQueue(c) ==
  /\ client[c] = "exiting"
  /\ ClientGoes(c, "gone")
  /\ cq_named' = [cq_named EXCEPT ![c] = FALSE]
  /\ UNCHANGED <<sq, sq_named, serverVars, cq, client_id, outbox, lines, accidents>>

-----------------------------------------------------------------------------

ServerStep == Receive \/ SendOne \/ UnlinkServerQueue
ClientStep(c) ==
  Start(c) \/ MqSend(c) \/ Initialized(c) \/ Listed(c) \/ Read(c) \/ UnlinkQueue(c)

Next ==
  \/ ServerStep \/ sigint_handler
  \/ \E c \in Clients :
       ClientStep(c) \/ Command(c) \/ Stop(c) \/ SigintEarly(c) \/ EndOfInput(c)

Spec == Init /\ [][Next]_vars

-----------------------------------------------------------------------------
(* Properties. *)

\* No client has taken another message for the answer it waited for: what a client
\* prints as the "LIST OF ACTIVE CLIENTS" (client.c:77), or takes for the "initial
\* message from server" (client.c:58), is one.
AnswersRight == "misread" \notin accidents

\* Type invariant, with the limits of the queues.  An id is an index of the server's
\* array, in the clients and in what they send, unless some client has taken another
\* message for its answer.
TypeOK ==
  /\ \A t \in Types : \A m \in ToSet(sq[t]) : m.type = t /\ m.sender_id \in Ids
  /\ Length(sq) <= QueueMax
  /\ clients \in [Slots -> Clients \union {NoQueue}]
  /\ server \in {"receiving", "sending", "closing", "closing_without", "down"}
  /\ to \subseteq Registered
  /\ \A c \in Clients : Length(cq[c]) <= QueueMax /\ client_id[c] \in Ids
  /\ \A c \in Clients :
       client[c] \in {"starting", "initializing", "looping", "listing", "submitting",
                      "exiting", "gone"}
  /\ AnswersRight =>
       /\ \A c \in Clients : client_id[c] \in Slots
       /\ \A m \in Messages(sq) : m.sender_id \in Slots

\* The clients that have an id, and whose STOP the server has not seen.
Active(c) ==
  \/ client[c] \in {"looping", "listing"}
  \/ client[c] = "submitting" /\ outbox[c].type # "INIT"
  \/ \E m \in ToSet(sq["STOP"]) : m.by = c

\* No client has taken another message for its id, or had none to leave with.
IdsKnown == {"misread", "sigint_initialize"} \cap accidents = {}

\* If all clients know their ids, each that is active has the slot of its id, and
\* no message names as its sender the slot of somebody else, though slots are
\* used again and messages overtake each other.
SendersRight == IdsKnown =>
  /\ \A c \in Clients : Active(c) => clients[client_id[c]] = c
  /\ \A m \in Messages(sq) : m.type # "INIT" => clients[m.sender_id] \in {m.by, NoQueue}

\* When the server has ended, each client that is in its loop has yet to read a
\* STOP: the server reached it, whatever else was under way.
StopWaits ==
  server = "down" /\ IdsKnown => \A c \in Clients :
    client[c] = "looping" => cq[c]["STOP"] # <<>>
=============================================================================
