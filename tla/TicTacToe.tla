------------------------------ MODULE TicTacToe ------------------------------
(****************************************************************************)
(* cw10/zad1: a server that pairs its clients for games of tic-tac-toe.     *)
(* Three threads of the server share the array clients[]: main accepts      *)
(* connections and pairs, "manage" reads what the clients send, "ping"      *)
(* pings them.  manage and ping take the mutexes of the clients they work   *)
(* on; main takes only clients_mutex, which nobody else does.               *)
(*                                                                          *)
(* A socket is a pair of queues, inbox[c] and outbox[c]; the server knows   *)
(* it by a descriptor.  A message is read whole, as it was written.         *)
(****************************************************************************)
EXTENDS Integers, Sequences, FiniteSets, SequencesExt, FiniteSetsExt

CONSTANTS
  Clients,         \* the client processes
  Names,
  MAX_PLAYERS,
  Cells,           \* of the board
  Lines,           \* the sets of cells to be filled with one symbol
  Nobody,          \* the client of a descriptor that is not in use
  MaxPings,
  MaxSigints,      \* how many processes the user may stop
  MaxEofs          \* how often manage may read the end of what a client wrote

Slots == 0 .. MAX_PLAYERS - 1

ASSUME TicTacToeAssumption ==
  /\ IsFiniteSet(Clients) /\ Clients # {} /\ Nobody \notin Clients
  /\ MAX_PLAYERS \in Nat \ {0}
  /\ IsFiniteSet(Cells) /\ Cells # {} /\ Lines \subseteq SUBSET Cells
  /\ {MaxPings, MaxSigints, MaxEofs} \subseteq Nat

VARIABLES
  clients,     \* the array of the server
  boards,      \* the blocks of memory it has got for boards, in order
  conn,        \* whom each descriptor leads to
  watched,     \* the descriptors in clients_epollfd
  backlog,     \* clients that wait to be accepted
  main,        \* where the thread is, and its local variables
  manage,
  ping,
  mutex,       \* for each slot, the thread that holds its mutex, if any
  sigints,     \* how many processes the user has stopped
  server,      \* up, down (by SIGINT), killed (by SIGPIPE), or aborted (by free)
  client,      \* new, reading, playing (once START gave it a symbol), or gone
  client_id,   \* the client's id, 0 at first
  name,
  inbox,       \* what the server has written to each client
  outbox,      \* what each client has written
  mishaps      \* history: which of the kinds below have happened

table == <<clients, boards, conn, watched>>
threads == <<main, manage, ping, mutex>>
processes == <<backlog, client, client_id, name, outbox, sigints>>
vars == <<table, threads, processes, server, inbox, mishaps>>

Fds == 0 .. Cardinality(Clients) - 1
NULL == 0
SYMBOL_1 == "X"
SYMBOL_2 == "O"
Empty == [x \in Cells |-> " "]

Message(type, id, data) == [type |-> type, id |-> id, data |-> data]
Note(type) == Message(type, 0, 0)

Init ==
  /\ clients = [i \in Slots |-> [taken |-> FALSE, name |-> Nobody, opponent |-> -1,
                                 sockfd |-> 0, symbol |-> " ", board |-> NULL]]
  /\ boards = <<>>
  /\ conn = [f \in Fds |-> Nobody] /\ watched = {} /\ backlog = {}
  /\ main = [at |-> "idle", fd |-> 0, id |-> 0, opponent |-> 0]
  /\ manage = [at |-> "idle", msg |-> Note("PING"), opponent |-> -1, eofs |-> 0]
  /\ ping = [at |-> "idle", slot |-> 0, sent |-> 0]
  /\ mutex = [i \in Slots |-> "free"]
  /\ server = "up" /\ sigints = 0
  /\ client = [c \in Clients |-> "new"]
  /\ client_id = [c \in Clients |-> 0] /\ name = [c \in Clients |-> Nobody]
  /\ inbox = [c \in Clients |-> <<>>] /\ outbox = [c \in Clients |-> <<>>]
  /\ mishaps = {}

-----------------------------------------------------------------------------
(* The game. *)

\* All cells of a line hold "symbol".
check_line(board, line, symbol) == \A x \in line : board[x] = symbol

\* The symbol of a full line, "d" for a full board without one, or " ".
check_game_status(board) ==
  LET winners == {s \in {SYMBOL_1, SYMBOL_2} : \E l \in Lines : check_line(board, l, s)}
  IN  CASE winners # {} -> CHOOSE s \in winners : TRUE
        [] winners = {} /\ \A x \in Cells : board[x] # " " -> "d"
        [] OTHER -> " "

-----------------------------------------------------------------------------
(* What the server's threads do to the sockets. *)

\* Writing w[c] to each client c of w.  A client that is gone: a local socket
\* raises SIGPIPE, the first write to a net socket does not.
Deliver(w) ==
  LET closed == {c \in DOMAIN w : client[c] = "gone"} IN
    /\ inbox' = [c \in Clients |-> IF c \in DOMAIN w \ closed THEN Append(inbox[c], w[c])
                                   ELSE inbox[c]]
    /\ \/ server' = server
       \/ closed # {} /\ server' = "killed"

\* Writing w[f] to each descriptor f of w.  A descriptor that is not in use is an
\* error nobody looks at.
Write(w) ==
  LET open == {f \in DOMAIN w : conn[f] # Nobody} IN
    Deliver([c \in {conn[f] : f \in open} |-> w[CHOOSE f \in open : conn[f] = c]])

Only(x, m) == [y \in {x} |-> m]
To(i, m) == Only(clients[i].sockfd, m)
ToBoth(i, m, j, n) ==
  [f \in {clients[i].sockfd, clients[j].sockfd} |-> IF f = clients[i].sockfd THEN m ELSE n]

\* The sender of the message manage is at.
me == manage.msg.id

\* How often the client of slot i may move, or has moved unseen by the server.
Player(i) == conn[clients[i].sockfd]
Turns(i) ==
  Cardinality({k \in DOMAIN inbox[Player(i)] : inbox[Player(i)][k].type = "BOARD"})
  + Cardinality({k \in DOMAIN outbox[Player(i)] : outbox[Player(i)][k].type = "MOVE"})
  + (IF manage.at \in {"lock", "MOVE"} /\ manage.msg.type = "MOVE" /\ me = i THEN 1 ELSE 0)

\* A "race": a client, or its opponent, leaves while main is pairing it.  A
\* "leftover": a client whose opponent left is paired again and has a move of its
\* last game to make.
Racing ==
  /\ main.at \in {"welcome", "seek", "pair", "start", "board"}
  /\ manage.at \in {"DISCONNECT", "leaving"}
  /\ \/ me = main.id
     \/ main.at \in {"pair", "start", "board"} /\ main.opponent \in {me, manage.opponent}
LeftOver ==
  main.at = "pair" /\ Player(main.opponent) # Nobody /\ Turns(main.opponent) > 0
Notes ==
  mishaps' = mishaps \union {k \in {"race"} : Racing'} \union {k \in {"leftover"} : LeftOver'}

-----------------------------------------------------------------------------
(* main: the loop of creat_threads. *)

MainAt(at) == server = "up" /\ main.at = at
MainGoes(at) == main' = [main EXCEPT !.at = at]

check_username(n) == \E i \in Slots : clients[i].taken /\ clients[i].name = n

\* accept, read and check_username.  The descriptor of a client that is turned away
\* is not closed.
Accept == \E c \in backlog :
  LET f == Min({g \in Fds : conn[g] = Nobody}) IN
    /\ MainAt("idle")
    /\ backlog' = backlog \ {c}
    /\ conn' = [conn EXCEPT ![f] = c]
    /\ outbox' = [outbox EXCEPT ![c] = Tail(@)]
    /\ \/ /\ check_username(name[c])
          /\ Deliver(Only(c, Note("NAME_TAKEN")))
          /\ UNCHANGED main
       \/ /\ ~check_username(name[c])
          /\ main' = [main EXCEPT !.at = "register", !.fd = f]
          /\ UNCHANGED <<inbox, server>>
    /\ UNCHANGED <<clients, boards, watched, manage, ping, mutex, client, client_id, name,
                   sigints>>
    /\ Notes

\* register_client, its assignments.
register_client ==
  LET free == {i \in Slots : ~clients[i].taken} IN
    /\ MainAt("register")
    /\ \/ /\ free = {}
          /\ Write(Only(main.fd, Note("TOO_MANY")))
          /\ MainGoes("idle")
          /\ UNCHANGED clients
       \/ /\ free # {}
          /\ clients' = [clients EXCEPT ![Min(free)].name = name[conn[main.fd]],
                                        ![Min(free)].taken = TRUE,
                                        ![Min(free)].sockfd = main.fd,
                                        ![Min(free)].opponent = -1]
          /\ main' = [main EXCEPT !.at = "welcome", !.id = Min(free)]
          /\ UNCHANGED <<inbox, server>>
    /\ UNCHANGED <<boards, conn, watched, manage, ping, mutex, processes>>
    /\ Notes

\* ... and the rest of it.
Welcome ==
  /\ MainAt("welcome")
  /\ Write(Only(main.fd, Message("CONNECT", main.id, 0)))
  /\ watched' = IF conn[main.fd] = Nobody THEN watched ELSE watched \union {main.fd}
  /\ MainGoes("seek")
  /\ UNCHANGED <<clients, boards, conn, manage, ping, mutex, processes>>
  /\ Notes

Waiting == {i \in Slots : clients[i].taken /\ clients[i].opponent = -1}

\* Not the code: the slots after the client's own,
After(id) == {i \in Waiting : i > id}
\* ... or its own as well.
AnyWaiting(id) == Waiting

Others(id) == Waiting \ {id}

\* find_opponent in steps: the search,
Seek ==
  /\ MainAt("seek")
  /\ \/ Others(main.id) = {} /\ MainGoes("idle")
     \/ Others(main.id) # {} /\ main' = [main EXCEPT !.at = "pair",
                                                   !.opponent = Min(Others(main.id))]
  /\ UNCHANGED <<table, manage, ping, mutex, processes, server, inbox>>
  /\ Notes

\* ... the two assignments,
Pair ==
  /\ MainAt("pair")
  /\ clients' = [clients EXCEPT ![main.id].opponent = main.opponent,
                                ![main.opponent].opponent = main.id]
  /\ MainGoes("start")
  /\ UNCHANGED <<boards, conn, watched, manage, ping, mutex, processes, server, inbox>>
  /\ Notes

\* ... the two START,
SendStart ==
  /\ MainAt("start")
  /\ clients' = [clients EXCEPT ![main.opponent].symbol = SYMBOL_1,
                                ![main.id].symbol = SYMBOL_2]
  /\ Write(ToBoth(main.opponent, Message("START", 0, SYMBOL_1),
                  main.id, Message("START", 0, SYMBOL_2)))
  /\ MainGoes("board")
  /\ UNCHANGED <<boards, conn, watched, manage, ping, mutex, processes>>
  /\ Notes

\* Not the code: both players get the board.
BothStart(who, m) == ToBoth(main.id, m, main.opponent, m)
\* rand() % 2: one of the two gets the board.
WhoStarts(who, m) == To(who, m)

\* ... and the board, new and shared by both.
SendBoard ==
  /\ MainAt("board")
  /\ boards' = Append(boards, Empty)
  /\ clients' = [clients EXCEPT ![main.id].board = Len(boards'),
                                ![main.opponent].board = Len(boards')]
  /\ \E who \in {main.id, main.opponent} : Write(WhoStarts(who, Message("BOARD", 0, Empty)))
  /\ MainGoes("idle")
  /\ UNCHANGED <<conn, watched, manage, ping, mutex, processes>>
  /\ Notes

-----------------------------------------------------------------------------
(* manage: start_routine_manage_sockets. *)

ManageAt(at) == server = "up" /\ manage.at = at
Unlocked(held) ==
  mutex' = [i \in Slots |-> IF i \in held THEN "free" ELSE mutex[i]]
ManageIdle == manage' = [manage EXCEPT !.at = "idle", !.opponent = -1]

\* read: at the end of what a client wrote it returns 0 and leaves msg as it was.
Receive == \E f \in watched :
  /\ ManageAt("idle")
  /\ \/ /\ outbox[conn[f]] # <<>>
        /\ manage' = [manage EXCEPT !.at = "lock", !.msg = Head(outbox[conn[f]])]
        /\ outbox' = [outbox EXCEPT ![conn[f]] = Tail(@)]
     \/ /\ outbox[conn[f]] = <<>> /\ client[conn[f]] = "gone"
        /\ manage.eofs < MaxEofs
        /\ manage' = [manage EXCEPT !.at = "lock", !.eofs = @ + 1]
        /\ UNCHANGED outbox
  /\ UNCHANGED <<table, main, ping, mutex, backlog, client, client_id, name, sigints, server,
                 inbox, mishaps>>

\* The lock of the sender's mutex, and the messages that need no other.
Lock ==
  /\ ManageAt("lock")
  /\ mutex[me] = "free"
  /\ LET type == manage.msg.type IN
       \/ /\ \/ type = "PING"
             \/ type = "DISCONNECT" /\ ~clients[me].taken
             \/ type = "MOVE" /\ clients[me].opponent = -1
          /\ ManageIdle
          /\ UNCHANGED mutex
       \/ /\ \/ type = "DISCONNECT" /\ clients[me].taken
             \/ type = "MOVE" /\ clients[me].opponent # -1
          /\ manage' = [manage EXCEPT !.at = type, !.opponent = clients[me].opponent]
          /\ mutex' = [mutex EXCEPT ![me] = "manage"]
  /\ UNCHANGED <<table, main, ping, processes, server, inbox>>
  /\ Notes

\* There is an opponent still, and the pointer leads to a board; if not, nothing is
\* known of what follows.
OnBoard ==
  clients[me].opponent # -1 /\ clients[me].board # NULL /\ boards[clients[me].board] # <<>>

\* handle_move, once it has the opponent's mutex.
handle_move ==
  LET opponent == clients[me].opponent
      left == opponent # -1 /\ ~clients[opponent].taken
      board == [boards[clients[me].board] EXCEPT ![manage.msg.data] = clients[me].symbol]
      status == check_game_status(board)
  IN
  /\ ManageAt("MOVE")
  /\ opponent # -1 => mutex[opponent] = "free"
  /\ \/ /\ left
        /\ Write(To(me, Note("OP_LEFT")))
        /\ UNCHANGED boards
     \/ /\ ~left /\ ~OnBoard
        /\ server' = "aborted"
        /\ UNCHANGED <<boards, inbox>>
     \/ /\ ~left /\ OnBoard
        /\ boards' = [boards EXCEPT ![clients[me].board] = board]
        /\ \/ status # " " /\ Write(ToBoth(opponent, Message("FINISH", 0, status),
                                              me, Message("FINISH", 0, status)))
           \/ status = " " /\ Write(To(opponent, Message("BOARD", 0, board)))
  /\ ManageIdle
  /\ Unlocked({me})
  /\ UNCHANGED <<clients, conn, watched, main, ping, processes>>
  /\ Notes

\* Not the code: the opponent is not told.
OpponentKept(i) == inbox' = inbox /\ UNCHANGED server

TellOpponent(i) == Write(To(i, Note("OP_LEFT")))

\* Not the code: its opponent keeps it.
OneParted(i) == [clients EXCEPT ![i].opponent = -1]

\* A client and its opponent are no opponents any more.
Parted(i) == [clients EXCEPT ![clients[i].opponent].opponent = -1, ![i].opponent = -1]

\* handle_disconnect up to OP_LEFT.  Its variable "opponent" is -1 for a client
\* that had none; what it then locks and writes to is no client's.
handle_disconnect ==
  /\ ManageAt("DISCONNECT")
  /\ \/ manage.opponent = -1 /\ UNCHANGED mutex
     \/ /\ manage.opponent # -1 /\ mutex[manage.opponent] = "free"
        /\ mutex' = [mutex EXCEPT ![manage.opponent] = "manage"]
  /\ \/ clients[me].opponent = -1 /\ UNCHANGED <<clients, inbox, server>>
     \/ /\ clients[me].opponent # -1
        /\ clients' = Parted(me)
        /\ \/ manage.opponent = -1 /\ UNCHANGED <<inbox, server>>
           \/ manage.opponent # -1 /\ TellOpponent(manage.opponent)
  /\ manage' = [manage EXCEPT !.at = "leaving"]
  /\ UNCHANGED <<boards, conn, watched, main, ping, processes>>
  /\ Notes

\* Not the code: the opponent keeps its board.
BoardKept(i, opponent) == [clients EXCEPT ![i].taken = FALSE, ![i].board = NULL]

\* The array without client i; if it has a board, its opponent has it no more.
Removed(i, opponent) ==
  [k \in Slots |->
     IF k = i THEN [clients[k] EXCEPT !.taken = FALSE, !.board = NULL]
     ELSE IF k = opponent /\ clients[i].board # NULL THEN [clients[k] EXCEPT !.board = NULL]
     ELSE clients[k]]

\* ... and from there on: free of a block that was freed aborts the server.
RemoveClient ==
  LET f == clients[me].sockfd
      block == clients[me].board
  IN
  /\ ManageAt("leaving")
  /\ conn' = [conn EXCEPT ![f] = Nobody]
  /\ watched' = watched \ {f}
  /\ clients' = Removed(me, manage.opponent)
  /\ \/ block = NULL /\ UNCHANGED <<boards, server>>
     \/ /\ block # NULL /\ boards[block] # <<>>
        /\ boards' = [boards EXCEPT ![block] = <<>>]
        /\ UNCHANGED server
     \/ block # NULL /\ boards[block] = <<>> /\ server' = "aborted" /\ UNCHANGED boards
  /\ ManageIdle
  /\ Unlocked({me, manage.opponent})
  /\ UNCHANGED <<main, ping, processes, inbox>>
  /\ Notes

-----------------------------------------------------------------------------
(* ping: start_routine_ping, with the mutex held while it waits for an answer. *)

Ping == \E i \in Slots :
  /\ server = "up" /\ ping.at = "idle" /\ ping.sent < MaxPings
  /\ mutex[i] = "free" /\ clients[i].taken
  /\ Write(To(i, Note("PING")))
  /\ ping' = [at |-> "waiting", slot |-> i, sent |-> ping.sent + 1]
  /\ mutex' = [mutex EXCEPT ![i] = "ping"]
  /\ UNCHANGED <<table, main, manage, processes, mishaps>>

\* epoll_wait returns 1, or 0 after a second: both are taken for an answer.
Pinged ==
  /\ server = "up" /\ ping.at = "waiting"
  /\ ping' = [ping EXCEPT !.at = "idle", !.slot = 0]
  /\ Unlocked({ping.slot})
  /\ UNCHANGED <<table, main, manage, processes, server, inbox, mishaps>>

-----------------------------------------------------------------------------
(* SIGINT: main runs handle_exit, while manage and ping go on.  A mutex it destroys
   is taken for one that still works; a second SIGINT is left out. *)

Exiting == main.at \in {"exiting", "closing"}

handle_signal ==
  /\ server = "up" /\ ~Exiting
  /\ sigints < MaxSigints /\ sigints' = sigints + 1
  /\ main' = [at |-> "exiting", fd |-> 0, id |-> 0, opponent |-> 0]
  /\ UNCHANGED <<table, manage, ping, mutex, backlog, client, client_id, name, outbox, server,
                 inbox, mishaps>>

\* handle_exit for one client: its own pointer to the board stays as it is.  For
\* opponent -1 the assignment is outside the array.
Dismiss(i) ==
  LET f == clients[i].sockfd
      block == clients[i].board
  IN
  /\ conn' = [conn EXCEPT ![f] = Nobody]
  /\ watched' = watched \ {f}
  /\ clients' = [k \in Slots |->
       IF block # NULL /\ k = clients[i].opponent THEN [clients[k] EXCEPT !.board = NULL]
       ELSE clients[k]]
  /\ \/ block = NULL /\ Write(To(i, Note("DISCONNECT"))) /\ UNCHANGED boards
     \/ /\ block # NULL /\ boards[block] # <<>>
        /\ Write(To(i, Note("DISCONNECT")))
        /\ boards' = [boards EXCEPT ![block] = <<>>]
     \/ /\ block # NULL /\ boards[block] = <<>>
        /\ server' = "aborted"
        /\ UNCHANGED <<boards, inbox>>

handle_exit ==
  /\ \/ /\ MainAt("exiting")
        /\ main' = IF main.id < MAX_PLAYERS - 1 THEN [main EXCEPT !.id = @ + 1]
                   ELSE [main EXCEPT !.at = "closing"]
        /\ \/ clients[main.id].taken /\ Dismiss(main.id)
           \/ ~clients[main.id].taken /\ UNCHANGED <<table, inbox, server>>
     \/ /\ MainAt("closing")
        /\ server' = "down"
        /\ UNCHANGED <<table, main, inbox>>
  /\ UNCHANGED <<manage, ping, mutex, processes, mishaps>>

-----------------------------------------------------------------------------
(* The clients. *)

\* Its name is given on the command line.
Connect(c) == \E n \in Names :
  /\ client[c] = "new" /\ server = "up"
  /\ client' = [client EXCEPT ![c] = "reading"]
  /\ name' = [name EXCEPT ![c] = n]
  /\ backlog' = backlog \union {c}
  /\ outbox' = [outbox EXCEPT ![c] = <<Note("CONNECT")>>]
  /\ UNCHANGED <<table, threads, client_id, server, inbox, mishaps, sigints>>

Runs(c) == client[c] \in {"reading", "playing"}

\* handle_exit of the client: DISCONNECT with whatever its id is.
Exits(c) ==
  /\ client' = [client EXCEPT ![c] = "gone"]
  /\ inbox' = [inbox EXCEPT ![c] = <<>>]
  /\ outbox' = [outbox EXCEPT ![c] = Append(@, Message("DISCONNECT", client_id[c], 0))]
  /\ UNCHANGED client_id

\* The loop of main: each message but BOARD, which needs the user.
Read(c) ==
  /\ Runs(c) /\ inbox[c] # <<>>
  /\ LET m == Head(inbox[c])
         reads == client' = client /\ inbox' = [inbox EXCEPT ![c] = Tail(@)]
     IN
       \/ /\ m.type = "CONNECT" /\ reads
          /\ client_id' = [client_id EXCEPT ![c] = m.id]
          /\ UNCHANGED outbox
       \/ /\ m.type = "START"
          /\ inbox' = [inbox EXCEPT ![c] = Tail(@)]
          /\ client' = [client EXCEPT ![c] = "playing"]
          /\ UNCHANGED <<client_id, outbox>>
       \/ /\ m.type = "PING" /\ reads
          /\ outbox' = [outbox EXCEPT ![c] = Append(@, Message("PING", client_id[c], 0))]
          /\ UNCHANGED client_id
       \/ /\ m.type \in {"FINISH", "OP_LEFT", "TOO_MANY", "NAME_TAKEN", "DISCONNECT"}
          /\ Exits(c)
  /\ UNCHANGED <<table, threads, backlog, name, server, mishaps, sigints>>

handle_board(c) ==
  /\ Runs(c) /\ inbox[c] # <<>>
  /\ Head(inbox[c]).type = "BOARD"
  /\ inbox' = [inbox EXCEPT ![c] = Tail(@)]
  /\ \E x \in {y \in Cells : Head(inbox[c]).data[y] = " "} :
       outbox' = [outbox EXCEPT ![c] = Append(@, Message("MOVE", client_id[c], x))]
  /\ UNCHANGED <<table, threads, backlog, client, client_id, name, server, mishaps, sigints>>

Sigint(c) ==
  /\ Runs(c) /\ sigints < MaxSigints
  /\ Exits(c) /\ sigints' = sigints + 1
  /\ UNCHANGED <<table, threads, backlog, name, server, mishaps>>

\* The server has closed the socket, or is no more: read returns 0, the type is
\* still -1, and the client exits.
EndOfFile(c) ==
  /\ Runs(c) /\ inbox[c] = <<>>
  /\ \/ server # "up"
     \/ c \notin backlog /\ \A f \in Fds : conn[f] # c
  /\ Exits(c)
  /\ UNCHANGED <<table, threads, backlog, name, server, mishaps, sigints>>

-----------------------------------------------------------------------------

MainThread == Accept \/ register_client \/ Welcome \/ Seek \/ Pair \/ SendStart \/ SendBoard
ManageThread == Receive \/ Lock \/ handle_move \/ handle_disconnect \/ RemoveClient
PingThread == Ping \/ Pinged
Exit == handle_signal \/ handle_exit
Server == MainThread \/ ManageThread \/ PingThread \/ Exit
Client(c) == Connect(c) \/ Read(c) \/ handle_board(c) \/ Sigint(c) \/ EndOfFile(c)

Next == Server \/ \E c \in Clients : Client(c)

Spec == Init /\ [][Next]_vars

-----------------------------------------------------------------------------
(* Properties. *)

\* Type invariant.
TypeOK ==
  /\ \A i \in Slots :
       /\ clients[i].opponent \in (Slots \union {-1}) \ {i}
       /\ clients[i].board \in 0 .. Len(boards)
       /\ clients[i].sockfd \in Fds
  /\ watched \subseteq {f \in Fds : conn[f] # Nobody}
  /\ server \in {"up", "down", "killed", "aborted"}
  /\ \A c \in Clients : client_id[c] \in Slots
  /\ \A i \in Slots : mutex[i] \in {"free", "manage", "ping"}

Busy(i) == manage.at \in {"DISCONNECT", "leaving"} /\ i \in {me, manage.opponent}
\* The client of slot i is about to leave, or has left.
Leaving(i) ==
  \/ Player(i) = Nobody
  \/ client[Player(i)] = "gone"
  \/ \E m \in ToSet(inbox[Player(i)]) : m.type \in {"OP_LEFT", "FINISH"}

\* The client of slot i has had an opponent.
Played(i) ==
  \/ client[Player(i)] = "playing"
  \/ \E m \in ToSet(inbox[Player(i)]) : m.type = "START"

\* The server runs, main is not in the middle of a pairing, and nobody left in one.
Orderly == server = "up" /\ main.at = "idle" /\ "race" \notin mishaps

\* Opponents are each other's, and play on one board.
PairsAgree == Orderly =>
  \A i \in Slots : LET j == clients[i].opponent IN
    clients[i].taken /\ j # -1 /\ ~Busy(i) =>
      /\ clients[j].taken /\ clients[j].opponent = i
      /\ clients[j].board = clients[i].board /\ clients[i].board # NULL

\* No two clients wait for an opponent at the same time.
NobodyWaits == Orderly =>
  Cardinality({i \in Waiting : ~Leaving(i) /\ ~Busy(i)}) <= 1

\* A player without an opponent has been told that it left, or how the game ended.
NobodyLeftAlone == Orderly =>
  \A i \in Waiting : Played(i) /\ ~Busy(i) => Leaving(i)

\* Of two players that both stay, exactly one has the turn, as long as the server
\* handles no message twice.
OneTurn == Orderly /\ manage.eofs = 0 =>
  \A i \in Slots : LET j == clients[i].opponent IN
    clients[i].taken /\ j # -1 /\ ~Leaving(i) /\ ~Leaving(j) => Turns(i) + Turns(j) = 1

\* The server uses no board that is not there, and frees each one once, as long as
\* it handles no message twice and is not exiting: handle_exit frees the boards that
\* manage goes on using.
BoardsThere ==
  mishaps = {} /\ manage.eofs = 0 /\ ~Exiting => server # "aborted"
=============================================================================
