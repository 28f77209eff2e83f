--------------------------- MODULE TicTacToe_proofs --------------------------
(****************************************************************************)
(* Theorems about the games of cw10/zad1, for any clients, any number of    *)
(* slots, any board, and any number of pings, interrupts and ends of file.  *)
(****************************************************************************)
EXTENDS TicTacToe, FiniteSetTheorems, FunctionTheorems, TLAPS

USE TicTacToeAssumption

-----------------------------------------------------------------------------
(****************************************************************************)
(* The inductive invariant.  Base holds whatever happens: descriptors and   *)
(* slots belong to one client each.  The rest is about a server that runs,  *)
(* and from which nobody left in the middle of a pairing: Pairs is about    *)
(* the array and the boards, Parting about the clients that wait, Turning   *)
(* about the moves that are on their way.                                   *)
(****************************************************************************)

Symbols == {" ", SYMBOL_1, SYMBOL_2}
Boards == [Cells -> Symbols]
Data == Cells \union Symbols \union {"d", 0} \union Boards
Types == {"CONNECT", "NAME_TAKEN", "TOO_MANY", "START", "BOARD", "MOVE", "FINISH", "OP_LEFT",
          "PING", "DISCONNECT"}
Msg == [type : Types, id : Slots, data : Data]
Slot == [taken : BOOLEAN, name : Names \union {Nobody}, opponent : Slots \union {-1},
         sockfd : Fds, symbol : Symbols, board : Nat]

TypedTable ==
  /\ clients \in [Slots -> Slot] /\ boards \in Seq(Boards \union {<<>>})
  /\ conn \in [Fds -> Clients \union {Nobody}] /\ watched \subseteq Fds

TypedThreads ==
  /\ main \in [at : {"idle", "register", "welcome", "seek", "pair", "start", "board",
                    "exiting", "closing"},
              fd : Fds, id : Slots, opponent : Slots]
  /\ manage \in [at : {"idle", "lock", "MOVE", "DISCONNECT", "leaving"},
                msg : Msg, opponent : Slots \union {-1}, eofs : Nat]
  /\ ping \in [at : {"idle", "waiting"}, slot : Slots, sent : Nat]
  /\ mutex \in [Slots -> {"free", "manage", "ping"}]

TypedClients ==
  /\ backlog \subseteq Clients /\ sigints \in Nat
  /\ client \in [Clients -> {"new", "reading", "playing", "gone"}]
  /\ client_id \in [Clients -> Slots] /\ name \in [Clients -> Names \union {Nobody}]
  /\ outbox \in [Clients -> Seq(Msg)]

TypedServer ==
  server \in {"up", "down", "killed", "aborted"} /\ inbox \in [Clients -> Seq(Msg)]

Typed == TypedTable /\ TypedThreads /\ TypedClients /\ TypedServer

\* No message of type t is in the queue s.
No(t, s) == \A k \in DOMAIN s : s[k].type # t

\* A client has one descriptor, once it is accepted.
DescriptorsRight ==
  /\ \A f, g \in Fds : conn[f] = conn[g] /\ conn[f] # Nobody => f = g
  /\ \A f \in Fds : conn[f] \notin backlog
  /\ \A f \in Fds : conn[f] # Nobody => client[conn[f]] # "new"

\* A client that waits to be accepted has sent its name, has got nothing and has
\* not moved.
BacklogRight ==
  /\ \A c \in Clients : client[c] = "new" => c \notin backlog /\ inbox[c] = <<>>
  /\ \A c \in backlog :
       /\ client[c] # "playing" /\ inbox[c] = <<>>
       /\ outbox[c] # <<>> /\ No("MOVE", outbox[c])

\* A slot that is taken has a descriptor of its own, which is in use till the server
\* exits; no others are watched.
SlotsRight ==
  /\ \A i \in Slots : clients[i].opponent # i /\ clients[i].board <= Len(boards)
  /\ \A i \in Slots : clients[i].taken /\ ~Exiting => Player(i) # Nobody
  /\ \A i, j \in Slots :
       clients[i].taken /\ clients[j].taken /\ clients[i].sockfd = clients[j].sockfd => i = j
  /\ \A f \in watched : \E i \in Slots : clients[i].taken /\ clients[i].sockfd = f
  /\ \A f \in watched : conn[f] # Nobody

ThreadsRight ==
  /\ main.at = "register" =>
       /\ conn[main.fd] # Nobody
       /\ \A i \in Slots : clients[i].taken => clients[i].sockfd # main.fd
  /\ main.at = "welcome" =>
       /\ clients[main.id].sockfd = main.fd
       /\ clients[main.id].taken \/ conn[main.fd] = Nobody
  /\ main.at \in {"pair", "start", "board"} => main.opponent # main.id
  /\ manage.at \in {"DISCONNECT", "leaving"} => clients[me].taken

Base == Typed /\ DescriptorsRight /\ BacklogRight /\ SlotsRight /\ ThreadsRight

-----------------------------------------------------------------------------

Fine == server = "up" /\ ~Exiting /\ "race" \notin mishaps

\* Main has paired slot i, and it has no board yet.
Starting(i) == main.at \in {"start", "board"} /\ i \in {main.id, main.opponent}
\* The client of slot i, or its opponent, is being removed.
Removing(i) == manage.at = "leaving" /\ i \in {me, manage.opponent}

Free(i) == clients[i].taken /\ clients[i].opponent = -1

\* Opponents are each other's, and only they have a board, which is theirs alone.
ArrayRight ==
  /\ \A i \in Slots : clients[i].opponent # -1 =>
       clients[i].taken /\ clients[clients[i].opponent].opponent = i
  /\ \A i \in Slots : clients[i].opponent # -1 /\ ~Starting(i) =>
       clients[i].board # NULL /\ clients[i].board = clients[clients[i].opponent].board
  /\ \A i \in Slots : clients[i].opponent = -1 /\ ~Removing(i) => clients[i].board = NULL
  /\ \A i \in Slots : clients[i].board # NULL => boards[clients[i].board] # <<>>
  /\ \A i, j \in Slots : clients[i].board = clients[j].board /\ clients[i].board # NULL /\ i # j =>
       clients[i].opponent = j \/ (Removing(i) /\ Removing(j))

\* What main knows of the clients it pairs is so.
MainRight ==
  /\ main.at \in {"welcome", "seek", "pair"} => Free(main.id) /\ ~Removing(main.id)
  /\ main.at = "pair" => Free(main.opponent)
  /\ main.at \in {"start", "board"} =>
       /\ clients[main.id].opponent = main.opponent /\ clients[main.opponent].opponent = main.id
       /\ clients[main.id].board = NULL /\ clients[main.opponent].board = NULL

\* The client that is accepted has got nothing and has not moved.
NewcomerRight ==
  main.at = "register" =>
    /\ client[conn[main.fd]] # "playing" /\ inbox[conn[main.fd]] = <<>>
    /\ No("MOVE", outbox[conn[main.fd]])

\* The opponent that manage has read is the opponent, until it parts the two.
ManageRight ==
  /\ manage.at \in {"MOVE", "DISCONNECT"} => manage.opponent = clients[me].opponent
  /\ manage.at = "MOVE" => manage.opponent # -1 /\ manage.msg.type = "MOVE"
  /\ manage.at = "leaving" =>
       /\ clients[me].opponent = -1 /\ manage.opponent # me
       /\ manage.opponent = -1 => clients[me].board = NULL
       /\ manage.opponent # -1 =>
            Free(manage.opponent) /\ clients[manage.opponent].board = clients[me].board

Pairs == Fine => ArrayRight /\ MainRight /\ ManageRight /\ ~Racing /\ NewcomerRight

-----------------------------------------------------------------------------

\* The slots whose clients wait and are not told to leave.
Staying == {i \in Waiting : ~Leaving(i) /\ ~Busy(i)}

\* Who waits has never played, and only one does, the one that main pairs left aside;
\* the opponent of one that leaves is told.
Parting == Fine =>
  /\ \A i \in Staying : ~Played(i)
  /\ \A i, j \in Staying :
       i = j \/ (main.at \in {"welcome", "seek", "pair"} /\ main.id \in {i, j})
  /\ manage.at = "leaving" /\ manage.opponent # -1 => Leaving(manage.opponent)

-----------------------------------------------------------------------------

\* All messages of type t in the queue s carry the id i.
Carry(t, s, i) == \A k \in DOMAIN s : s[k].type = t => s[k].id = i
\* Nobody gets a board before its id.
Connected(s) ==
  \A k \in DOMAIN s : s[k].type = "BOARD" => \E l \in 1 .. k - 1 : s[l].type = "CONNECT"

\* The client of slot i is told its id, and moves with it.
IdRight(i) ==
  /\ Carry("MOVE", outbox[Player(i)], i)
  /\ client[Player(i)] # "gone" =>
       /\ Carry("CONNECT", inbox[Player(i)], i)
       /\ client_id[Player(i)] = i \/ Connected(inbox[Player(i)])
       /\ (main.at = "welcome" => main.id # i) =>
            client_id[Player(i)] = i \/ ~No("CONNECT", inbox[Player(i)])

IdsRight == \A i \in Slots : clients[i].taken => IdRight(i)

\* manage handles a move of the client of slot i.
Handling(i) == manage.at \in {"lock", "MOVE"} /\ manage.msg.type = "MOVE" /\ me = i

\* A slot that is paired, or is to be, has no turn left; of two players that
\* stay, exactly one has the turn.
TurnsRight ==
  /\ \A i \in Slots : Handling(i) => clients[i].taken
  /\ \A i \in Slots : Starting(i) /\ ~Leaving(i) => Turns(i) = 0
  /\ \A i \in Staying : Turns(i) = 0
  /\ \A i, j \in Slots :
       clients[i].opponent = j /\ ~Starting(i) /\ ~Leaving(i) /\ ~Leaving(j) =>
         Turns(i) + Turns(j) = 1
  /\ \A i \in Slots :
       main.at \in {"welcome", "seek", "pair", "start", "board"} /\ main.id = i => Turns(i) = 0
  /\ \A i \in Slots :
       main.at \in {"pair", "start", "board"} /\ main.opponent = i
         /\ "leftover" \notin mishaps => Turns(i) = 0

Turning == Fine /\ manage.eofs = 0 => IdsRight /\ TurnsRight

Inv == Base /\ Pairs /\ Parting /\ Turning /\ BoardsThere

\* All steps but those of main's exit; manage, ping and the clients go on beside it.
Threads == MainThread \/ ManageThread \/ PingThread
Step == Threads \/ \E c \in Clients : Client(c)
-----------------------------------------------------------------------------
(* Sets, and sequences of messages. *)

\* The least member of a set of naturals is in it: the free slot, the free descriptor,
\* and the opponent that find_opponent finds.
LEMMA MinMember ==
  ASSUME NEW S \in SUBSET Nat, S # {}
  PROVE  Min(S) \in S
<1> DEFINE Less == {ss \in Nat \X Nat : ss[1] < ss[2]}
<1>1. IsWellFoundedOn(Less, Nat)
  BY NatLessThanWellFounded DEF OpToRel
<1>2. PICK x \in S : \A y \in S : ~ (<<y, x>> \in Less)
  <2> HIDE DEF Less
  <2> QED BY <1>1, WFMin
<1>3. ASSUME NEW y \in S, y < x PROVE FALSE
  <2>1. <<y, x>> \in Less
    BY <1>3
  <2> QED BY <2>1, <1>2
<1>4. \A y \in S : x =< y
  BY <1>3
<1> QED
  BY <1>4 DEF Min

\* There is at least one descriptor, and slot 0.
LEMMA FdsAre == Fds \subseteq Nat /\ 0 \in Fds /\ 0 \in Slots /\ IsFiniteSet(Fds)
               /\ Cardinality(Fds) = Cardinality(Clients) /\ -1 \notin Slots
<1>1. Cardinality(Clients) \in Nat /\ Cardinality(Clients) # 0
  BY FS_CardinalityType, FS_EmptySet
<1> DEFINE n == Cardinality(Clients)
<1>2. IsFiniteSet(Fds) /\ Cardinality(Fds) = Cardinality(Clients)
  <2>1. n - 1 \in Int /\ 0 \in Int /\ ~(0 > n - 1) /\ n - 1 - 0 + 1 = n
    BY <1>1
  <2>2. IsFiniteSet(0 .. n - 1) /\ Cardinality(0 .. n - 1) = n - 1 - 0 + 1
    <3> HIDE DEF n
    <3> QED BY <2>1, FS_Interval
  <2> QED BY <2>1, <2>2 DEF Fds
<1> QED
  BY <1>1, <1>2 DEF Fds, Slots

\* The index set of the messages of a type, the number of which is counted.
At(t, s) == {k \in DOMAIN s : s[k].type = t}
Count(t, s) == Cardinality(At(t, s))

\* A queue is finite, so are its messages of a type.
LEMMA AtFinite ==
  ASSUME NEW s \in Seq(Msg), NEW t
  PROVE  IsFiniteSet(At(t, s)) /\ At(t, s) \subseteq 1 .. Len(s) /\ Count(t, s) \in Nat
<1>1. DOMAIN s = 1 .. Len(s) /\ Len(s) \in Nat
  OBVIOUS
<1>2. IsFiniteSet(1 .. Len(s)) /\ At(t, s) \subseteq 1 .. Len(s)
  BY <1>1, FS_Interval DEF At
<1> QED
  BY <1>2, FS_Subset, FS_CardinalityType DEF Count

\* No message of a type, and their number is 0, is the same.
LEMMA CountZero ==
  ASSUME NEW s \in Seq(Msg), NEW t
  PROVE  Count(t, s) = 0 <=> No(t, s)
<1>1. At(t, s) = {} <=> No(t, s)
  BY DEF At, No
<1> QED
  BY <1>1, AtFinite, FS_EmptySet DEF Count

\* Appending a message counts one more of its type.
LEMMA CountAppend ==
  ASSUME NEW s \in Seq(Msg), NEW m \in Msg, NEW t
  PROVE  Count(t, Append(s, m)) = IF m.type = t THEN Count(t, s) + 1 ELSE Count(t, s)
<1> DEFINE n == Len(s) + 1
           u == Append(s, m)
<1>1. /\ Len(s) \in Nat /\ DOMAIN s = 1 .. Len(s) /\ DOMAIN u = 1 .. n /\ u[n] = m
      /\ \A k \in 1 .. Len(s) : u[k] = s[k]
  OBVIOUS
<1>2. CASE m.type = t
  <2>1. At(t, u) = At(t, s) \union {n}
    BY <1>1, <1>2 DEF At
  <2>2. n \notin At(t, s)
    BY <1>1 DEF At
  <2>3. IsFiniteSet(At(t, s))
    BY AtFinite
  <2>4. Cardinality(At(t, s) \union {n}) = Cardinality(At(t, s)) + 1
    BY <2>2, <2>3, FS_AddElement
  <2> QED BY <2>1, <2>4, <1>2 DEF Count
<1>3. CASE m.type # t
  <2>1. At(t, u) = At(t, s)
    BY <1>1, <1>3 DEF At
  <2> QED BY <2>1, <1>3 DEF Count
<1> QED
  BY <1>2, <1>3

\* Taking the first message off counts one less of its type.
LEMMA CountTail ==
  ASSUME NEW s \in Seq(Msg), s # <<>>, NEW t
  PROVE  Count(t, s) = IF Head(s).type = t THEN Count(t, Tail(s)) + 1 ELSE Count(t, Tail(s))
<1> DEFINE r == Tail(s)
           f == [k \in At(t, r) |-> k + 1]
<1>1. /\ Len(s) \in Nat /\ Len(s) > 0 /\ DOMAIN s = 1 .. Len(s) /\ DOMAIN r = 1 .. Len(s) - 1
      /\ Head(s) = s[1] /\ r \in Seq(Msg)
      /\ \A k \in 1 .. Len(s) - 1 : r[k] = s[k + 1]
  OBVIOUS
<1>2. f \in Bijection(At(t, r), At(t, s) \ {1})
  <2>1. f \in [At(t, r) -> At(t, s) \ {1}]
    BY <1>1 DEF At
  <2>2. ASSUME NEW j \in At(t, s) \ {1} PROVE \E k \in At(t, r) : f[k] = j
    <3>1. j - 1 \in At(t, r)
      BY <1>1 DEF At
    <3> QED BY <3>1, <1>1 DEF At
  <2>3. ASSUME NEW j \in At(t, r), NEW k \in At(t, r), f[j] = f[k] PROVE j = k
    BY <2>3, <1>1 DEF At
  <2> HIDE DEF f
  <2> QED BY <2>1, <2>2, <2>3, Fun_IsBij
<1>3. Cardinality(At(t, r)) = Cardinality(At(t, s) \ {1}) /\ IsFiniteSet(At(t, s))
  <2>1. IsFiniteSet(At(t, r)) /\ IsFiniteSet(At(t, s))
    BY <1>1, AtFinite
  <2>2. ExistsBijection(At(t, r), At(t, s) \ {1})
    BY <1>2 DEF ExistsBijection
  <2> QED BY <2>1, <2>2, FS_Bijection
<1>4. 1 \in At(t, s) <=> Head(s).type = t
  BY <1>1 DEF At
<1>5. Count(t, s) \in Nat
  BY AtFinite
<1>6. Cardinality(At(t, s) \ {1}) = IF 1 \in At(t, s) THEN Count(t, s) - 1 ELSE Count(t, s)
  BY <1>3, FS_RemoveElement DEF Count
<1>7. Count(t, r) = Cardinality(At(t, s) \ {1})
  BY <1>3 DEF Count
<1> QED
  BY <1>4, <1>5, <1>6, <1>7

\* What there is not in a queue, there is not when a message of another type is
\* appended, ...
LEMMA NoAppend ==
  ASSUME NEW s \in Seq(Msg), NEW m \in Msg, NEW t
  PROVE  No(t, Append(s, m)) <=> No(t, s) /\ m.type # t
<1>1. Append(s, m) \in Seq(Msg) /\ Count(t, s) \in Nat
  BY AtFinite
<1>2. Count(t, Append(s, m)) = 0 <=> Count(t, s) = 0 /\ m.type # t
  BY <1>1, CountAppend
<1> QED
  BY <1>1, <1>2, CountZero

\* ... and there is not either when one is taken off.
LEMMA NoTail ==
  ASSUME NEW s \in Seq(Msg), s # <<>>, NEW t
  PROVE  No(t, s) <=> No(t, Tail(s)) /\ Head(s).type # t
<1>1. Tail(s) \in Seq(Msg)
  OBVIOUS
<1>2. Count(t, Tail(s)) \in Nat
  BY <1>1, AtFinite
<1>3. Count(t, s) = 0 <=> Count(t, Tail(s)) = 0 /\ Head(s).type # t
  BY <1>2, CountTail
<1> QED
  BY <1>1, <1>3, CountZero

\* Nothing is in the empty queue.
LEMMA NoEmpty == \A t : No(t, <<>>)
BY DEF No

-----------------------------------------------------------------------------
(* Writing to sockets. *)

\* The messages of the program are messages.
LEMMA Messages ==
  /\ \A t \in Types : Note(t) \in Msg /\ Note(t).type = t
  /\ \A t \in Types, i \in Slots, d \in Data :
       Message(t, i, d) \in Msg /\ Message(t, i, d).type = t /\ Message(t, i, d).id = i
  /\ 0 \in Slots /\ 0 \in Data /\ SYMBOL_1 \in Data /\ SYMBOL_2 \in Data
  /\ Empty \in Boards /\ Empty \in Data
<1>1. 0 \in Data /\ SYMBOL_1 \in Data /\ SYMBOL_2 \in Data
  BY DEF Data, Symbols
<1>2. Empty \in Boards
  BY DEF Empty, Boards, Symbols
<1>3. Empty \in Data
  BY <1>2 DEF Data
<1> QED
  BY <1>1, <1>2, <1>3, FdsAre DEF Message, Note, Msg

\* How a game ended is what a message can hold.
LEMMA StatusIsData ==
  ASSUME NEW board \in Boards
  PROVE  check_game_status(board) \in Data /\ board \in Data
<1> DEFINE winners ==
      {s \in {SYMBOL_1, SYMBOL_2} : \E l \in Lines : check_line(board, l, s)}
<1>1. winners # {} => (CHOOSE s \in winners : TRUE) \in winners
  OBVIOUS
<1>2. check_game_status(board) \in Symbols \union {"d"}
  BY <1>1 DEF check_game_status, Symbols
<1> QED
  BY <1>2 DEF Data

\* Writing w[f] to each descriptor f of w appends w[f] to what the client of f has got.
LEMMA WriteEffect ==
  ASSUME Typed, DescriptorsRight,
         NEW w, DOMAIN w \subseteq Fds, \A f \in DOMAIN w : w[f] \in Msg, Write(w)
  PROVE  /\ inbox' \in [Clients -> Seq(Msg)] /\ server' \in {server, "killed"}
         /\ \A c \in Clients : (\A f \in DOMAIN w : conn[f] # c) => inbox'[c] = inbox[c]
         /\ \A f \in DOMAIN w : conn[f] # Nobody =>
              inbox'[conn[f]] = IF client[conn[f]] = "gone" THEN inbox[conn[f]]
                                ELSE Append(inbox[conn[f]], w[f])
<1> DEFINE open == {f \in DOMAIN w : conn[f] # Nobody}
           v == [c \in {conn[f] : f \in open} |-> w[CHOOSE f \in open : conn[f] = c]]
           closed == {c \in DOMAIN v : client[c] = "gone"}
<1>1. ASSUME NEW f \in open PROVE conn[f] \in DOMAIN v /\ v[conn[f]] = w[f]
  <2>1. (CHOOSE g \in open : conn[g] = conn[f]) = f
    BY DEF DescriptorsRight
  <2> QED BY <2>1
<1>2. ASSUME NEW c \in DOMAIN v PROVE \E f \in open : conn[f] = c /\ v[c] = w[f]
  <2>1. PICK f \in open : conn[f] = c
    OBVIOUS
  <2>2. v[conn[f]] = w[f]
    BY <1>1
  <2> HIDE DEF v
  <2> QED BY <2>1, <2>2
<1>3. \A c \in DOMAIN v : v[c] \in Msg
  BY <1>2
<1>4. Deliver(v)
  BY DEF Write
<1>5. DOMAIN v = {conn[f] : f \in open}
  OBVIOUS
<1> HIDE DEF v
<1>6. inbox' = [c \in Clients |-> IF c \in DOMAIN v \ closed THEN Append(inbox[c], v[c])
                                  ELSE inbox[c]]
  BY <1>4 DEF Deliver
<1>7. server' \in {server, "killed"}
  BY <1>4 DEF Deliver
<1>8. inbox' \in [Clients -> Seq(Msg)]
  BY <1>3, <1>6 DEF Typed, TypedServer
<1>9. \A f \in open : conn[f] \in Clients
  BY DEF Typed, TypedTable
<1>10. ASSUME NEW c \in Clients, \A f \in DOMAIN w : conn[f] # c PROVE inbox'[c] = inbox[c]
  BY <1>6, <1>5, <1>10
<1>11. ASSUME NEW f \in open
       PROVE  inbox'[conn[f]] = IF client[conn[f]] = "gone" THEN inbox[conn[f]]
                                ELSE Append(inbox[conn[f]], w[f])
  BY <1>6, <1>9, <1>1
<1> QED
  BY <1>7, <1>8, <1>10, <1>11

\* The client c gets m, if it is still there.
Gets(c, m) ==
  inbox'[c] = IF client[c] = "gone" THEN inbox[c] ELSE Append(inbox[c], m)

\* One message goes to the client of its descriptor, and to nobody else.
LEMMA WriteOne ==
  ASSUME Typed, DescriptorsRight, NEW f \in Fds, NEW m \in Msg, Write(Only(f, m))
  PROVE  /\ inbox' \in [Clients -> Seq(Msg)] /\ server' \in {server, "killed"}
         /\ \A c \in Clients : IF c = conn[f] THEN Gets(c, m) ELSE inbox'[c] = inbox[c]
<1> DEFINE w == Only(f, m)
<1>1. DOMAIN w = {f} /\ w[f] = m
  BY DEF Only
<1> HIDE DEF w
<1>2. Write(w)
  BY DEF w
<1>3. /\ inbox' \in [Clients -> Seq(Msg)] /\ server' \in {server, "killed"}
      /\ \A c \in Clients : (\A g \in DOMAIN w : conn[g] # c) => inbox'[c] = inbox[c]
      /\ \A g \in DOMAIN w : conn[g] # Nobody =>
              inbox'[conn[g]] = IF client[conn[g]] = "gone" THEN inbox[conn[g]]
                                ELSE Append(inbox[conn[g]], w[g])
  BY <1>1, <1>2, WriteEffect
<1> QED
  BY <1>1, <1>3 DEF Gets

\* Two messages go to the clients of their descriptors.
LEMMA WriteTwo ==
  ASSUME Typed, DescriptorsRight, NEW f \in Fds, NEW g \in Fds, NEW m \in Msg, NEW n \in Msg,
         Write([h \in {f, g} |-> IF h = f THEN m ELSE n])
  PROVE  /\ inbox' \in [Clients -> Seq(Msg)] /\ server' \in {server, "killed"}
         /\ \A c \in Clients : c \notin {conn[f], conn[g]} => inbox'[c] = inbox[c]
         /\ conn[f] # Nobody => Gets(conn[f], m)
         /\ f # g /\ conn[g] # Nobody => Gets(conn[g], n)
<1> DEFINE w == [h \in {f, g} |-> IF h = f THEN m ELSE n]
<1>1. DOMAIN w = {f, g} /\ w[f] = m /\ w[g] = IF f = g THEN m ELSE n
  OBVIOUS
<1> HIDE DEF w
<1>2. Write(w)
  BY DEF w
<1>3. /\ inbox' \in [Clients -> Seq(Msg)] /\ server' \in {server, "killed"}
      /\ \A c \in Clients : (\A h \in DOMAIN w : conn[h] # c) => inbox'[c] = inbox[c]
      /\ \A h \in DOMAIN w : conn[h] # Nobody =>
              inbox'[conn[h]] = IF client[conn[h]] = "gone" THEN inbox[conn[h]]
                                ELSE Append(inbox[conn[h]], w[h])
  BY SMTT(60), <1>1, <1>2, WriteEffect
<1> QED
  BY <1>1, <1>3 DEF Gets

-----------------------------------------------------------------------------
(* The types. *)

\* What any writing leaves: only clients with a descriptor get something.
Wrote ==
  /\ inbox' \in [Clients -> Seq(Msg)] /\ server' \in {server, "killed"}
  /\ \A c \in Clients : (\A f \in Fds : conn[f] # c) => inbox'[c] = inbox[c]

\* Writing to one descriptor ...
LEMMA OneWrote ==
  ASSUME Typed, DescriptorsRight, NEW f \in Fds, NEW m \in Msg, Write(Only(f, m))
  PROVE  Wrote
BY WriteOne DEF Wrote

\* ... to the client of a slot ...
LEMMA ToWrote ==
  ASSUME Typed, DescriptorsRight, NEW i \in Slots, NEW m \in Msg, Write(To(i, m))
  PROVE  Wrote
<1>1. clients[i].sockfd \in Fds
  BY DEF Typed, TypedTable, Slot
<1> QED
  BY <1>1, OneWrote DEF To

\* ... and to those of two slots is such writing.
LEMMA BothWrote ==
  ASSUME Typed, DescriptorsRight, NEW i \in Slots, NEW j \in Slots, NEW m \in Msg,
         NEW n \in Msg, Write(ToBoth(i, m, j, n))
  PROVE  Wrote
<1>1. PICK f, g \in Fds : f = clients[i].sockfd /\ g = clients[j].sockfd
  BY DEF Typed, TypedTable, Slot
<1>2. Write([h \in {f, g} |-> IF h = f THEN m ELSE n])
  BY <1>1 DEF ToBoth
<1>3. /\ inbox' \in [Clients -> Seq(Msg)] /\ server' \in {server, "killed"}
      /\ \A c \in Clients : c \notin {conn[f], conn[g]} => inbox'[c] = inbox[c]
  BY <1>2, WriteTwo
<1> QED
  BY <1>3 DEF Wrote

\* There is a descriptor for each client that waits to be accepted.
LEMMA FreeFd ==
  ASSUME Typed, DescriptorsRight, NEW c \in backlog
  PROVE  Min({g \in Fds : conn[g] = Nobody}) \in {g \in Fds : conn[g] = Nobody}
<1> DEFINE free == {g \in Fds : conn[g] = Nobody}
<1>1. ASSUME free = {} PROVE FALSE
  <2>1. conn \in [Fds -> Clients \ {c}]
    BY <1>1 DEF Typed, TypedTable, DescriptorsRight
  <2>2. c \in Clients /\ IsFiniteSet(Clients \ {c}) /\ Cardinality(Clients) \in Nat
    BY FS_RemoveElement, FS_CardinalityType DEF Typed, TypedClients
  <2>3. Cardinality(Clients \ {c}) = Cardinality(Clients) - 1
    BY <2>2, FS_RemoveElement
  <2>4. Cardinality(Clients \ {c}) < Cardinality(Fds) /\ IsFiniteSet(Fds)
    BY <2>2, <2>3, FdsAre
  <2>5. PICK f, g \in Fds : f # g /\ conn[f] = conn[g]
    BY <2>1, <2>2, <2>4, FS_PigeonHole
  <2> QED BY <2>1, <2>5 DEF DescriptorsRight
<1>2. free \in SUBSET Nat
  BY FdsAre
<1> QED
  BY <1>1, <1>2, MinMember

\* The slot that main looks for is one of the slots.
LEMMA MinSlot ==
  ASSUME NEW S \in SUBSET Slots, S # {}
  PROVE  Min(S) \in S
<1>1. S \in SUBSET Nat
  BY DEF Slots
<1> QED
  BY <1>1, MinMember

\* What Accept does, the descriptor named.
LEMMA Accepted ==
  ASSUME Typed, DescriptorsRight, Accept
  PROVE  \E c \in backlog, f \in Fds :
           /\ conn[f] = Nobody /\ conn' = [conn EXCEPT ![f] = c]
           /\ backlog' = backlog \ {c}
           /\ outbox' = [outbox EXCEPT ![c] = Tail(@)]
           /\ \/ Deliver(Only(c, Note("NAME_TAKEN"))) /\ UNCHANGED main
              \/ /\ main' = [main EXCEPT !.at = "register", !.fd = f]
                 /\ UNCHANGED <<inbox, server>>
<1>1. PICK c \in backlog : LET f == Min({g \in Fds : conn[g] = Nobody}) IN
           /\ conn' = [conn EXCEPT ![f] = c]
           /\ backlog' = backlog \ {c}
           /\ outbox' = [outbox EXCEPT ![c] = Tail(@)]
           /\ \/ Deliver(Only(c, Note("NAME_TAKEN"))) /\ UNCHANGED main
              \/ /\ main' = [main EXCEPT !.at = "register", !.fd = f]
                 /\ UNCHANGED <<inbox, server>>
  BY DEF Accept
<1>2. PICK f \in Fds : f = Min({g \in Fds : conn[g] = Nobody}) /\ conn[f] = Nobody
  BY <1>1, FreeFd
<1> QED
  BY <1>1, <1>2

\* The client that is turned away gets a message, and no other does.
LEMMA Delivered ==
  ASSUME Typed, NEW c \in Clients, NEW m \in Msg, Deliver(Only(c, m))
  PROVE  /\ inbox' \in [Clients -> Seq(Msg)] /\ server' \in {server, "killed"}
         /\ \A d \in Clients : d # c => inbox'[d] = inbox[d]
BY DEF Typed, TypedServer, Deliver, Only

\* The board that a move leaves is a board, and what the players get is a message.
LEMMA MoveMessages ==
  ASSUME Base, OnBoard
  PROVE  LET board == [boards[clients[me].board] EXCEPT ![manage.msg.data] = clients[me].symbol]
             status == check_game_status(board)
         IN  /\ board \in Boards /\ clients[me].board \in 1 .. Len(boards)
             /\ clients[me].opponent \in Slots
             /\ Message("FINISH", 0, status) \in Msg /\ Message("BOARD", 0, board) \in Msg
<1> DEFINE board == [boards[clients[me].board] EXCEPT ![manage.msg.data] = clients[me].symbol]
           status == check_game_status(board)
<1>1. me \in Slots /\ TypedTable /\ SlotsRight
  BY DEF Base, Typed, TypedThreads, Msg, me
<1>2. clients[me].board \in 1 .. Len(boards) /\ clients[me].symbol \in Symbols
      /\ clients[me].opponent \in Slots
  BY <1>1 DEF TypedTable, Slot, SlotsRight, OnBoard, NULL
<1>3. boards[clients[me].board] \in Boards
  BY <1>1, <1>2 DEF TypedTable, OnBoard
<1>4. board \in Boards
  BY <1>2, <1>3 DEF Boards
<1> HIDE DEF board
<1>5. status \in Data /\ board \in Data
  BY <1>4, StatusIsData
<1> HIDE DEF status
<1>6. Message("FINISH", 0, status) \in Msg /\ Message("BOARD", 0, board) \in Msg
  BY <1>5, Messages DEF Message, Msg, Types
<1> QED
  BY <1>2, <1>4, <1>6 DEF board, status

\* The table stays well-typed, ...
LEMMA TableTyped ==
  ASSUME Base, Step
  PROVE  TypedTable'
<1>0. TypedTable /\ TypedThreads /\ TypedClients /\ TypedServer /\ Typed /\ DescriptorsRight
  BY DEF Base, Typed
<1>1. CASE Accept
  <2>1. PICK c \in backlog, f \in Fds : conn' = [conn EXCEPT ![f] = c]
    BY <1>0, <1>1, Accepted
  <2>2. UNCHANGED <<clients, boards, watched>>
    BY <1>1 DEF Accept
  <2> QED BY <2>1, <2>2, <1>0 DEF TypedTable, TypedClients
<1>2. CASE register_client
  <2> DEFINE free == {i \in Slots : ~clients[i].taken}
  <2>1. UNCHANGED <<boards, conn, watched>>
    BY <1>2 DEF register_client
  <2>2. CASE free # {}
    <3>1. PICK i \in Slots : i = Min(free)
      BY <2>2, MinSlot
    <3>2. PICK n \in Names \union {Nobody} : n = name[conn[main.fd]]
      BY <1>0, <1>2 DEF register_client, MainAt, Base, ThreadsRight, TypedTable, TypedThreads,
                        TypedClients
    <3>3. PICK f \in Fds : f = main.fd
      BY <1>0 DEF TypedThreads
    <3>4. clients' = [clients EXCEPT ![i].name = n, ![i].taken = TRUE,
                                     ![i].sockfd = f, ![i].opponent = -1]
      BY <1>2, <2>2, <3>1, <3>2, <3>3 DEF register_client
    <3>5. clients[i] \in Slot
      BY <1>0 DEF TypedTable
    <3>6. [clients[i] EXCEPT !.name = n, !.taken = TRUE, !.sockfd = f, !.opponent = -1] \in Slot
      BY <3>5 DEF Slot
    <3>7. clients' = [clients EXCEPT ![i] =
            [clients[i] EXCEPT !.name = n, !.taken = TRUE, !.sockfd = f, !.opponent = -1]]
      BY <1>0, <3>4 DEF TypedTable, Slot
    <3>8. clients' \in [Slots -> Slot]
      BY <1>0, <3>6, <3>7 DEF TypedTable
    <3> QED BY <2>1, <3>8, <1>0 DEF TypedTable
  <2>3. CASE free = {}
    BY <2>3, <2>1, <1>0, <1>2 DEF register_client, TypedTable
  <2> QED BY <2>2, <2>3
<1>3. CASE Welcome
  BY <1>0, <1>3 DEF Welcome, TypedTable, TypedThreads
<1>4. CASE Seek
  BY <1>0, <1>4 DEF Seek, TypedTable, table
<1>5. CASE Pair
  <2>1. PICK i, j \in Slots : i = main.id /\ j = main.opponent
    BY <1>0 DEF TypedThreads
  <2>2. clients' = [clients EXCEPT ![i].opponent = j, ![j].opponent = i]
    BY <1>5, <2>1 DEF Pair
  <2>3. clients' \in [Slots -> Slot]
    BY SMTT(60), <1>0, <2>2 DEF TypedTable, Slot
  <2> QED BY <1>0, <1>5, <2>3 DEF Pair, TypedTable
<1>6. CASE SendStart
  <2>1. PICK i, j \in Slots : i = main.id /\ j = main.opponent
    BY <1>0 DEF TypedThreads
  <2>2. clients' = [clients EXCEPT ![j].symbol = SYMBOL_1, ![i].symbol = SYMBOL_2]
    BY <1>6, <2>1 DEF SendStart
  <2>3. clients' \in [Slots -> Slot]
    <3>1. \A k \in Slots, s \in Symbols : [clients[k] EXCEPT !.symbol = s] \in Slot
      BY <1>0 DEF TypedTable, Slot
    <3>2. clients' = [k \in Slots |-> IF k = i THEN [clients[k] EXCEPT !.symbol = SYMBOL_2]
                                     ELSE IF k = j THEN [clients[k] EXCEPT !.symbol = SYMBOL_1]
                                     ELSE clients[k]]
      BY <1>0, <2>2 DEF TypedTable, Slot
    <3> QED BY <1>0, <3>1, <3>2 DEF TypedTable, Symbols
  <2> QED BY <1>0, <1>6, <2>3 DEF SendStart, TypedTable
<1>7. CASE SendBoard
  <2>1. PICK i, j \in Slots : i = main.id /\ j = main.opponent
    BY <1>0 DEF TypedThreads
  <2>2. boards' \in Seq(Boards \union {<<>>})
    BY <1>0, <1>7, Messages DEF SendBoard, TypedTable
  <2>3. PICK n \in Nat : n = Len(boards')
    BY <2>2
  <2>4. clients' = [clients EXCEPT ![i].board = n, ![j].board = n]
    BY <1>7, <2>1, <2>3 DEF SendBoard
  <2>5. clients' \in [Slots -> Slot]
    <3>1. \A k \in Slots : [clients[k] EXCEPT !.board = n] \in Slot
      BY <1>0 DEF TypedTable, Slot
    <3>2. clients' = [k \in Slots |-> IF k \in {i, j} THEN [clients[k] EXCEPT !.board = n]
                                     ELSE clients[k]]
      BY <1>0, <2>4 DEF TypedTable, Slot
    <3> QED BY <1>0, <3>1, <3>2 DEF TypedTable
  <2> QED BY <1>0, <1>7, <2>2, <2>5 DEF SendBoard, TypedTable
<1>8. CASE handle_move
  <2>1. UNCHANGED <<clients, conn, watched>>
    BY <1>8 DEF handle_move
  <2>2. CASE UNCHANGED boards
    BY <1>0, <2>1, <2>2 DEF TypedTable
  <2>3. CASE boards' # boards
    <3>1. OnBoard /\ boards' = [boards EXCEPT ![clients[me].board] =
                  [boards[clients[me].board] EXCEPT ![manage.msg.data] = clients[me].symbol]]
      BY <1>8, <2>3 DEF handle_move
    <3>2. boards' \in Seq(Boards \union {<<>>})
      BY <1>0, <3>1, MoveMessages DEF TypedTable
    <3> QED BY <1>0, <2>1, <3>2 DEF TypedTable
  <2> QED BY <2>2, <2>3
<1>9. CASE handle_disconnect
  <2>1. UNCHANGED <<boards, conn, watched>>
    BY <1>9 DEF handle_disconnect
  <2>2. clients' = clients \/ clients' = Parted(me)
    BY <1>9 DEF handle_disconnect
  <2>3. clients' \in [Slots -> Slot]
    BY SMTT(60), <1>0, <2>2 DEF TypedTable, Parted, Slot
  <2> QED BY <1>0, <2>1, <2>3 DEF TypedTable
<1>10. CASE RemoveClient
  <2>1. clients' = Removed(me, manage.opponent) /\ watched' \subseteq watched
        /\ conn' = [conn EXCEPT ![clients[me].sockfd] = Nobody]
    BY <1>10 DEF RemoveClient
  <2>2. clients' \in [Slots -> Slot]
    BY ZenonT(60), <1>0, <2>1 DEF TypedTable, Removed, Slot, NULL
  <2>3. boards' = boards \/ boards' = [boards EXCEPT ![clients[me].board] = <<>>]
    BY <1>10 DEF RemoveClient
  <2>4. boards' \in Seq(Boards \union {<<>>})
    BY <1>0, <2>3 DEF TypedTable
  <2> QED BY <1>0, <2>1, <2>2, <2>4 DEF TypedTable
<1>11. CASE UNCHANGED table
  BY <1>0, <1>11 DEF TypedTable, table
<1> QED
  BY <1>1, <1>2, <1>3, <1>4, <1>5, <1>6, <1>7, <1>8, <1>9, <1>10, <1>11
  DEF Step, Threads, MainThread, ManageThread, PingThread, Client, Receive, Lock, Ping, Pinged, Connect, Read, handle_board, Sigint, EndOfFile

\* The server writes only to clients that have a descriptor, ...
LEMMA ServerWrites ==
  ASSUME Base, Threads
  PROVE  /\ TypedServer'
         /\ \A c \in Clients : (\A f \in Fds : conn'[f] # c) => inbox'[c] = inbox[c]
<1>0. TypedTable /\ TypedThreads /\ TypedClients /\ TypedServer /\ Typed /\ DescriptorsRight
  BY DEF Base, Typed
<1>a. ASSUME Wrote, conn' = conn
      PROVE  /\ TypedServer'
             /\ \A c \in Clients : (\A f \in Fds : conn'[f] # c) => inbox'[c] = inbox[c]
  BY <1>a, <1>0 DEF Wrote, TypedServer
<1>b. me \in Slots /\ main.id \in Slots /\ main.opponent \in Slots /\ main.fd \in Fds
      /\ manage.opponent \in Slots \union {-1}
  BY <1>0 DEF TypedThreads, Msg, me
<1>1. CASE Accept
  <2>1. PICK c \in backlog, f \in Fds :
          /\ conn[f] = Nobody /\ conn' = [conn EXCEPT ![f] = c]
          /\ Deliver(Only(c, Note("NAME_TAKEN"))) \/ UNCHANGED <<inbox, server>>
    BY <1>0, <1>1, Accepted
  <2>2. c \in Clients /\ conn'[f] = c
    BY <1>0, <2>1 DEF TypedClients, TypedTable
  <2>3. CASE Deliver(Only(c, Note("NAME_TAKEN")))
    <3>1. PICK m \in Msg : m = Note("NAME_TAKEN")
      BY Messages DEF Note, Message, Msg, Types
    <3>2. inbox' \in [Clients -> Seq(Msg)] /\ server' \in {server, "killed"}
          /\ \A d \in Clients : d # c => inbox'[d] = inbox[d]
      BY <1>0, <2>2, <2>3, <3>1, Delivered
    <3> QED BY <1>0, <3>2, <2>2 DEF TypedServer
  <2> QED BY <1>0, <2>1, <2>3 DEF TypedServer
<1>2. CASE register_client
  <2>1. CASE Write(Only(main.fd, Note("TOO_MANY")))
    <3>1. PICK m \in Msg : m = Note("TOO_MANY")
      BY Messages DEF Note, Message, Msg, Types
    <3> QED BY <1>0, <1>a, <1>b, <1>2, <2>1, <3>1, OneWrote DEF register_client
  <2>2. CASE UNCHANGED <<inbox, server>>
    BY <1>0, <2>2 DEF TypedServer
  <2> QED BY <1>2, <2>1, <2>2 DEF register_client
<1>3. CASE Welcome
  <2>1. PICK m \in Msg : m = Message("CONNECT", main.id, 0)
    BY <1>b, Messages DEF Note, Message, Msg, Types
  <2> QED BY <1>0, <1>a, <1>b, <1>3, <2>1, OneWrote DEF Welcome
<1>4. CASE Seek \/ Pair \/ Receive \/ Lock \/ Pinged
  <2>1. UNCHANGED <<inbox, server>>
    BY <1>4 DEF Seek, Pair, Receive, Lock, Pinged
  <2> QED BY <1>4, <1>0, <2>1 DEF TypedServer, Seek, Pair, Receive, Lock, Pinged, table
<1>5. CASE SendStart
  <2>1. PICK m, n \in Msg : m = Message("START", 0, SYMBOL_1) /\ n = Message("START", 0, SYMBOL_2)
    BY Messages DEF Note, Message, Msg, Types
  <2>2. Write(ToBoth(main.opponent, m, main.id, n)) /\ conn' = conn
    BY <1>5, <2>1 DEF SendStart
  <2> QED BY <1>0, <1>a, <1>b, <2>2, BothWrote
<1>6. CASE SendBoard
  <2>1. PICK m \in Msg : m = Message("BOARD", 0, Empty)
    BY Messages DEF Note, Message, Msg, Types
  <2>2. PICK who \in {main.id, main.opponent} : Write(To(who, m)) /\ conn' = conn
    BY <1>6, <2>1 DEF SendBoard, WhoStarts
  <2> QED BY <1>0, <1>a, <1>b, <2>2, ToWrote
<1>7. CASE handle_move
  <2> DEFINE board == [boards[clients[me].board] EXCEPT ![manage.msg.data] = clients[me].symbol]
             status == check_game_status(board)
  <2>1. conn' = conn
    BY <1>7 DEF handle_move
  <2>3. CASE Write(To(me, Note("OP_LEFT")))
    <3>1. PICK m \in Msg : m = Note("OP_LEFT")
      BY Messages DEF Note, Message, Msg, Types
    <3> QED BY <1>0, <1>a, <1>b, <2>1, <2>3, <3>1, ToWrote
  <2>4. CASE server' = "aborted" /\ UNCHANGED inbox
    BY <1>0, <2>4 DEF TypedServer
  <2>5. CASE OnBoard
    <3>1. PICK m, n \in Msg : m = Message("FINISH", 0, status) /\ n = Message("BOARD", 0, board)
      BY <2>5, MoveMessages
    <3>2. PICK opponent \in Slots : opponent = clients[me].opponent
      BY <2>5, MoveMessages
    <3>3. \/ Write(ToBoth(opponent, m, me, m)) \/ Write(To(opponent, n))
          \/ Write(To(me, Note("OP_LEFT")))
      BY <1>7, <2>5, <3>1, <3>2 DEF handle_move
    <3> QED BY <1>0, <1>a, <1>b, <2>1, <2>3, <3>2, <3>3, ToWrote, BothWrote
  <2> QED BY <1>7, <2>3, <2>4, <2>5 DEF handle_move
<1>8. CASE handle_disconnect
  <2>1. conn' = conn
    BY <1>8 DEF handle_disconnect
  <2>2. CASE UNCHANGED <<inbox, server>>
    BY <1>0, <2>2 DEF TypedServer
  <2>3. CASE manage.opponent # -1 /\ TellOpponent(manage.opponent)
    <3>1. PICK m \in Msg : m = Note("OP_LEFT")
      BY Messages DEF Note, Message, Msg, Types
    <3>2. Write(To(manage.opponent, m))
      BY <2>3, <3>1 DEF TellOpponent
    <3> QED BY <1>0, <1>a, <1>b, <2>1, <2>3, <3>2, ToWrote
  <2> QED BY <1>8, <2>2, <2>3 DEF handle_disconnect
<1>9. CASE RemoveClient
  <2>1. inbox' = inbox /\ server' \in {server, "aborted"}
    BY <1>9 DEF RemoveClient
  <2> QED BY <1>0, <2>1 DEF TypedServer
<1>10. CASE Ping
  <2>1. PICK m \in Msg : m = Note("PING")
    BY Messages DEF Note, Message, Msg, Types
  <2>2. PICK i \in Slots : Write(To(i, m)) /\ conn' = conn
    BY <1>10, <2>1 DEF Ping, table
  <2> QED BY <1>0, <1>a, <2>2, ToWrote
<1> QED
  BY <1>1, <1>2, <1>3, <1>4, <1>5, <1>6, <1>7, <1>8, <1>9, <1>10
  DEF Threads, MainThread, ManageThread, PingThread

\* ... and so do the threads, ...
LEMMA ThreadsTyped ==
  ASSUME Base, Step
  PROVE  TypedThreads'
<1>0. TypedTable /\ TypedThreads /\ TypedClients /\ TypedServer /\ Typed /\ DescriptorsRight
  BY DEF Base, Typed
<1>b. me \in Slots /\ main.id \in Slots /\ main.opponent \in Slots /\ main.fd \in Fds
      /\ manage.opponent \in Slots \union {-1}
      /\ clients[me].opponent \in Slots \union {-1}
  BY <1>0 DEF TypedThreads, Msg, me, TypedTable, Slot
<1>1. CASE Accept
  <2>1. PICK f \in Fds :
          UNCHANGED main \/ main' = [main EXCEPT !.at = "register", !.fd = f]
    BY <1>0, <1>1, Accepted
  <2> QED BY <2>1, <1>0, <1>1 DEF Accept, TypedThreads
<1>2. CASE register_client
  <2> DEFINE free == {i \in Slots : ~clients[i].taken}
  <2>1. free # {} => Min(free) \in Slots
    BY MinSlot
  <2>2. \/ MainGoes("idle")
        \/ free # {} /\ main' = [main EXCEPT !.at = "welcome", !.id = Min(free)]
    BY <1>2 DEF register_client
  <2>3. UNCHANGED <<manage, ping, mutex>>
    BY <1>2 DEF register_client
  <2> HIDE DEF free
  <2> QED BY <1>0, <2>1, <2>2, <2>3 DEF TypedThreads, MainGoes
<1>3. CASE Welcome
  BY <1>0, <1>3 DEF Welcome, TypedThreads, MainGoes
<1>4. CASE Seek
  <2>1. Others(main.id) # {} => Min(Others(main.id)) \in Slots
    BY MinSlot DEF Others, Waiting
  <2> QED BY <1>0, <1>4, <2>1 DEF Seek, TypedThreads, MainGoes
<1>5. CASE Pair
  BY <1>0, <1>5 DEF Pair, TypedThreads, MainGoes
<1>6. CASE SendStart
  BY <1>0, <1>6 DEF SendStart, TypedThreads, MainGoes
<1>7. CASE SendBoard
  BY <1>0, <1>7 DEF SendBoard, TypedThreads, MainGoes
<1>8. CASE Receive
  <2>1. PICK f \in watched :
          \/ /\ outbox[conn[f]] # <<>>
             /\ manage' = [manage EXCEPT !.at = "lock", !.msg = Head(outbox[conn[f]])]
          \/ manage' = [manage EXCEPT !.at = "lock", !.eofs = @ + 1]
    BY <1>8 DEF Receive
  <2>2. conn[f] \in Clients
    BY <1>0, <2>1 DEF Base, SlotsRight, TypedTable, Player
  <2>3. outbox[conn[f]] # <<>> => Head(outbox[conn[f]]) \in Msg
    BY <1>0, <2>2 DEF TypedClients
  <2>4. UNCHANGED <<main, ping, mutex>>
    BY <1>8 DEF Receive
  <2>5. manage' \in [at : {"idle", "lock", "MOVE", "DISCONNECT", "leaving"},
                    msg : Msg, opponent : Slots \union {-1}, eofs : Nat]
    <3>1. manage.eofs + 1 \in Nat
      BY <1>0 DEF TypedThreads
    <3>2. CASE manage' = [manage EXCEPT !.at = "lock", !.eofs = @ + 1]
      BY <1>0, <3>1, <3>2 DEF TypedThreads
    <3>3. ASSUME NEW m \in Msg, manage' = [manage EXCEPT !.at = "lock", !.msg = m]
          PROVE  manage' \in [at : {"idle", "lock", "MOVE", "DISCONNECT", "leaving"},
                              msg : Msg, opponent : Slots \union {-1}, eofs : Nat]
      BY <1>0, <3>3 DEF TypedThreads
    <3> QED BY <2>1, <2>3, <3>2, <3>3
  <2> QED BY <1>0, <2>4, <2>5 DEF TypedThreads
<1>9. CASE Lock
  <2>1. \/ ManageIdle
        \/ \E at \in {"MOVE", "DISCONNECT"} :
             manage' = [manage EXCEPT !.at = at, !.opponent = clients[me].opponent]
    BY <1>9 DEF Lock
  <2>2. mutex' = mutex \/ mutex' = [mutex EXCEPT ![me] = "manage"]
    BY <1>9 DEF Lock
  <2> QED BY ZenonT(60), <1>0, <1>b, <1>9, <2>1, <2>2 DEF Lock, TypedThreads, ManageIdle
<1>10. CASE handle_move
  BY <1>0, <1>10 DEF handle_move, TypedThreads, ManageIdle, Unlocked
<1>11. CASE handle_disconnect
  <2>1. mutex' = mutex \/ mutex' = [mutex EXCEPT ![manage.opponent] = "manage"]
    BY <1>11 DEF handle_disconnect
  <2> QED BY <1>0, <1>11, <2>1 DEF handle_disconnect, TypedThreads
<1>12. CASE RemoveClient
  BY <1>0, <1>12 DEF RemoveClient, TypedThreads, ManageIdle, Unlocked
<1>13. CASE Ping
  <2>1. PICK i \in Slots : ping' = [at |-> "waiting", slot |-> i, sent |-> ping.sent + 1]
                           /\ mutex' = [mutex EXCEPT ![i] = "ping"]
    BY <1>13 DEF Ping
  <2> QED BY <1>0, <1>13, <2>1 DEF Ping, TypedThreads
<1>14. CASE Pinged
  BY <1>0, <1>14, Messages DEF Pinged, TypedThreads, Unlocked
<1>15. CASE UNCHANGED threads
  BY <1>0, <1>15 DEF TypedThreads, threads
<1> QED
  BY <1>1, <1>2, <1>3, <1>4, <1>5, <1>6, <1>7, <1>8, <1>9, <1>10, <1>11, <1>12, <1>13, <1>14, <1>15
  DEF Step, Threads, MainThread, ManageThread, PingThread, Client, Connect, Read,
      handle_board, Sigint, EndOfFile

\* A client works on its own queues only, and has a name and a place once it has begun.
LEMMA ClientSteps ==
  ASSUME Base, NEW c \in Clients, Client(c)
  PROVE  /\ TypedClients' /\ TypedServer' /\ server' = server /\ UNCHANGED <<table, threads, mishaps>>
         /\ \A d \in Clients : d # c =>
              /\ inbox'[d] = inbox[d] /\ outbox'[d] = outbox[d] /\ client'[d] = client[d]
              /\ client_id'[d] = client_id[d]
         /\ backlog' = IF client[c] = "new" THEN backlog \union {c} ELSE backlog
         /\ client[c] = "new" => inbox' = inbox /\ outbox'[c] = <<Note("CONNECT")>>
                                 /\ client'[c] = "reading"
         /\ client[c] # "new" => client[c] # "gone" /\ client'[c] # "new"
<1>0. TypedTable /\ TypedThreads /\ TypedClients /\ TypedServer
  BY DEF Base, Typed
<1>1. PICK m \in Msg : m = Note("CONNECT")
  BY Messages DEF Note, Message, Msg, Types
<1>a. client_id[c] \in Slots /\ inbox[c] \in Seq(Msg) /\ outbox[c] \in Seq(Msg)
  BY <1>0 DEF TypedClients, TypedServer
<1>2. CASE Connect(c)
  <2>1. <<m>> \in Seq(Msg)
    OBVIOUS
  <2> QED BY <1>0, <1>1, <1>2, <2>1 DEF Connect, TypedClients, TypedServer, table, threads
<1>3. ASSUME Exits(c), Runs(c), sigints' \in Nat, UNCHANGED <<backlog, name>>
      PROVE  /\ TypedClients' /\ inbox' \in [Clients -> Seq(Msg)]
             /\ \A d \in Clients : d # c =>
                  /\ inbox'[d] = inbox[d] /\ outbox'[d] = outbox[d] /\ client'[d] = client[d]
                  /\ client_id'[d] = client_id[d]
             /\ client[c] # "new" /\ client[c] # "gone" /\ client'[c] # "new"
  <2>1. PICK n \in Msg : n = Message("DISCONNECT", client_id[c], 0)
    BY <1>a, Messages DEF Message, Msg, Types
  <2>2. outbox' \in [Clients -> Seq(Msg)]
    BY <1>0, <1>3, <2>1 DEF Exits, TypedClients
  <2>3. <<>> \in Seq(Msg)
    OBVIOUS
  <2> QED BY <1>0, <1>3, <2>2, <2>3 DEF Exits, TypedClients, TypedServer, Runs
<1>4. CASE Read(c)
  <2>1. /\ inbox[c] \in Seq(Msg) /\ inbox[c] # <<>> /\ Runs(c)
        /\ UNCHANGED <<table, threads, backlog, name, server, mishaps, sigints>>
    BY <1>0, <1>4 DEF Read, TypedServer
  <2>2. Head(inbox[c]) \in Msg /\ Tail(inbox[c]) \in Seq(Msg)
    BY <2>1
  <2>3. CASE Exits(c)
    BY <1>0, <1>3, <2>1, <2>3 DEF TypedClients, TypedServer
  <2>4. ASSUME inbox' = [inbox EXCEPT ![c] = Tail(@)],
               client' = client \/ client' = [client EXCEPT ![c] = "playing"],
               client_id' = client_id \/ client_id' = [client_id EXCEPT ![c] = Head(inbox[c]).id],
               \/ outbox' = outbox
               \/ outbox' = [outbox EXCEPT ![c] = Append(@, Message("PING", client_id[c], 0))]
        PROVE  /\ TypedClients' /\ TypedServer'
               /\ \A d \in Clients : d # c =>
                    /\ inbox'[d] = inbox[d] /\ outbox'[d] = outbox[d] /\ client'[d] = client[d]
                    /\ client_id'[d] = client_id[d]
               /\ client[c] # "new" /\ client[c] # "gone" /\ client'[c] # "new"
    <3>1. PICK n \in Msg : n = Message("PING", client_id[c], 0)
      BY <1>a, Messages DEF Message, Msg, Types
    <3>2. outbox' \in [Clients -> Seq(Msg)] /\ \A d \in Clients : d # c => outbox'[d] = outbox[d]
      <4>1. Append(outbox[c], n) \in Seq(Msg)
        BY <1>a
      <4>2. outbox' = outbox \/ outbox' = [outbox EXCEPT ![c] = Append(outbox[c], n)]
        BY <1>0, <2>4, <3>1 DEF TypedClients
      <4> QED BY ZenonT(60), <1>0, <4>1, <4>2 DEF TypedClients
    <3>3. client_id' \in [Clients -> Slots] /\ \A d \in Clients : d # c => client_id'[d] = client_id[d]
      BY <1>0, <2>2, <2>4 DEF TypedClients, Msg
    <3>4. inbox' \in [Clients -> Seq(Msg)] /\ \A d \in Clients : d # c => inbox'[d] = inbox[d]
      BY <1>0, <2>2, <2>4 DEF TypedServer
    <3>5. /\ client' \in [Clients -> {"new", "reading", "playing", "gone"}]
          /\ \A d \in Clients : d # c => client'[d] = client[d]
          /\ client[c] # "new" /\ client[c] # "gone" /\ client'[c] # "new"
      BY <1>0, <2>1, <2>4 DEF TypedClients, Runs
    <3> QED BY <1>0, <2>1, <3>2, <3>3, <3>4, <3>5 DEF TypedClients, TypedServer
  <2>5. \/ Exits(c)
        \/ /\ inbox' = [inbox EXCEPT ![c] = Tail(@)]
           /\ client' = client \/ client' = [client EXCEPT ![c] = "playing"]
           /\ client_id' = client_id \/ client_id' = [client_id EXCEPT ![c] = Head(inbox[c]).id]
           /\ \/ outbox' = outbox
              \/ outbox' = [outbox EXCEPT ![c] = Append(@, Message("PING", client_id[c], 0))]
    BY <1>4 DEF Read
  <2> QED BY <1>0, <2>1, <2>3, <2>4, <2>5 DEF Runs
<1>5. CASE handle_board(c)
  <2>1. PICK x \in Cells : outbox' = [outbox EXCEPT ![c] = Append(@, Message("MOVE", client_id[c], x))]
    BY <1>5 DEF handle_board
  <2>2. PICK n \in Msg : n = Message("MOVE", client_id[c], x)
    BY <1>0 DEF TypedClients, Message, Msg, Types, Data
  <2>3. outbox' \in [Clients -> Seq(Msg)] /\ \A d \in Clients : d # c => outbox'[d] = outbox[d]
    BY <1>0, <2>1, <2>2 DEF TypedClients
  <2>4. inbox[c] \in Seq(Msg) /\ inbox[c] # <<>>
    BY <1>0, <1>5 DEF handle_board, TypedServer
  <2>5. inbox' \in [Clients -> Seq(Msg)] /\ \A d \in Clients : d # c => inbox'[d] = inbox[d]
    <3>1. Tail(inbox[c]) \in Seq(Msg)
      BY <2>4
    <3> QED BY <1>0, <1>5, <3>1 DEF handle_board, TypedServer
  <2> QED BY <1>0, <1>5, <2>3, <2>5 DEF handle_board, TypedClients, TypedServer, Runs
<1>6. CASE Sigint(c) \/ EndOfFile(c)
  <2>1. /\ Exits(c) /\ Runs(c) /\ sigints' \in Nat
        /\ UNCHANGED <<table, threads, backlog, name, server, mishaps>>
    BY <1>0, <1>6 DEF Sigint, EndOfFile, TypedClients
  <2> QED BY <1>0, <1>3, <2>1 DEF TypedServer
<1> QED
  BY <1>2, <1>4, <1>5, <1>6 DEF Client

\* The server reads what clients have written, and does nothing else to them.
LEMMA ServerReads ==
  ASSUME Base, Threads
  PROVE  TypedClients' /\ UNCHANGED <<client, client_id, name, sigints>>
<1>0. TypedTable /\ TypedThreads /\ TypedClients /\ TypedServer /\ Typed /\ DescriptorsRight
  BY DEF Base, Typed
<1>1. CASE Accept
  <2>1. PICK c \in backlog : backlog' = backlog \ {c} /\ outbox' = [outbox EXCEPT ![c] = Tail(@)]
    BY <1>0, <1>1, Accepted
  <2>2. c \in Clients /\ outbox[c] \in Seq(Msg) /\ outbox[c] # <<>>
    BY <1>0, <2>1 DEF Base, BacklogRight, TypedClients
  <2>3. Tail(outbox[c]) \in Seq(Msg)
    BY <2>2
  <2> QED BY <1>0, <1>1, <2>1, <2>2, <2>3 DEF Accept, TypedClients
<1>2. CASE Receive
  <2>1. PICK f \in watched :
          \/ outbox[conn[f]] # <<>> /\ outbox' = [outbox EXCEPT ![conn[f]] = Tail(@)]
          \/ outbox' = outbox
    BY <1>2 DEF Receive
  <2>2. conn[f] \in Clients
    BY <1>0, <2>1 DEF Base, SlotsRight, TypedTable, Player
  <2>3. outbox[conn[f]] # <<>> => Tail(outbox[conn[f]]) \in Seq(Msg)
    BY <1>0, <2>2 DEF TypedClients
  <2>4. outbox' \in [Clients -> Seq(Msg)]
    <3>1. PICK c \in Clients : c = conn[f]
      BY <2>2
    <3>2. outbox' = outbox \/ (outbox[c] # <<>> /\ outbox' = [outbox EXCEPT ![c] = Tail(outbox[c])])
      BY <1>0, <2>1, <3>1 DEF TypedClients
    <3> QED BY <1>0, <2>3, <3>1, <3>2 DEF TypedClients
  <2> QED BY <1>0, <1>2, <2>4 DEF Receive, TypedClients
<1>3. CASE UNCHANGED processes
  BY <1>0, <1>3 DEF processes, TypedClients
<1> QED
  BY <1>1, <1>2, <1>3
  DEF Threads, MainThread, ManageThread, PingThread, register_client, Welcome, Seek, Pair,
      SendStart, SendBoard, Lock, handle_move, handle_disconnect, RemoveClient, Ping, Pinged

\* All variables keep their types.
LEMMA TypedStep ==
  ASSUME Base, Step
  PROVE  Typed'
<1>1. CASE Threads
  BY <1>1, TableTyped, ThreadsTyped, ServerReads, ServerWrites DEF Typed
<1>2. ASSUME NEW c \in Clients, Client(c) PROVE Typed'
  BY <1>2, TableTyped, ThreadsTyped, ClientSteps DEF Typed
<1> QED
  BY <1>1, <1>2 DEF Step

-----------------------------------------------------------------------------
(* Who has which slot and descriptor. *)

\* A descriptor is given to a client that has just been accepted, or taken from one
\* that leaves.
LEMMA ConnSteps ==
  ASSUME Base, Step
  PROVE  \/ conn' = conn /\ ~Accept
         \/ /\ Accept
            /\ \E c \in backlog, f \in Fds :
                 /\ conn[f] = Nobody /\ conn' = [conn EXCEPT ![f] = c]
                 /\ backlog' = backlog \ {c}
         \/ RemoveClient /\ conn' = [conn EXCEPT ![clients[me].sockfd] = Nobody]
<1>0. Typed /\ DescriptorsRight
  BY DEF Base
<1>1. CASE Accept
  <2>1. PICK c \in backlog, f \in Fds :
                 /\ conn[f] = Nobody /\ conn' = [conn EXCEPT ![f] = c]
                 /\ backlog' = backlog \ {c}
    BY <1>0, <1>1, Accepted
  <2> QED BY <1>1, <2>1
<1>2. CASE RemoveClient
  BY <1>2 DEF RemoveClient
<1>3. ASSUME ~Accept, ~RemoveClient PROVE conn' = conn
  BY <1>3 DEF Step, Threads, MainThread, ManageThread, PingThread, register_client, Welcome,
      Seek, Pair, SendStart, SendBoard, Lock, Receive, handle_move, handle_disconnect, Ping,
      Pinged, Client, Connect, Read, handle_board, Sigint, EndOfFile, table
<1> QED
  BY <1>1, <1>2, <1>3

\* Only a client that connects joins the queue, and it has no descriptor.
LEMMA BacklogSteps ==
  ASSUME Base, Step
  PROVE  /\ \A c \in backlog' : c \in backlog \/ client[c] = "new"
         /\ \A c \in Clients : client'[c] = "new" => client[c] = "new" /\ c \notin backlog'
                                                    /\ inbox'[c] = inbox[c]
<1>0. Typed /\ BacklogRight /\ DescriptorsRight
  BY DEF Base
<1>1. CASE Threads
  <2>1. UNCHANGED client /\ TypedTable'
    BY <1>1, ServerReads, TableTyped DEF Step
  <2>2. backlog' \subseteq backlog
    BY <1>0, <1>1 DEF Threads, MainThread, ManageThread, PingThread, Accept, register_client,
      Welcome, Seek, Pair, SendStart, SendBoard, Lock, Receive, handle_move, handle_disconnect,
      RemoveClient, Ping, Pinged, processes
  <2>3. ASSUME NEW c \in Clients, client[c] = "new", NEW f \in Fds PROVE conn'[f] # c
    BY <1>0, <1>1, <2>3, ConnSteps
    DEF DescriptorsRight, BacklogRight, Typed, TypedTable, TypedClients, Step
  <2> QED BY <1>0, <1>1, <2>1, <2>2, <2>3, ServerWrites DEF BacklogRight
<1>2. ASSUME NEW c \in Clients, Client(c)
      PROVE  /\ \A d \in backlog' : d \in backlog \/ client[d] = "new"
             /\ \A d \in Clients : client'[d] = "new" => client[d] = "new" /\ d \notin backlog'
                                                        /\ inbox'[d] = inbox[d]
  BY <1>0, <1>2, ClientSteps DEF BacklogRight
<1> QED
  BY <1>1, <1>2 DEF Step

\* No step gives a client a second descriptor.
LEMMA DescriptorsStep ==
  ASSUME Base, Step
  PROVE  DescriptorsRight'
<1>0. TypedTable /\ TypedClients /\ DescriptorsRight /\ BacklogRight
  BY DEF Base, Typed
<1>a. TypedTable' /\ TypedClients'
  BY TypedStep DEF Typed
<1>1. \A c \in Clients : client'[c] = "new" => client[c] = "new"
  BY BacklogSteps
<1>2. \A c \in backlog' : c \in backlog \/ client[c] = "new"
  BY BacklogSteps
<1>3. CASE conn' = conn
  BY <1>0, <1>a, <1>1, <1>2, <1>3 DEF DescriptorsRight, TypedTable, TypedClients
<1>4. ASSUME NEW c \in backlog, NEW f \in Fds, conn[f] = Nobody, conn' = [conn EXCEPT ![f] = c],
             backlog' = backlog \ {c}
      PROVE  DescriptorsRight'
  <2>1. c \in Clients /\ client[c] # "new"
    BY <1>0, <1>4 DEF TypedClients, BacklogRight
  <2> QED BY <1>0, <1>1, <1>4, <2>1 DEF DescriptorsRight, TypedTable
<1>5. ASSUME NEW f, conn' = [conn EXCEPT ![f] = Nobody]
      PROVE  DescriptorsRight'
  BY <1>0, <1>a, <1>1, <1>2, <1>5 DEF DescriptorsRight, TypedTable, TypedClients
<1> QED
  BY <1>3, <1>4, <1>5, ConnSteps

\* A client that waits to be accepted goes on waiting with nothing but its name sent.
LEMMA BacklogStep ==
  ASSUME Base, Step
  PROVE  BacklogRight'
<1>0. TypedTable /\ TypedClients /\ TypedServer /\ DescriptorsRight /\ BacklogRight /\ DescriptorsRight'
      /\ TypedClients'
  BY DescriptorsStep, TypedStep DEF Base, Typed
<1>1. ASSUME NEW c \in backlog' 
      PROVE  /\ client'[c] # "playing" /\ inbox'[c] = <<>>
             /\ outbox'[c] # <<>> /\ No("MOVE", outbox'[c])
  <2>0. c \in Clients /\ \A f \in Fds : conn'[f] # c
    BY <1>0, <1>1 DEF DescriptorsRight, TypedClients
  <2>1. CASE Threads
    <3>1. UNCHANGED client /\ inbox'[c] = inbox[c] /\ c \in backlog
      <4>1. backlog' \subseteq backlog
        BY <2>1 DEF Threads, MainThread, ManageThread, PingThread, Accept, register_client,
          Welcome, Seek, Pair, SendStart, SendBoard, Lock, Receive, handle_move,
          handle_disconnect, RemoveClient, Ping, Pinged, processes
      <4> QED BY <1>1, <2>0, <2>1, <4>1, ServerReads, ServerWrites
    <3>2. outbox'[c] = outbox[c]
      <4>1. CASE Accept
        <5>1. PICK d \in backlog : backlog' = backlog \ {d} /\ outbox' = [outbox EXCEPT ![d] = Tail(@)]
          BY <1>0, <4>1, Accepted DEF Base
        <5> QED BY <1>0, <1>1, <2>0, <5>1 DEF TypedClients
      <4>2. CASE Receive
        <5>1. PICK f \in watched :
                outbox' = [outbox EXCEPT ![conn[f]] = Tail(@)] \/ outbox' = outbox
          BY <4>2 DEF Receive
        <5>2. conn[f] # c
          BY <1>0, <3>1, <5>1 DEF DescriptorsRight, TypedTable
        <5> QED BY <1>0, <2>0, <5>1, <5>2 DEF TypedClients
      <4>3. CASE UNCHANGED processes
        BY <4>3 DEF processes
      <4> QED BY <2>1, <4>1, <4>2, <4>3 DEF Threads, MainThread, ManageThread, PingThread,
            register_client, Welcome, Seek, Pair, SendStart, SendBoard, Lock, handle_move,
            handle_disconnect, RemoveClient, Ping, Pinged
    <3> QED BY <1>0, <3>1, <3>2 DEF BacklogRight
  <2>2. ASSUME NEW d \in Clients, Client(d), d # c
        PROVE  /\ client'[c] # "playing" /\ inbox'[c] = <<>>
               /\ outbox'[c] # <<>> /\ No("MOVE", outbox'[c])
    <3>1. c \in backlog
      BY <1>1, <2>0, <2>2, ClientSteps
    <3> QED BY <1>0, <2>0, <2>2, <3>1, ClientSteps DEF BacklogRight
  <2>3. CASE Connect(c)
    <3>1. client[c] = "new" /\ client'[c] = "reading" /\ inbox'[c] = inbox[c]
          /\ outbox'[c] = <<Note("CONNECT")>>
      BY <1>0, <2>0, <2>3 DEF Connect, TypedClients
    <3>2. No("MOVE", <<Note("CONNECT")>>)
      BY DEF No, Note, Message
    <3> QED BY <1>0, <2>0, <3>1, <3>2 DEF BacklogRight
  <2>4. CASE Sigint(c) \/ EndOfFile(c)
    <3>1. Runs(c) /\ Exits(c) /\ backlog' = backlog
      BY <2>4 DEF Sigint, EndOfFile
    <3>a. client_id[c] \in Slots
      BY <1>0, <2>0 DEF TypedClients
    <3>b. PICK n \in Msg : n = Message("DISCONNECT", client_id[c], 0)
      BY <3>a, Messages DEF Message, Msg, Types
    <3>2. n.type # "MOVE"
      BY <3>b DEF Message
    <3>3. outbox[c] \in Seq(Msg) /\ outbox'[c] = Append(outbox[c], n) /\ inbox'[c] = <<>>
          /\ client'[c] = "gone"
      BY <1>0, <2>0, <3>1, <3>b DEF Exits, TypedClients, TypedServer
    <3>4. Append(outbox[c], n) # <<>>
      BY <3>3
    <3>5. No("MOVE", outbox[c])
      BY <1>0, <1>1, <3>1 DEF BacklogRight
    <3> QED BY <3>2, <3>3, <3>4, <3>5, NoAppend
  <2>5. CASE Read(c) \/ handle_board(c)
    <3>1. inbox[c] # <<>> /\ Runs(c) /\ c \in backlog
      BY <1>1, <2>5 DEF Read, handle_board
    <3> QED BY <1>0, <3>1 DEF BacklogRight
  <2> QED BY <2>1, <2>2, <2>3, <2>4, <2>5 DEF Step, Client
<1> QED
  BY <1>0, <1>1, BacklogSteps DEF BacklogRight

\* The slots that one step leaves as they are.
SameSlot(k) == clients'[k] = clients[k]
SameClient(k) ==
  clients'[k].taken = clients[k].taken /\ clients'[k].sockfd = clients[k].sockfd

\* What is left of the opponents i and j when they part.
PartedFrom(s, i, j) ==
  \A k \in Slots :
    /\ s[k].taken = clients[k].taken /\ s[k].board = clients[k].board
    /\ s[k].sockfd = clients[k].sockfd /\ s[k].symbol = clients[k].symbol
    /\ s[k].opponent = IF k \in {i, j} THEN -1 ELSE clients[k].opponent

\* Parting two opponents changes nothing else of the array.
LEMMA PartedIs ==
  ASSUME TypedTable, NEW i \in Slots
  PROVE  PartedFrom(Parted(i), i, clients[i].opponent)
<1>1. PICK j : j = clients[i].opponent
  OBVIOUS
<1> DEFINE s == [clients EXCEPT ![j].opponent = -1]
           t == [s EXCEPT ![i].opponent = -1]
<1>2. \A k \in Slots : clients[k] \in Slot
  BY DEF TypedTable
<1>3. s = [k \in Slots |-> IF k = j THEN [clients[k] EXCEPT !.opponent = -1] ELSE clients[k]]
  BY DEF TypedTable
<1>4. PartedFrom(s, j, j) /\ s \in [Slots -> Slot]
  BY ZenonT(60), <1>2, <1>3 DEF PartedFrom, Slot
<1> HIDE DEF s
<1>5. t = [k \in Slots |-> IF k = i THEN [s[k] EXCEPT !.opponent = -1] ELSE s[k]]
  BY <1>4
<1>6. PartedFrom(t, i, j)
  BY <1>4, <1>5 DEF PartedFrom, Slot
<1>7. Parted(i) = t
  BY <1>1 DEF Parted, s
<1> QED
  BY <1>1, <1>6, <1>7

\* A slot is given to the client that has been accepted last, ...
LEMMA Registered ==
  ASSUME Base, register_client
  PROVE  \/ UNCHANGED clients /\ Write(Only(main.fd, Note("TOO_MANY"))) /\ MainGoes("idle")
         \/ \E i \in Slots :
              /\ ~clients[i].taken /\ UNCHANGED <<inbox, server>>
              /\ main' = [main EXCEPT !.at = "welcome", !.id = i]
              /\ clients'[i].taken /\ clients'[i].sockfd = main.fd
              /\ clients'[i].opponent = -1 /\ clients'[i].board = clients[i].board
              /\ \A k \in Slots \ {i} : SameSlot(k)
<1> DEFINE free == {i \in Slots : ~clients[i].taken}
<1>1. CASE free = {}
  BY <1>1 DEF register_client
<1>2. CASE free # {}
  <2>1. PICK i \in Slots : i = Min(free) /\ ~clients[i].taken
    BY <1>2, MinSlot
  <2>2. /\ clients' = [clients EXCEPT ![i].name = name[conn[main.fd]], ![i].taken = TRUE,
                                      ![i].sockfd = main.fd, ![i].opponent = -1]
        /\ main' = [main EXCEPT !.at = "welcome", !.id = i] /\ UNCHANGED <<inbox, server>>
    BY <1>2, <2>1 DEF register_client
  <2>3. /\ clients'[i].taken /\ clients'[i].sockfd = main.fd
        /\ clients'[i].opponent = -1 /\ clients'[i].board = clients[i].board
        /\ \A k \in Slots \ {i} : SameSlot(k)
    BY <2>2 DEF Base, Typed, TypedTable, Slot, SameSlot
  <2> QED BY <2>1, <2>2, <2>3
<1> QED
  BY <1>1, <1>2

\* ... taken from a client that leaves, and left alone by all other steps.
LEMMA SlotSteps ==
  ASSUME Base, Step
  PROVE  \/ register_client
         \/ /\ RemoveClient /\ ~clients'[me].taken /\ \A k \in Slots \ {me} : SameClient(k)
            /\ \A k \in Slots : clients'[k].sockfd = clients[k].sockfd
                                /\ clients'[k].opponent = clients[k].opponent
                                /\ clients'[k].board \in {clients[k].board, NULL}
         \/ \A k \in Slots : SameClient(k)
<1>0. TypedTable /\ TypedThreads
  BY DEF Base, Typed
<1>b. me \in Slots /\ main.id \in Slots /\ main.opponent \in Slots
      /\ manage.opponent \in Slots \union {-1}
  BY <1>0 DEF TypedThreads, Msg, me
<1>1. CASE RemoveClient
  <2>1. clients' = Removed(me, manage.opponent)
    BY <1>1 DEF RemoveClient
  <2>2. \A k \in Slots : clients[k] \in Slot
    BY <1>0 DEF TypedTable
  <2>3. /\ ~clients'[me].taken /\ \A k \in Slots \ {me} : SameClient(k)
        /\ \A k \in Slots : clients'[k].sockfd = clients[k].sockfd
                            /\ clients'[k].opponent = clients[k].opponent
                            /\ clients'[k].board \in {clients[k].board, NULL}
    BY <1>b, <2>1, <2>2 DEF Removed, Slot, SameClient
  <2> QED BY <1>1, <2>3
<1>2. CASE handle_disconnect
  <2>1. UNCHANGED clients \/ clients' = Parted(me)
    BY <1>2 DEF handle_disconnect
  <2> QED BY SMTT(60), <1>0, <2>1 DEF Parted, TypedTable, Slot, SameClient
<1>3. CASE Pair
  BY SMTT(60), <1>0, <1>b, <1>3 DEF Pair, TypedTable, Slot, SameClient
<1>4. CASE SendStart
  BY <1>0, <1>b, <1>4 DEF SendStart, TypedTable, Slot, SameClient
<1>5. CASE SendBoard
  <2>1. PICK n : clients' = [clients EXCEPT ![main.id].board = n, ![main.opponent].board = n]
    BY <1>5 DEF SendBoard
  <2> QED BY <1>0, <1>b, <2>1 DEF TypedTable, Slot, SameClient
<1>6. CASE UNCHANGED clients
  BY <1>6 DEF SameClient
<1> QED
  BY <1>1, <1>2, <1>3, <1>4, <1>5, <1>6
  DEF Step, Threads, MainThread, ManageThread, PingThread, Accept, Welcome, Seek, Lock, Receive,
      handle_move, Ping, Pinged, Client, Connect, Read, handle_board, Sigint,
      EndOfFile, table

\* A client keeps its descriptor as long as it has a slot.
LEMMA PlayersStay ==
  ASSUME Base, Step, NEW i \in Slots, clients[i].taken, clients'[i].taken
  PROVE  SameClient(i) /\ conn'[clients[i].sockfd] = conn[clients[i].sockfd]
<1>0. TypedTable /\ TypedThreads /\ SlotsRight
  BY DEF Base, Typed
<1>1. SameClient(i)
  <2>1. CASE register_client
    BY <2>1, Registered DEF SameSlot, SameClient
  <2> QED BY <2>1, SlotSteps
<1>2. clients[i].sockfd \in Fds /\ (Exiting \/ conn[clients[i].sockfd] # Nobody)
  BY <1>0 DEF TypedTable, Slot, SlotsRight, Player
<1>c. Accept => ~Exiting
  BY DEF Accept, MainAt, Exiting
<1>3. CASE RemoveClient
  <2>1. i # me /\ me \in Slots /\ clients[me].taken
    <3>1. ~clients'[me].taken \/ clients' = Removed(me, manage.opponent)
      BY <1>3 DEF RemoveClient
    <3>2. me \in Slots
      BY <1>0 DEF TypedThreads, Msg, me
    <3> QED BY <1>0, <1>3, <3>1, <3>2
        DEF Removed, Base, ThreadsRight, RemoveClient, ManageAt, TypedTable, Slot
  <2>2. clients[me].sockfd # clients[i].sockfd
    BY <1>0, <2>1 DEF SlotsRight
  <2>3. conn' = [conn EXCEPT ![clients[me].sockfd] = Nobody]
    BY <1>3 DEF RemoveClient
  <2> QED BY <1>0, <1>1, <1>2, <2>2, <2>3 DEF TypedTable
<1>4. CASE ~RemoveClient
  BY <1>0, <1>1, <1>2, <1>c, <1>4, ConnSteps DEF TypedTable
<1> QED
  BY <1>3, <1>4

\* None of these steps begins the exit, or ends it.
LEMMA ExitingStays ==
  ASSUME Base, Step
  PROVE  Exiting' <=> Exiting
<1>0. TypedThreads /\ Typed /\ DescriptorsRight
  BY DEF Base, Typed
<1>1. CASE Accept
  BY <1>0, <1>1, Accepted DEF Accept, MainAt, TypedThreads, Exiting
<1>2. CASE register_client
  BY <1>0, <1>2 DEF register_client, MainAt, MainGoes, TypedThreads, Exiting
<1>3. CASE Welcome \/ Seek \/ Pair \/ SendStart \/ SendBoard
  BY <1>0, <1>3 DEF Welcome, Seek, Pair, SendStart, SendBoard, MainAt, MainGoes, TypedThreads,
     Exiting
<1>4. CASE UNCHANGED main
  BY <1>4 DEF Exiting
<1> QED
  BY <1>1, <1>2, <1>3, <1>4 DEF Step, Threads, MainThread, ManageThread, PingThread, Lock,
     Receive, handle_move, handle_disconnect, RemoveClient, Ping, Pinged, Client, Connect, Read,
     handle_board, Sigint, EndOfFile, threads

\* A descriptor that is watched is in use.
LEMMA WatchedStep ==
  ASSUME Base, Step
  PROVE  \A f \in watched' : conn'[f] # Nobody
<1>0. TypedTable /\ TypedClients /\ SlotsRight
  BY DEF Base, Typed
<1>1. CASE RemoveClient
  BY <1>0, <1>1 DEF RemoveClient, SlotsRight, TypedTable
<1>2. CASE Welcome
  BY <1>0, <1>2 DEF Welcome, SlotsRight
<1>3. ASSUME ~RemoveClient, ~Welcome PROVE watched' = watched
  BY <1>3 DEF Step, Threads, MainThread, ManageThread, PingThread, Accept, register_client, Seek,
     Pair, SendStart, SendBoard, handle_move, handle_disconnect, Lock, Receive, Ping, Pinged,
     Client, Connect, Read, handle_board, Sigint, EndOfFile, table
<1>4. ASSUME ~RemoveClient, NEW f \in watched PROVE conn'[f] # Nobody
  <2>1. conn[f] # Nobody /\ f \in Fds
    BY <1>0, <1>4 DEF SlotsRight, TypedTable
  <2>2. \A c \in backlog : c # Nobody
    BY <1>0 DEF TypedClients
  <2> QED BY <1>0, <1>4, <2>1, <2>2, ConnSteps DEF TypedTable
<1> QED
  BY <1>1, <1>2, <1>3, <1>4

\* No slot has a descriptor of another.
LEMMA SlotsStep ==
  ASSUME Base, Step
  PROVE  SlotsRight'
<1>0. TypedTable /\ TypedThreads /\ SlotsRight /\ ThreadsRight /\ TypedTable'
  BY TypedStep DEF Base, Typed
<1>b. me \in Slots /\ main.id \in Slots /\ main.opponent \in Slots /\ main.fd \in Fds
  BY <1>0 DEF TypedThreads, Msg, me
<1>x. Exiting' <=> Exiting
  BY ExitingStays
<1>w. \A f \in watched' : conn'[f] # Nobody
  BY WatchedStep
<1>1. \A i \in Slots : clients'[i].opponent # i /\ clients'[i].board <= Len(boards')
  <2>0. \A i \in Slots : clients[i] \in Slot /\ clients[i].board <= Len(boards)
                         /\ clients[i].opponent # i
    BY <1>0 DEF TypedTable, SlotsRight
  <2>1. CASE register_client
    <3>1. boards' = boards
      BY <2>1 DEF register_client
    <3>2. CASE UNCHANGED clients
      BY <2>0, <3>1, <3>2
    <3>3. ASSUME NEW i \in Slots, clients'[i].opponent = -1,
                 clients'[i].board = clients[i].board, \A k \in Slots \ {i} : SameSlot(k)
          PROVE  \A k \in Slots : clients'[k].opponent # k /\ clients'[k].board <= Len(boards')
      BY <2>0, <3>1, <3>3, FdsAre DEF SameSlot
    <3> QED BY <2>1, <3>2, <3>3, Registered
  <2>2. CASE RemoveClient
    <3>1. Len(boards') = Len(boards)
      BY <1>0, <2>2 DEF RemoveClient, TypedTable
    <3>2. \A i \in Slots : clients'[i].opponent = clients[i].opponent
                           /\ clients'[i].board \in {clients[i].board, NULL}
      BY ZenonT(60), <1>0, <1>b, <2>0, <2>2 DEF RemoveClient, Removed, Slot
    <3>3. Len(boards) \in Nat
      BY <1>0 DEF TypedTable
    <3> QED BY <2>0, <3>1, <3>2, <3>3 DEF NULL
  <2>3. CASE handle_disconnect
    <3>1. UNCHANGED clients \/ clients' = Parted(me)
      BY <2>3 DEF handle_disconnect
    <3>2. boards' = boards
      BY <2>3 DEF handle_disconnect
    <3>3. \A i \in Slots : clients'[i].opponent \in {clients[i].opponent, -1}
                           /\ clients'[i].board = clients[i].board
      BY <1>0, <1>b, <3>1, PartedIs DEF PartedFrom
    <3> QED BY <2>0, <3>2, <3>3 DEF Slots
  <2>4. CASE Pair
    <3>1. clients' = [clients EXCEPT ![main.id].opponent = main.opponent,
                                     ![main.opponent].opponent = main.id]
          /\ boards' = boards /\ main.id # main.opponent
      BY <1>0, <2>4 DEF Pair, ThreadsRight, MainAt
    <3> QED BY SMTT(60), <1>0, <1>b, <2>0, <3>1 DEF TypedTable, Slot
  <2>5. CASE SendStart
    BY <1>0, <1>b, <2>0, <2>5 DEF SendStart, TypedTable, Slot
  <2>6. CASE SendBoard
    <3>1. Len(boards) \in Nat /\ Len(boards') = Len(boards) + 1
      BY <1>0, <2>6 DEF SendBoard, TypedTable
    <3>2. PICK n \in Nat : n = Len(boards')
      BY <3>1
    <3>3. clients' = [clients EXCEPT ![main.id].board = n, ![main.opponent].board = n]
      BY <2>6, <3>2 DEF SendBoard
    <3>4. \A i \in Slots : clients'[i].opponent = clients[i].opponent
                           /\ clients'[i].board \in {clients[i].board, n}
      BY SMTT(60), <1>0, <1>b, <2>0, <3>3 DEF TypedTable, Slot
    <3>5. \A i \in Slots : clients[i].board \in Nat
      BY <2>0 DEF Slot
    <3> HIDE <2>6
    <3>6. ASSUME NEW i \in Slots PROVE clients'[i].board <= Len(boards')
      <4>1. clients[i].board <= n /\ n <= n
        BY <2>0, <3>1, <3>2, <3>5
      <4> QED BY <3>2, <3>4, <4>1
    <3> QED BY <2>0, <3>4, <3>6
  <2>7. CASE handle_move
    <3>1. clients' = clients /\ Len(boards') = Len(boards)
      <4>1. CASE boards' = boards
        BY <2>7, <4>1 DEF handle_move
      <4>2. CASE boards' # boards
        <5>1. OnBoard /\ clients' = clients /\ boards' = [boards EXCEPT ![clients[me].board] =
                  [boards[clients[me].board] EXCEPT ![manage.msg.data] = clients[me].symbol]]
          BY <2>7, <4>2 DEF handle_move
        <5> QED BY <1>0, <5>1, MoveMessages DEF TypedTable
      <4> QED BY <4>1, <4>2
    <3> QED BY <2>0, <3>1
  <2>8. CASE UNCHANGED <<clients, boards>>
    BY <2>0, <2>8
  <2> QED BY <2>1, <2>2, <2>3, <2>4, <2>5, <2>6, <2>7, <2>8
        DEF Step, Threads, MainThread, ManageThread, PingThread, Accept, Welcome, Seek, Lock,
            Receive, Ping, Pinged, Client, Connect, Read, handle_board, Sigint,
            EndOfFile, table
<1>2. CASE register_client
  <2>1. conn' = conn /\ watched' = watched /\ conn[main.fd] # Nobody
        /\ \A i \in Slots : clients[i].taken => clients[i].sockfd # main.fd
    BY <1>0, <1>2 DEF register_client, ThreadsRight, MainAt
  <2>2. CASE UNCHANGED clients
    BY <1>0, <1>1, <1>x, <1>w, <2>1, <2>2 DEF SlotsRight, Player
  <2>3. ASSUME NEW i \in Slots, ~clients[i].taken, clients'[i].taken,
               clients'[i].sockfd = main.fd, \A k \in Slots \ {i} : SameSlot(k)
        PROVE  SlotsRight'
    <3>1. /\ \A k \in Slots : clients'[k].taken /\ ~Exiting' => conn'[clients'[k].sockfd] # Nobody
          /\ \A j, k \in Slots : clients'[j].taken /\ clients'[k].taken
               /\ clients'[j].sockfd = clients'[k].sockfd => j = k
      BY <1>0, <1>x, <2>1, <2>3 DEF SlotsRight, Player, SameSlot
    <3>2. \A f \in watched' : \E k \in Slots : clients'[k].taken /\ clients'[k].sockfd = f
      BY <1>0, <2>1, <2>3 DEF SlotsRight, SameSlot
    <3> QED BY <1>1, <1>w, <3>1, <3>2 DEF SlotsRight, Player
  <2> QED BY <1>2, <2>2, <2>3, Registered
<1>3. CASE ~register_client
  <2>1. \A i \in Slots : clients'[i].taken => clients[i].taken
    BY <1>0, <1>3, SlotSteps DEF SameClient
  <2>2. \A i \in Slots : clients'[i].taken => clients'[i].sockfd = clients[i].sockfd
                           /\ conn'[clients[i].sockfd] = conn[clients[i].sockfd]
    BY <2>1, PlayersStay DEF SameClient
  <2>3. ASSUME NEW f \in watched'
        PROVE  \E i \in Slots : clients'[i].taken /\ clients'[i].sockfd = f
    <3>1. CASE RemoveClient
      <4>1. f \in watched /\ f # clients[me].sockfd
        BY <2>3, <3>1 DEF RemoveClient
      <4>2. PICK i \in Slots : clients[i].taken /\ clients[i].sockfd = f
        BY <1>0, <4>1 DEF SlotsRight
      <4>3. clients'[i].taken /\ clients'[i].sockfd = f
        BY <1>0, <1>3, <3>1, <4>1, <4>2, SlotSteps DEF SameClient
      <4> QED BY <4>3
    <3>2. CASE ~RemoveClient /\ f \in watched
      BY <1>0, <1>3, <3>2, SlotSteps DEF SameClient, SlotsRight
    <3>3. CASE Welcome /\ f = main.fd /\ conn[main.fd] # Nobody
      <4>1. clients' = clients /\ clients[main.id].taken /\ clients[main.id].sockfd = main.fd
        BY <1>0, <3>3 DEF Welcome, ThreadsRight, MainAt
      <4> QED BY <1>b, <3>3, <4>1
    <3>4. watched' = watched \/ Welcome \/ RemoveClient
      BY DEF Step, Threads, MainThread, ManageThread, PingThread, Accept, register_client, Seek,
            Pair, SendStart, SendBoard, handle_move, handle_disconnect, Lock,
            Receive, Ping, Pinged, Client, Connect, Read, handle_board, Sigint,
            EndOfFile, table
    <3>5. Welcome => \/ f \in watched
                     \/ f = main.fd /\ conn[main.fd] # Nobody
      BY <2>3 DEF Welcome
    <3> QED BY <2>3, <3>1, <3>2, <3>3, <3>4, <3>5
  <2> QED BY <1>0, <1>1, <1>x, <1>w, <2>1, <2>2, <2>3 DEF SlotsRight, Player
<1> QED
  BY <1>2, <1>3

\* main knows the client that it is at, manage the one that leaves.
LEMMA ThreadsStep ==
  ASSUME Base, Step
  PROVE  ThreadsRight'
<1>0. TypedTable /\ TypedThreads /\ SlotsRight /\ ThreadsRight /\ Typed /\ DescriptorsRight
  BY DEF Base, Typed
<1>b. me \in Slots /\ main.id \in Slots /\ main.opponent \in Slots /\ main.fd \in Fds
      /\ manage.opponent \in Slots \union {-1}
  BY <1>0 DEF TypedThreads, Msg, me
<1>m. ASSUME UNCHANGED manage, ~RemoveClient
      PROVE  manage'.at \in {"DISCONNECT", "leaving"} => clients'[me'].taken
  <2>1. CASE register_client
    BY <1>0, <1>b, <1>m, <2>1, Registered DEF ThreadsRight, me, SameSlot
  <2>2. CASE ~register_client
    BY <1>0, <1>b, <1>m, <2>2, SlotSteps DEF ThreadsRight, me, SameClient
  <2> QED BY <2>1, <2>2
<1>1. CASE MainThread
  <2>0. UNCHANGED manage /\ ~RemoveClient
    <3>1. UNCHANGED manage
      BY <1>1 DEF MainThread, Accept, register_client, Welcome, Seek, Pair, SendStart, SendBoard
    <3>2. RemoveClient => manage'.at # manage.at
      BY <1>0 DEF RemoveClient, ManageIdle, ManageAt, TypedThreads
    <3> QED BY <3>1, <3>2
  <2>1. CASE Accept
    <3>1. PICK c \in backlog, f \in Fds :
             /\ conn[f] = Nobody /\ conn' = [conn EXCEPT ![f] = c]
             /\ UNCHANGED main \/ main' = [main EXCEPT !.at = "register", !.fd = f]
      BY <1>0, <2>1, Accepted
    <3>2. main.at = "idle" /\ c # Nobody /\ ~Exiting
      BY <1>0, <2>1, <3>1 DEF Accept, MainAt, Typed, TypedClients, Exiting
    <3>3. clients' = clients
      BY <2>1 DEF Accept
    <3>4. main'.at = "register" =>
           /\ conn'[main'.fd] # Nobody
           /\ \A i \in Slots : clients'[i].taken => clients'[i].sockfd # main'.fd
      <4>1. UNCHANGED main => main'.at # "register"
        BY <3>2
      <4>2. ASSUME main' = [main EXCEPT !.at = "register", !.fd = f]
            PROVE  /\ conn'[main'.fd] # Nobody
                   /\ \A i \in Slots : clients'[i].taken => clients'[i].sockfd # main'.fd
        <5>1. main'.fd = f /\ conn'[f] = c
          BY <1>0, <3>1, <4>2 DEF TypedTable, TypedThreads
        <5> QED BY <1>0, <3>1, <3>2, <3>3, <5>1 DEF SlotsRight, Player
      <4> QED BY <3>1, <4>1, <4>2
    <3> QED BY ZenonT(60), <1>0, <1>m, <2>0, <3>1, <3>2, <3>4 DEF ThreadsRight, TypedThreads
  <2>2. CASE register_client
    <3>1. conn' = conn /\ conn[main.fd] # Nobody
      BY <1>0, <2>2 DEF register_client, ThreadsRight, MainAt
    <3>2. CASE MainGoes("idle")
      BY <1>0, <1>m, <2>0, <3>2 DEF MainGoes, TypedThreads, ThreadsRight
    <3>3. ASSUME NEW i \in Slots, clients'[i].taken, clients'[i].sockfd = main.fd,
                 main' = [main EXCEPT !.at = "welcome", !.id = i]
          PROVE  ThreadsRight'
      BY <1>0, <1>m, <2>0, <3>3 DEF TypedThreads, ThreadsRight
    <3> QED BY <2>2, <3>2, <3>3, Registered
  <2>3. CASE Seek
    <3>1. Others(main.id) # {} => Min(Others(main.id)) \in Others(main.id)
      BY MinSlot DEF Others, Waiting
    <3>2. \/ MainGoes("idle")
          \/ /\ main' = [main EXCEPT !.at = "pair", !.opponent = Min(Others(main.id))]
             /\ Others(main.id) # {}
      BY <2>3 DEF Seek
    <3>3. main'.at \in {"idle", "pair"} /\ (main'.at = "pair" => main'.opponent # main'.id)
      BY <1>0, <3>1, <3>2 DEF TypedThreads, MainGoes, Others
    <3> QED BY <1>m, <2>0, <3>3 DEF ThreadsRight
  <2>4. CASE Welcome \/ Pair \/ SendStart \/ SendBoard
    <3>1. main'.at \in {"seek", "start", "board", "idle"} /\ main'.opponent = main.opponent
          /\ main'.id = main.id /\ (main'.at \in {"start", "board"} => main.at \in {"pair", "start"})
      BY <1>0, <2>4 DEF Welcome, Pair, SendStart, SendBoard, MainGoes, MainAt, TypedThreads
    <3> QED BY <1>0, <1>m, <2>0, <3>1 DEF ThreadsRight
  <2> QED BY <1>1, <2>1, <2>2, <2>3, <2>4 DEF MainThread
<1>2. CASE RemoveClient
  <2>1. main' = main /\ manage'.at = "idle" /\ clients' = Removed(me, manage.opponent)
        /\ conn' = [conn EXCEPT ![clients[me].sockfd] = Nobody] /\ clients[me].taken
    BY <1>0, <1>2 DEF RemoveClient, ManageIdle, TypedThreads, ThreadsRight, ManageAt
  <2>2. \A k \in Slots : /\ clients'[k].sockfd = clients[k].sockfd
                         /\ clients'[k].taken => clients[k].taken
                         /\ k # me => clients'[k].taken = clients[k].taken
    BY <1>0, <1>b, <2>1 DEF Removed, TypedTable, Slot
  <2>3. main.at = "register" =>
           /\ conn'[main.fd] # Nobody
           /\ \A i \in Slots : clients'[i].taken => clients'[i].sockfd # main.fd
    BY <1>0, <1>b, <2>1, <2>2 DEF ThreadsRight, TypedTable
  <2>4. main.at = "welcome" =>
           /\ clients'[main.id].sockfd = main.fd
           /\ clients'[main.id].taken \/ conn'[main.fd] = Nobody
    BY <1>0, <1>b, <2>1, <2>2 DEF ThreadsRight, TypedTable
  <2> QED BY <1>0, <2>1, <2>3, <2>4 DEF ThreadsRight
<1>3. ASSUME ~MainThread, ~RemoveClient
      PROVE  ThreadsRight'
  <2>1. main' = main /\ conn' = conn /\ ~register_client
    BY <1>3 DEF MainThread, Step, Threads, ManageThread, PingThread, handle_move, handle_disconnect,
        Lock, Receive, Ping, Pinged, Client, Connect, Read, handle_board, Sigint,
        EndOfFile, table, threads
  <2>2. \A k \in Slots : SameClient(k)
    BY <1>3, <2>1, SlotSteps
  <2>3. manage'.at \in {"DISCONNECT", "leaving"} => clients'[me'].taken
    <3>1. CASE Lock
      <4>1. manage'.at \in {"DISCONNECT", "leaving"} => clients[me].taken /\ manage'.msg = manage.msg
        BY <1>0, <3>1 DEF Lock, ManageIdle, TypedThreads
      <4> QED BY <1>b, <2>2, <4>1 DEF me, SameClient
    <3>2. CASE handle_disconnect
      <4>1. manage.at = "DISCONNECT" /\ manage'.msg = manage.msg
        BY <1>0, <3>2 DEF handle_disconnect, ManageAt, TypedThreads
      <4> QED BY <1>0, <1>b, <2>2, <4>1 DEF me, SameClient, ThreadsRight
    <3>3. CASE Receive
      BY <1>0, <3>3 DEF Receive, TypedThreads
    <3>4. CASE handle_move
      BY <1>0, <3>4 DEF handle_move, TypedThreads, ManageIdle
    <3>5. CASE UNCHANGED manage
      BY <1>3, <1>m, <3>5
    <3> QED BY <1>3, <3>1, <3>2, <3>3, <3>4, <3>5 DEF MainThread, Step, Threads, ManageThread,
          PingThread, Ping, Pinged, Client, Connect, Read, handle_board, Sigint,
          EndOfFile, threads
  <2> QED BY <1>0, <1>b, <2>1, <2>2, <2>3 DEF ThreadsRight, SameClient
<1> QED
  BY <1>1, <1>2, <1>3

\* main's exit closes descriptors and frees boards, and changes the array in nothing
\* but pointers to boards.
LEMMA DismissIs ==
  ASSUME Base, NEW i \in Slots, Dismiss(i)
  PROVE  /\ TypedTable' /\ TypedServer' /\ Len(boards') = Len(boards)
         /\ \A k \in Slots :
              /\ SameClient(k) /\ clients'[k].opponent = clients[k].opponent
              /\ clients'[k].board \in {clients[k].board, NULL}
         /\ conn' = [conn EXCEPT ![clients[i].sockfd] = Nobody]
         /\ watched' = watched \ {clients[i].sockfd}
         /\ \A c \in Clients : (\A f \in Fds : conn[f] # c) => inbox'[c] = inbox[c]
<1>0. TypedTable /\ TypedServer /\ Typed /\ DescriptorsRight
  BY DEF Base, Typed
<1>1. PICK f \in Fds, n \in Nat : f = clients[i].sockfd /\ n = clients[i].board
  BY <1>0 DEF TypedTable, Slot
<1>2. /\ conn' = [conn EXCEPT ![f] = Nobody] /\ watched' = watched \ {f}
      /\ clients' = [k \in Slots |-> IF n # NULL /\ k = clients[i].opponent
                                     THEN [clients[k] EXCEPT !.board = NULL] ELSE clients[k]]
      /\ boards' = boards \/ boards' = [boards EXCEPT ![n] = <<>>]
  BY <1>1 DEF Dismiss
<1>3. \A k \in Slots : clients[k] \in Slot
  BY <1>0 DEF TypedTable
<1>4. clients' \in [Slots -> Slot]
  BY ZenonT(60), <1>2, <1>3 DEF Slot, NULL
<1>5. \A k \in Slots : /\ SameClient(k) /\ clients'[k].opponent = clients[k].opponent
                       /\ clients'[k].board \in {clients[k].board, NULL}
  BY <1>2, <1>3 DEF Slot, SameClient
<1>6. boards' \in Seq(Boards \union {<<>>}) /\ Len(boards') = Len(boards)
  BY <1>0, <1>2 DEF TypedTable
<1>7. conn' \in [Fds -> Clients \union {Nobody}] /\ watched' \subseteq Fds
  BY <1>0, <1>2 DEF TypedTable
<1>8. TypedServer' /\ \A c \in Clients : (\A g \in Fds : conn[g] # c) => inbox'[c] = inbox[c]
  <2>1. CASE server' = "aborted" /\ UNCHANGED inbox
    BY <1>0, <2>1 DEF TypedServer
  <2>2. CASE Write(To(i, Note("DISCONNECT")))
    <3>1. PICK m \in Msg : m = Note("DISCONNECT")
      BY Messages DEF Note, Message, Msg, Types
    <3>2. Wrote
      BY <1>0, <2>2, <3>1, ToWrote
    <3> QED BY <1>0, <3>2 DEF Wrote, TypedServer
  <2> QED BY <2>1, <2>2 DEF Dismiss
<1> QED
  BY <1>1, <1>2, <1>4, <1>5, <1>6, <1>7, <1>8 DEF TypedTable

\* ... whether it is at one of the clients, or at none.
LEMMA ExitIs ==
  ASSUME Base, Exit
  PROVE  /\ Exiting' /\ TypedTable' /\ TypedServer' /\ Len(boards') = Len(boards)
         /\ main' \in [at : {"exiting", "closing"}, fd : Fds, id : Slots, opponent : Slots]
         /\ UNCHANGED <<manage, ping, mutex, backlog, client, client_id, name, outbox, mishaps>>
         /\ sigints' \in Nat
         /\ \A k \in Slots :
              /\ SameClient(k) /\ clients'[k].opponent = clients[k].opponent
              /\ clients'[k].board \in {clients[k].board, NULL}
         /\ \/ UNCHANGED <<conn, watched>>
            \/ \E f \in Fds : conn' = [conn EXCEPT ![f] = Nobody] /\ watched' = watched \ {f}
         /\ \A c \in Clients : (\A f \in Fds : conn[f] # c) => inbox'[c] = inbox[c]
<1>0. TypedTable /\ TypedThreads /\ TypedClients /\ TypedServer
  BY DEF Base, Typed
<1>1. CASE handle_signal
  <2>1. 0 \in Fds /\ 0 \in Slots
    BY FdsAre
  <2>2. /\ main' = [at |-> "exiting", fd |-> 0, id |-> 0, opponent |-> 0]
        /\ UNCHANGED <<clients, boards, conn, watched, inbox, server>>
        /\ UNCHANGED <<manage, ping, mutex, backlog, client, client_id, name, outbox, mishaps>>
        /\ sigints' \in Nat
    BY <1>0, <1>1 DEF handle_signal, table, TypedClients
  <2> QED BY <1>0, <2>1, <2>2 DEF TypedTable, TypedServer, Exiting, SameClient
<1>2. CASE handle_exit
  <2>1. UNCHANGED <<manage, ping, mutex, backlog, client, client_id, name, outbox, sigints, mishaps>>
    BY <1>2 DEF handle_exit, processes
  <2>2. main' \in [at : {"exiting", "closing"}, fd : Fds, id : Slots, opponent : Slots] /\ Exiting'
    <3>1. main.id < MAX_PLAYERS - 1 => main.id + 1 \in Slots
      BY <1>0 DEF TypedThreads, Slots
    <3>2. \/ main.id < MAX_PLAYERS - 1 /\ main' = [main EXCEPT !.id = main.id + 1]
          \/ main' = [main EXCEPT !.at = "closing"]
          \/ main' = main
      BY <1>0, <1>2 DEF handle_exit, TypedThreads
    <3>3. main.at \in {"exiting", "closing"}
      BY <1>2 DEF handle_exit, MainAt
    <3> QED BY <1>0, <3>1, <3>2, <3>3 DEF TypedThreads, Exiting
  <2>3. CASE UNCHANGED <<clients, boards, conn, watched, inbox>> /\ server' \in {server, "down"}
    BY <1>0, <2>1, <2>2, <2>3 DEF TypedTable, TypedServer, TypedClients, SameClient
  <2>4. CASE Dismiss(main.id)
    <3>1. PICK i \in Slots : i = main.id
      BY <1>0 DEF TypedThreads
    <3>2. clients[i].sockfd \in Fds
      BY <1>0 DEF TypedTable, Slot
    <3> QED BY <1>0, <2>1, <2>2, <2>4, <3>1, <3>2, DismissIs DEF TypedClients
  <2> QED BY <1>2, <2>3, <2>4 DEF handle_exit, table
<1> QED
  BY <1>1, <1>2 DEF Exit

\* So all that is said of descriptors and slots stays so.
LEMMA ExitBase ==
  ASSUME Base, Exit
  PROVE  Base'
<1>0. /\ TypedTable /\ TypedThreads /\ TypedClients /\ TypedServer
      /\ DescriptorsRight /\ BacklogRight /\ SlotsRight /\ ThreadsRight
  BY DEF Base, Typed
<1>1. Typed'
  <2>1. TypedThreads' /\ TypedClients'
    BY <1>0, ExitIs DEF TypedThreads, TypedClients
  <2> QED BY <2>1, ExitIs DEF Typed
<1>2. \A f \in Fds : conn'[f] \in {conn[f], Nobody}
  BY <1>0, ExitIs DEF TypedTable
<1>3. DescriptorsRight'
  BY <1>0, <1>2, ExitIs DEF DescriptorsRight, TypedClients
<1>4. BacklogRight'
  <2>1. \A c \in Clients : client[c] = "new" \/ c \in backlog => \A f \in Fds : conn[f] # c
    BY <1>0 DEF DescriptorsRight
  <2>2. \A c \in Clients : client[c] = "new" \/ c \in backlog => inbox'[c] = inbox[c]
    BY <2>1, ExitIs
  <2>3. UNCHANGED <<backlog, client, outbox>> /\ backlog \subseteq Clients
    BY <1>0, ExitIs DEF TypedClients
  <2> QED BY <1>0, <2>2, <2>3 DEF BacklogRight
<1>5. SlotsRight'
  <2>1. \A i \in Slots : clients'[i].opponent # i /\ clients'[i].board <= Len(boards')
    <3>1. Len(boards) \in Nat
      BY <1>0 DEF TypedTable
    <3> QED BY <1>0, <3>1, ExitIs DEF SlotsRight, NULL
  <2>2. \A k \in Slots : SameClient(k)
    BY ExitIs
  <2>3. \A f \in watched' : f \in watched /\ conn'[f] # Nobody
    BY <1>0, ExitIs DEF SlotsRight, TypedTable
  <2> QED BY <1>0, <2>1, <2>2, <2>3, ExitIs DEF SlotsRight, SameClient
<1>6. ThreadsRight'
  <2>1. main'.at \in {"exiting", "closing"} /\ UNCHANGED manage /\ me \in Slots
    BY <1>0, ExitIs DEF TypedThreads, Msg, me
  <2>2. manage.at \in {"DISCONNECT", "leaving"} => clients'[me].taken
    BY <1>0, <2>1, ExitIs DEF ThreadsRight, SameClient
  <2> QED BY <2>1, <2>2 DEF ThreadsRight, me
<1> QED
  BY <1>1, <1>3, <1>4, <1>5, <1>6 DEF Base

\* The first part of the invariant is inductive by itself.
LEMMA BaseStep == Base /\ Step => Base'
BY TypedStep, DescriptorsStep, BacklogStep, SlotsStep, ThreadsStep DEF Base

-----------------------------------------------------------------------------
(* Opponents and boards. *)

\* What is noted stays noted, and what manage has read twice stays so.
LEMMA Monotone ==
  ASSUME Base, Step
  PROVE  /\ mishaps \subseteq mishaps'
         /\ manage'.eofs = 0 => manage.eofs = 0
<1>0. TypedThreads
  BY DEF Base, Typed
<1>1. Notes \/ UNCHANGED mishaps
  BY DEF Step, Threads, MainThread, ManageThread, PingThread, Accept, register_client, Welcome,
      Seek, Pair, SendStart, SendBoard, Lock, Receive, handle_move, handle_disconnect,
      RemoveClient, Ping, Pinged, Client, Connect, Read, handle_board, Sigint,
      EndOfFile
<1>2. mishaps \subseteq mishaps'
  BY <1>1 DEF Notes
<1>3. CASE Receive
  <2>1. manage.eofs \in Nat /\ manage'.eofs \in {manage.eofs, manage.eofs + 1}
    BY <1>0, <1>3 DEF Receive, TypedThreads
  <2> QED BY <1>2, <2>1
<1>4. CASE ~Receive
  <2>1. \/ UNCHANGED manage \/ ManageIdle \/ manage' = [manage EXCEPT !.at = "leaving"]
        \/ \E t, o : manage' = [manage EXCEPT !.at = t, !.opponent = o]
    BY <1>4 DEF Step, Threads, MainThread, ManageThread, PingThread, Accept, register_client,
      Welcome, Seek, Pair, SendStart, SendBoard, Lock, handle_move, handle_disconnect,
      RemoveClient, Ping, Pinged, Client, Connect, Read, handle_board, Sigint,
      EndOfFile, threads
  <2> QED BY <1>0, <1>2, <2>1 DEF ManageIdle, TypedThreads
<1> QED
  BY <1>3, <1>4

\* The server runs after a step only if it did before, and nobody leaves in the middle
\* of a pairing that is not noted.
LEMMA FineStep ==
  ASSUME Base, Step, Fine'
  PROVE  /\ Fine /\ (manage'.eofs = 0 => manage.eofs = 0)
         /\ "leftover" \notin mishaps' => "leftover" \notin mishaps
         /\ (Pairs => ~Racing')
<1>0. TypedThreads /\ TypedServer
  BY DEF Base, Typed
<1>2. mishaps \subseteq mishaps'
  BY Monotone
<1>3. server = "up"
  <2>1. ASSUME NEW c \in Clients, Client(c) PROVE server' = server
    BY <2>1, ClientSteps
  <2>2. Threads => server = "up"
    BY DEF Threads, MainThread, ManageThread, PingThread, Accept, register_client, Welcome,
      Seek, Pair, SendStart, SendBoard, Lock, Receive, handle_move, handle_disconnect,
      RemoveClient, Ping, Pinged, MainAt, ManageAt
  <2> QED BY <2>1, <2>2 DEF Fine, Step
<1>4. manage'.eofs = 0 => manage.eofs = 0
  BY Monotone
<1>5. ASSUME Notes PROVE ~Racing'
  BY <1>5 DEF Notes, Fine
<1>6. ASSUME ~Notes, Pairs PROVE ~Racing'
  <2>1. main' = main
    BY <1>6 DEF Step, Threads, MainThread, ManageThread, PingThread, Accept, register_client,
        Welcome, Seek, Pair, SendStart, SendBoard, Lock, Receive, handle_move,
        handle_disconnect, RemoveClient, Ping, Pinged, Client, Connect, Read,
        handle_board, Sigint, EndOfFile, threads
  <2>2. UNCHANGED manage \/ manage'.at = "lock"
    BY <1>0, <1>6 DEF TypedThreads, Step, Threads, MainThread, ManageThread, PingThread, Accept,
        register_client, Welcome, Seek, Pair, SendStart, SendBoard, Lock, Receive, handle_move,
        handle_disconnect, RemoveClient, Ping, Pinged, Client, Connect, Read,
        handle_board, Sigint, EndOfFile, threads
  <2> QED BY ExitingStays, <1>2, <1>3, <1>6, <2>1, <2>2 DEF Pairs, Fine, Racing, me
<1> QED
  BY <1>2, <1>3, <1>4, <1>5, <1>6, ExitingStays DEF Fine

\* A board is not the freed block.
LEMMA BoardIsThere == \A b \in Boards : b # <<>>
<1>1. PICK x \in Cells : TRUE
  OBVIOUS
<1>2. \A b \in Boards : DOMAIN b = Cells
  BY DEF Boards
<1>3. DOMAIN <<>> = {}
  OBVIOUS
<1> QED
  BY <1>1, <1>2, <1>3

\* The two assignments of find_opponent ...
LEMMA PairIs ==
  ASSUME Base, Pair
  PROVE  \A k \in Slots :
           /\ clients'[k].taken = clients[k].taken /\ clients'[k].board = clients[k].board
           /\ clients'[k].opponent = IF k = main.id THEN main.opponent
                                     ELSE IF k = main.opponent THEN main.id
                                     ELSE clients[k].opponent
<1>1. PICK i, j \in Slots : i = main.id /\ j = main.opponent
  BY DEF Base, Typed, TypedThreads
<1>2. i # j
  BY <1>1 DEF Base, ThreadsRight, Pair, MainAt
<1>3. clients' = [clients EXCEPT ![i].opponent = j, ![j].opponent = i]
  BY <1>1 DEF Pair
<1> QED
  BY SMTT(60), <1>1, <1>2, <1>3 DEF Base, Typed, TypedTable, Slot

\* ... and the last of its steps, the new board.
LEMMA SendBoardIs ==
  ASSUME Base, SendBoard
  PROVE  /\ boards' \in Seq(Boards \union {<<>>}) /\ Len(boards') = Len(boards) + 1
         /\ Len(boards) \in Nat /\ boards'[Len(boards')] = Empty
         /\ \A k \in 1 .. Len(boards) : boards'[k] = boards[k]
         /\ \A k \in Slots :
              /\ clients'[k].taken = clients[k].taken /\ clients'[k].opponent = clients[k].opponent
              /\ clients'[k].board = IF k \in {main.id, main.opponent} THEN Len(boards')
                                     ELSE clients[k].board
<1>0. TypedTable
  BY DEF Base, Typed
<1>1. PICK i, j \in Slots : i = main.id /\ j = main.opponent
  BY DEF Base, Typed, TypedThreads
<1>2. /\ boards' \in Seq(Boards \union {<<>>}) /\ Len(boards') = Len(boards) + 1
      /\ Len(boards) \in Nat /\ boards'[Len(boards')] = Empty
      /\ \A k \in 1 .. Len(boards) : boards'[k] = boards[k]
  BY <1>0, Messages DEF SendBoard, TypedTable
<1>3. PICK n : n = Len(boards')
  OBVIOUS
<1>4. clients' = [clients EXCEPT ![i].board = n, ![j].board = n]
  BY <1>1, <1>3 DEF SendBoard
<1>5. \A k \in Slots :
              /\ clients'[k].taken = clients[k].taken /\ clients'[k].opponent = clients[k].opponent
              /\ clients'[k].board = IF k \in {i, j} THEN n ELSE clients[k].board
  BY <1>0, <1>4 DEF TypedTable, Slot
<1> QED
  BY <1>1, <1>2, <1>3, <1>5

\* A slot is left with the same flags and pointers.
SamePairs ==
  \A k \in Slots : /\ clients'[k].taken = clients[k].taken /\ clients'[k].board = clients[k].board
                   /\ clients'[k].opponent = clients[k].opponent

\* The array stays right.
LEMMA ArrayStep ==
  ASSUME Base, Pairs, Step, Fine'
  PROVE  ArrayRight'
<1>0. TypedTable /\ TypedThreads /\ SlotsRight /\ ThreadsRight /\ ArrayRight /\ MainRight
      /\ ManageRight /\ ~Racing /\ Fine /\ Fine'
  BY FineStep DEF Base, Typed, Pairs
<1>b. me \in Slots /\ main.id \in Slots /\ main.opponent \in Slots
      /\ manage.opponent \in Slots \union {-1} /\ -1 \notin Slots /\ Len(boards) \in Nat
  BY <1>0, FdsAre DEF TypedThreads, Msg, me, TypedTable
<1>c. \A k \in Slots : /\ clients[k].opponent \in Slots \union {-1} /\ clients[k].board \in Nat
                       /\ clients[k].board <= Len(boards) /\ clients[k].opponent # k
  BY <1>0 DEF TypedTable, Slot, SlotsRight
<1>s. ASSUME SamePairs, UNCHANGED boards, \A k \in Slots : Starting(k) => Starting(k)',
             \A k \in Slots : Removing(k) => Removing(k)'
      PROVE  ArrayRight'
  BY <1>0, <1>c, <1>s DEF ArrayRight, SamePairs
<1>1. CASE Accept
  <2>1. SamePairs /\ UNCHANGED <<manage, boards>> /\ main.at = "idle"
    BY <1>1 DEF Accept, SamePairs, MainAt
  <2> QED BY <1>s, <2>1 DEF Starting, Removing, me
<1>2. CASE register_client
  <2>1. UNCHANGED <<manage, boards>> /\ main.at = "register"
    BY <1>2 DEF register_client, MainAt
  <2>2. CASE UNCHANGED clients
    BY <1>s, <2>1, <2>2 DEF Starting, Removing, me, SamePairs
  <2>3. ASSUME NEW i \in Slots, ~clients[i].taken, clients'[i].taken,
               clients'[i].opponent = -1, clients'[i].board = clients[i].board,
               \A k \in Slots \ {i} : SameSlot(k)
        PROVE  ArrayRight'
    <3>1. clients[i].opponent = -1
      BY <1>0, <2>3 DEF ArrayRight
    <3>2. \A k \in Slots : k # i => clients[k].opponent # i
      BY <1>0, <1>b, <3>1 DEF ArrayRight
    <3>3. \A k \in Slots : Removing(k)' <=> Removing(k)
      BY <2>1 DEF Removing, me
    <3>4. \A k \in Slots : ~Starting(k)
      BY <2>1 DEF Starting
    <3>5. /\ clients'[i].board = clients[i].board
          /\ clients'[i].opponent = clients[i].opponent
      BY <2>3, <3>1
    <3>6. \A k \in Slots : clients'[k].board = clients[k].board
                           /\ clients'[k].opponent = clients[k].opponent
                           /\ (clients[k].taken => clients'[k].taken)
      BY <2>3, <3>5 DEF SameSlot
    <3> QED BY SMTT(60), <1>0, <1>c, <2>1, <3>3, <3>4, <3>6 DEF ArrayRight
  <2> QED BY <1>2, <2>2, <2>3, Registered
<1>3. CASE Pair
  <2>1. UNCHANGED <<manage, boards>> /\ main.at = "pair" /\ main.id # main.opponent
        /\ main'.at = "start" /\ main'.id = main.id /\ main'.opponent = main.opponent
    BY <1>0, <1>3 DEF Pair, MainAt, MainGoes, ThreadsRight, TypedThreads
  <2>2. Free(main.id) /\ Free(main.opponent) /\ ~Removing(main.id) /\ ~Removing(main.opponent)
    BY <1>0, <2>1 DEF MainRight, Racing, Removing
  <2>3. \A k \in Slots : Starting(k)' <=> k \in {main.id, main.opponent}
    BY <2>1 DEF Starting
  <2>4. \A k \in Slots : Removing(k)' <=> Removing(k)
    BY <2>1 DEF Removing, me
  <2>5. /\ \A k \in Slots : clients'[k].taken = clients[k].taken /\ clients'[k].board = clients[k].board
        /\ clients'[main.id].opponent = main.opponent /\ clients'[main.opponent].opponent = main.id
        /\ \A k \in Slots \ {main.id, main.opponent} :
              clients'[k].opponent = clients[k].opponent
    BY <1>3, <1>b, <2>1, PairIs
  <2>6. \A k \in Slots : clients[k].opponent \notin {main.id, main.opponent}
    BY <1>0, <1>b, <2>2 DEF ArrayRight, Free
  <2>7. clients[main.id].board = NULL /\ clients[main.opponent].board = NULL
    BY <1>0, <1>b, <2>2 DEF ArrayRight, Free
  <2>8. /\ \A i \in Slots : clients'[i].opponent # -1 =>
             clients'[i].taken /\ clients'[clients'[i].opponent].opponent = i
        /\ \A i \in Slots : clients'[i].opponent = -1 /\ ~Removing(i) => clients'[i].board = NULL
    BY SMTT(60), <1>0, <1>b, <1>c, <2>2, <2>5, <2>6 DEF ArrayRight, Free
  <2>9. \A i \in Slots : clients'[i].opponent # -1 /\ i \notin {main.id, main.opponent} =>
           clients'[i].board # NULL /\ clients'[i].board = clients'[clients'[i].opponent].board
    <3>1. \A i \in Slots : ~Starting(i)
      BY <2>1 DEF Starting
    <3> QED BY <1>0, <1>b, <1>c, <2>5, <3>1 DEF ArrayRight
  <2>10. /\ \A i \in Slots : clients'[i].board # NULL => boards[clients'[i].board] # <<>>
         /\ \A i, j \in Slots :
              clients'[i].board = clients'[j].board /\ clients'[i].board # NULL /\ i # j =>
              clients'[i].opponent = j \/ (Removing(i) /\ Removing(j))
    BY <1>0, <1>b, <2>5, <2>7 DEF ArrayRight
  <2> QED BY <2>1, <2>3, <2>4, <2>8, <2>9, <2>10 DEF ArrayRight
<1>4. CASE SendStart
  <2>1. SamePairs
    <3>1. PICK i, j \in Slots : i = main.id /\ j = main.opponent
      BY <1>b
    <3>2. clients' = [clients EXCEPT ![j].symbol = SYMBOL_1, ![i].symbol = SYMBOL_2]
      BY <1>4, <3>1 DEF SendStart
    <3> QED BY SMTT(60), <1>0, <3>2 DEF TypedTable, Slot, SamePairs
  <2>2. UNCHANGED <<manage, boards>> /\ main.at = "start" /\ main'.at = "board"
        /\ main'.id = main.id /\ main'.opponent = main.opponent
    BY <1>0, <1>4 DEF SendStart, MainAt, MainGoes, TypedThreads
  <2> QED BY <1>s, <2>1, <2>2 DEF Starting, Removing, me
<1>5. CASE SendBoard
  <2>1. UNCHANGED manage /\ main.at = "board" /\ main'.at = "idle"
    BY <1>0, <1>5 DEF SendBoard, MainAt, MainGoes, TypedThreads
  <2>2. /\ clients[main.id].opponent = main.opponent /\ clients[main.opponent].opponent = main.id
    BY <1>0, <2>1 DEF MainRight
  <2>3. PICK n \in Nat : n = Len(boards')
    BY <1>5, SendBoardIs
  <2>4. /\ n = Len(boards) + 1 /\ n # NULL /\ boards'[n] # <<>>
        /\ \A k \in 1 .. Len(boards) : boards'[k] = boards[k]
    BY <1>5, <1>b, <2>3, SendBoardIs, BoardIsThere, Messages DEF NULL
  <2>5. \A k \in Slots :
              /\ clients'[k].taken = clients[k].taken /\ clients'[k].opponent = clients[k].opponent
              /\ clients'[k].board = IF k \in {main.id, main.opponent} THEN n ELSE clients[k].board
    BY <1>5, <2>3, SendBoardIs
  <2>6. \A k \in Slots : Removing(k)' <=> Removing(k)
    BY <2>1 DEF Removing, me
  <2>7. \A k \in Slots : /\ clients[k].board # n
                         /\ clients[k].board # NULL => clients[k].board \in 1 .. Len(boards)
    BY <1>b, <1>c, <2>4 DEF NULL
  <2>8. \A k \in {main.id, main.opponent} : ~Removing(k)
    <3>1. clients[main.id].opponent # -1 /\ clients[main.opponent].opponent # -1
      BY <1>b, <2>2
    <3>2. manage.at = "leaving" => clients[me].opponent = -1
            /\ (manage.opponent # -1 => clients[manage.opponent].opponent = -1)
      BY <1>0 DEF ManageRight, Free
    <3> QED BY <1>b, <3>1, <3>2 DEF Removing
  <2>9. \A k \in Slots : k \notin {main.id, main.opponent} =>
           ~Starting(k) /\ clients[k].opponent \notin {main.id, main.opponent}
    BY <1>0, <1>b, <2>2 DEF Starting, ArrayRight
  <2>10. \A i \in Slots : clients'[i].opponent # -1 =>
           clients'[i].board # NULL /\ clients'[i].board = clients'[clients'[i].opponent].board
    BY <1>0, <1>b, <1>c, <2>2, <2>4, <2>5, <2>9 DEF ArrayRight
  <2>11. /\ \A i \in Slots : clients'[i].opponent # -1 =>
              clients'[i].taken /\ clients'[clients'[i].opponent].opponent = i
         /\ \A i \in Slots : clients'[i].opponent = -1 /\ ~Removing(i) => clients'[i].board = NULL
    <3>1. \A i \in Slots : clients'[i].opponent # -1 =>
              clients'[i].taken /\ clients'[clients'[i].opponent].opponent = i
      BY <1>0, <1>b, <1>c, <2>5 DEF ArrayRight
    <3>2. \A i \in Slots : clients'[i].opponent = -1 =>
            i \notin {main.id, main.opponent} /\ clients[i].opponent = -1
      BY <1>b, <2>2, <2>5
    <3>3. \A i \in Slots : clients'[i].opponent = -1 /\ ~Removing(i) => clients'[i].board = NULL
      BY <1>0, <2>5, <3>2 DEF ArrayRight
    <3> QED BY <3>1, <3>3
  <2>12. \A i \in Slots : clients'[i].board # NULL => boards'[clients'[i].board] # <<>>
    BY <1>0, <2>4, <2>5, <2>7 DEF ArrayRight
  <2>13. \A i, j \in Slots :
              clients'[i].board = clients'[j].board /\ clients'[i].board # NULL /\ i # j =>
              clients'[i].opponent = j \/ (Removing(i) /\ Removing(j))
    BY <1>0, <1>b, <2>2, <2>5, <2>7 DEF ArrayRight
  <2> QED BY <2>6, <2>10, <2>11, <2>12, <2>13 DEF ArrayRight
<1>6. CASE handle_move
  <2>1. clients' = clients /\ main' = main /\ manage.at = "MOVE" /\ manage'.at = "idle"
    BY <1>0, <1>6 DEF handle_move, ManageAt, ManageIdle, TypedThreads
  <2>2. \A k \in Slots : ~Removing(k)
    BY <2>1 DEF Removing
  <2>3. CASE boards' = boards
    BY <1>s, <2>1, <2>2, <2>3 DEF SamePairs, Starting
  <2>4. CASE boards' # boards
    <3>1. OnBoard /\ boards' = [boards EXCEPT ![clients[me].board] =
                  [boards[clients[me].board] EXCEPT ![manage.msg.data] = clients[me].symbol]]
      BY <1>6, <2>4 DEF handle_move
    <3>2. PICK b \in 1 .. Len(boards), board \in Boards : boards' = [boards EXCEPT ![b] = board]
      BY <3>1, MoveMessages
    <3>3. \A k \in 1 .. Len(boards) : boards'[k] # <<>> \/ boards'[k] = boards[k]
      BY <1>0, <3>2, BoardIsThere DEF TypedTable
    <3>4. \A i \in Slots : clients[i].board # NULL => boards'[clients[i].board] # <<>>
      BY <1>0, <1>c, <3>3 DEF ArrayRight, NULL
    <3>5. \A k \in Slots : Starting(k)' <=> Starting(k)
      BY <2>1 DEF Starting
    <3> QED BY <1>0, <2>1, <2>2, <3>4, <3>5 DEF ArrayRight
  <2> QED BY <2>3, <2>4
<1>7. CASE handle_disconnect
  <2>1. main' = main /\ manage.at = "DISCONNECT" /\ manage'.at = "leaving" /\ manage'.msg = manage.msg
        /\ manage'.opponent = manage.opponent /\ UNCHANGED boards
    BY <1>0, <1>7 DEF handle_disconnect, ManageAt, TypedThreads
  <2>2. \A k \in Slots : /\ ~Removing(k) /\ (Removing(k)' <=> k \in {me, manage.opponent})
                         /\ (Starting(k)' <=> Starting(k))
    BY <2>1 DEF Removing, me, Starting
  <2>3. CASE UNCHANGED clients
    BY <1>s, <2>1, <2>2, <2>3 DEF SamePairs
  <2>4. CASE clients' # clients
    <3>1. clients[me].opponent # -1 /\ clients' = Parted(me)
          /\ manage.opponent = clients[me].opponent
      BY <1>0, <1>7, <2>1, <2>4 DEF handle_disconnect, ManageRight
    <3>2. PartedFrom(clients', me, manage.opponent)
      BY <1>0, <1>b, <3>1, PartedIs
    <3>3. \A k \in Slots : k \notin {me, manage.opponent} =>
             clients[k].opponent \notin {me, manage.opponent}
      BY <1>0, <1>b, <3>1 DEF ArrayRight
    <3>4. /\ \A i \in Slots : clients'[i].opponent # -1 =>
              clients'[i].taken /\ clients'[clients'[i].opponent].opponent = i
          /\ \A i \in Slots : clients'[i].opponent = -1 /\ ~Removing(i)' => clients'[i].board = NULL
      BY <1>0, <1>b, <1>c, <2>2, <3>2, <3>3 DEF ArrayRight, PartedFrom
    <3>5. \A i \in Slots : clients'[i].opponent # -1 /\ ~Starting(i)' =>
              clients'[i].board # NULL /\ clients'[i].board = clients'[clients'[i].opponent].board
      BY <1>0, <1>b, <1>c, <2>2, <3>2, <3>3 DEF ArrayRight, PartedFrom
    <3>6. \A i \in Slots : clients'[i].board # NULL => boards'[clients'[i].board] # <<>>
      BY <1>0, <2>1, <3>2 DEF ArrayRight, PartedFrom
    <3>7. \A i, j \in Slots :
              clients'[i].board = clients'[j].board /\ clients'[i].board # NULL /\ i # j =>
              clients'[i].opponent = j \/ (Removing(i)' /\ Removing(j)')
      BY <1>0, <1>b, <1>c, <2>2, <3>1, <3>2, <3>3 DEF ArrayRight, PartedFrom
    <3> QED BY <3>4, <3>5, <3>6, <3>7 DEF ArrayRight
  <2> QED BY <2>3, <2>4
<1>8. CASE RemoveClient
  <2> DEFINE o == manage.opponent
             b == clients[me].board
  <2>1. main' = main /\ manage.at = "leaving" /\ manage'.at = "idle" /\ clients' = Removed(me, o)
    BY <1>0, <1>8 DEF RemoveClient, ManageAt, ManageIdle, TypedThreads
  <2>2. \A k \in Slots : /\ ~Removing(k)' /\ (Removing(k) <=> k \in {me, o})
                         /\ (Starting(k)' <=> Starting(k))
    BY <2>1 DEF Removing, me, Starting
  <2>3. /\ clients[me].opponent = -1 /\ o # me /\ (o = -1 => b = NULL)
        /\ o # -1 => clients[o].opponent = -1 /\ clients[o].board = b
    BY <1>0, <2>1 DEF ManageRight, Free
  <2>4. \A k \in Slots :
          /\ clients'[k].opponent = clients[k].opponent
          /\ k # me => clients'[k].taken = clients[k].taken
          /\ clients'[k].board = IF k \in {me, o} THEN NULL ELSE clients[k].board
    BY <1>0, <1>b, <2>1, <2>3 DEF Removed, TypedTable, Slot
  <2>5. boards' = boards \/ boards' = [boards EXCEPT ![b] = <<>>]
    BY <1>8 DEF RemoveClient
  <2>6. \A k \in Slots : clients[k].opponent # -1 => clients[k].opponent \notin {me, o}
    <3>1. ASSUME NEW k \in Slots, clients[k].opponent # -1, clients[k].opponent \in {me, o}
          PROVE  FALSE
      <4>1. PICK j \in Slots : j = clients[k].opponent
        BY <1>c, <3>1
      <4>2. clients[j].opponent = k
        BY <1>0, <3>1, <4>1 DEF ArrayRight
      <4>3. clients[j].opponent = -1
        BY <1>b, <2>3, <3>1, <4>1
      <4> QED BY <1>b, <4>2, <4>3
    <3> QED BY <3>1
  <2>7. \A k \in Slots : k \notin {me, o} /\ clients[k].board # NULL => clients[k].board # b
    BY <1>0, <1>b, <2>2, <2>6 DEF ArrayRight
  <2>8. \A i \in Slots : clients'[i].board # NULL => boards'[clients'[i].board] # <<>>
    <3>1. ASSUME NEW i \in Slots, i \notin {me, o}, clients[i].board # NULL
          PROVE  boards'[clients[i].board] # <<>>
      <4>1. boards[clients[i].board] # <<>> /\ clients[i].board # b
            /\ clients[i].board \in 1 .. Len(boards)
        BY <1>0, <1>c, <2>7, <3>1 DEF ArrayRight, NULL
      <4> HIDE DEF b
      <4> QED BY <1>0, <2>5, <4>1 DEF TypedTable
    <3> QED BY <2>4, <3>1
  <2>9. /\ \A i \in Slots : clients'[i].opponent # -1 =>
              clients'[i].taken /\ clients'[clients'[i].opponent].opponent = i
        /\ \A i \in Slots : clients'[i].opponent = -1 => clients'[i].board = NULL
    BY <1>0, <1>b, <1>c, <2>2, <2>3, <2>4 DEF ArrayRight
  <2>10. \A i \in Slots : clients'[i].opponent # -1 /\ ~Starting(i)' =>
              clients'[i].board # NULL /\ clients'[i].board = clients'[clients'[i].opponent].board
    BY <1>0, <1>b, <1>c, <2>2, <2>3, <2>4, <2>6 DEF ArrayRight
  <2>11. \A i, j \in Slots :
              clients'[i].board = clients'[j].board /\ clients'[i].board # NULL /\ i # j =>
              clients'[i].opponent = j
    BY <1>0, <1>b, <2>2, <2>4 DEF ArrayRight
  <2> QED BY <2>2, <2>8, <2>9, <2>10, <2>11 DEF ArrayRight
<1>9. CASE Welcome \/ Seek
  <2>1. SamePairs /\ UNCHANGED <<manage, boards>> /\ main.at \in {"welcome", "seek"}
    BY <1>9 DEF Welcome, Seek, SamePairs, MainAt, table
  <2> QED BY <1>s, <2>1 DEF Starting, Removing, me
<1>10. CASE Receive \/ Lock
  <2>1. SamePairs /\ UNCHANGED <<main, boards>> /\ manage.at \in {"idle", "lock"}
    BY <1>10 DEF Receive, Lock, SamePairs, ManageAt, table
  <2> QED BY <1>s, <2>1 DEF Starting, Removing
<1>11. CASE Ping \/ Pinged \/ \E c \in Clients : Client(c)
  <2>1. SamePairs /\ UNCHANGED <<main, manage, boards>>
    BY <1>11, ClientSteps DEF Ping, Pinged, table, threads, SamePairs
  <2> QED BY <1>s, <2>1 DEF Starting, Removing, me
<1> QED
  BY <1>1, <1>2, <1>3, <1>4, <1>5, <1>6, <1>7, <1>8, <1>9, <1>10, <1>11
  DEF Step, Threads, MainThread, ManageThread, PingThread

-----------------------------------------------------------------------------
(* What the clients get. *)

\* The clients of two slots are two clients.
LEMMA OwnPlayer ==
  ASSUME Base, Fine, NEW i \in Slots, clients[i].taken
  PROVE  /\ Player(i) \in Clients /\ clients[i].sockfd \in Fds
         /\ client[Player(i)] # "new" /\ Player(i) \notin backlog
         /\ \A k \in Slots : clients[k].taken /\ k # i => Player(k) # Player(i)
                             /\ clients[k].sockfd # clients[i].sockfd
<1>0. TypedTable /\ SlotsRight /\ DescriptorsRight
  BY DEF Base, Typed
<1>1. clients[i].sockfd \in Fds /\ \A k \in Slots : clients[k].sockfd \in Fds
  BY <1>0 DEF TypedTable, Slot
<1>2. Player(i) \in Clients /\ Player(i) # Nobody
  BY <1>0, <1>1 DEF Player, TypedTable, SlotsRight, Fine
<1>3. client[Player(i)] # "new" /\ Player(i) \notin backlog
  BY <1>0, <1>1, <1>2 DEF Player, DescriptorsRight
<1>4. ASSUME NEW k \in Slots, clients[k].taken, k # i
      PROVE  Player(k) # Player(i) /\ clients[k].sockfd # clients[i].sockfd
  <2>1. clients[k].sockfd # clients[i].sockfd
    BY <1>0, <1>4 DEF SlotsRight
  <2> QED BY <1>0, <1>1, <1>2, <2>1 DEF Player, DescriptorsRight
<1> QED
  BY <1>1, <1>2, <1>3, <1>4

\* What is written to a slot that is taken gets to its client alone, ...
LEMMA ToSlot ==
  ASSUME Base, Fine, NEW i \in Slots, clients[i].taken, NEW m \in Msg, Write(To(i, m))
  PROVE  /\ Gets(Player(i), m)
         /\ \A c \in Clients : c # Player(i) => inbox'[c] = inbox[c]
<1>1. Typed /\ DescriptorsRight
  BY DEF Base
<1>2. clients[i].sockfd \in Fds /\ Player(i) \in Clients
  BY OwnPlayer
<1> QED
  BY <1>1, <1>2, WriteOne DEF To, Player

\* ... what is written to two slots, to nobody else's client, ...
LEMMA OthersGotNone ==
  ASSUME Typed, DescriptorsRight, NEW i \in Slots, NEW j \in Slots, NEW m \in Msg,
         NEW n \in Msg, Write(ToBoth(i, m, j, n))
  PROVE  \A c \in Clients : c \notin {Player(i), Player(j)} => inbox'[c] = inbox[c]
<1>1. PICK f, g \in Fds : f = clients[i].sockfd /\ g = clients[j].sockfd
  BY DEF Typed, TypedTable, Slot
<1>2. Write([h \in {f, g} |-> IF h = f THEN m ELSE n])
  BY <1>1 DEF ToBoth
<1>3. /\ inbox' \in [Clients -> Seq(Msg)] /\ server' \in {server, "killed"}
      /\ \A c \in Clients : c \notin {conn[f], conn[g]} => inbox'[c] = inbox[c]
  BY <1>2, WriteTwo
<1> QED
  BY <1>1, <1>3 DEF Player

\* ... and what is written to two, to those two.
LEMMA ToSlots ==
  ASSUME Base, Fine, NEW i \in Slots, NEW j \in Slots, clients[i].taken, clients[j].taken, i # j,
         NEW m \in Msg, NEW n \in Msg, Write(ToBoth(i, m, j, n))
  PROVE  /\ Gets(Player(i), m) /\ Gets(Player(j), n)
         /\ \A c \in Clients : c \notin {Player(i), Player(j)} => inbox'[c] = inbox[c]
<1>1. Typed /\ DescriptorsRight
  BY DEF Base
<1>2. /\ clients[i].sockfd \in Fds /\ Player(i) \in Clients
      /\ clients[j].sockfd \in Fds /\ Player(j) \in Clients
      /\ clients[i].sockfd # clients[j].sockfd
  BY OwnPlayer
<1>3. PICK f \in Fds, g \in Fds : f = clients[i].sockfd /\ g = clients[j].sockfd
  BY <1>2
<1>4. Write([h \in {f, g} |-> IF h = f THEN m ELSE n])
  BY <1>3 DEF ToBoth
<1>5. /\ \A c \in Clients : c \notin {conn[f], conn[g]} => inbox'[c] = inbox[c]
      /\ conn[f] # Nobody => Gets(conn[f], m)
      /\ f # g /\ conn[g] # Nobody => Gets(conn[g], n)
  <2>1. \A c \in Clients : c \notin {conn[f], conn[g]} => inbox'[c] = inbox[c]
    BY <1>1, <1>3, OthersGotNone DEF Player
  <2>2. conn[f] # Nobody => Gets(conn[f], m)
    BY ZenonT(60), <1>1, <1>4, WriteTwo
  <2>3. f # g /\ conn[g] # Nobody => Gets(conn[g], n)
    BY ZenonT(60), <1>1, <1>4, WriteTwo
  <2> QED BY <2>1, <2>2, <2>3
<1>6. Player(i) = conn[f] /\ Player(j) = conn[g] /\ Player(i) # Nobody /\ Player(j) # Nobody
      /\ f # g
  BY <1>2, <1>3 DEF Player
<1> QED
  BY <1>5, <1>6

\* Main pairs two clients, and manage has two players at hand.
LEMMA TwoPlayers ==
  ASSUME Base, Pairs, Fine
  PROVE  /\ main.at \in {"start", "board"} =>
              /\ clients[main.id].taken /\ clients[main.opponent].taken
              /\ main.id # main.opponent
              /\ clients[main.id].opponent = main.opponent
              /\ clients[main.opponent].opponent = main.id
         /\ manage.at = "MOVE" =>
              /\ clients[me].opponent \in Slots /\ clients[me].taken
              /\ clients[clients[me].opponent].taken /\ clients[me].opponent # me
              /\ clients[clients[me].opponent].opponent = me
         /\ manage.at = "DISCONNECT" /\ clients[me].opponent # -1 =>
              /\ clients[me].opponent \in Slots /\ manage.opponent = clients[me].opponent
              /\ clients[clients[me].opponent].taken /\ clients[me].opponent # me
              /\ clients[clients[me].opponent].opponent = me
         /\ me \in Slots /\ main.id \in Slots /\ main.opponent \in Slots /\ -1 \notin Slots
<1>0. TypedTable /\ TypedThreads /\ SlotsRight /\ ThreadsRight /\ ArrayRight /\ MainRight
      /\ ManageRight
  BY DEF Base, Typed, Pairs
<1>1. me \in Slots /\ main.id \in Slots /\ main.opponent \in Slots /\ -1 \notin Slots
  BY <1>0, FdsAre DEF TypedThreads, Msg, me
<1>2. \A k \in Slots : clients[k].opponent \in Slots \union {-1} /\ clients[k].opponent # k
  BY <1>0 DEF TypedTable, Slot, SlotsRight
<1>3. \A k \in Slots : clients[k].opponent # -1 =>
        /\ clients[k].opponent \in Slots /\ clients[k].taken
        /\ clients[clients[k].opponent].opponent = k /\ clients[k].opponent # k
        /\ clients[clients[k].opponent].taken
  BY <1>0, <1>1, <1>2 DEF ArrayRight
<1>4. manage.at \in {"MOVE", "DISCONNECT"} => manage.opponent = clients[me].opponent
  BY <1>0 DEF ManageRight
<1>5. manage.at = "MOVE" => clients[me].opponent # -1
  BY <1>0 DEF ManageRight
<1>6. main.at \in {"start", "board"} =>
        /\ clients[main.id].opponent = main.opponent /\ clients[main.opponent].opponent = main.id
  BY <1>0 DEF MainRight
<1> QED
  BY <1>1, <1>3, <1>4, <1>5, <1>6

\* Who gets what: a step of the server sends each client at most one message.
Sent(c, m) ==
  \/ (Accept \/ register_client) /\ \A i \in Slots : clients[i].taken => Player(i) # c
  \/ Welcome /\ c = conn[main.fd] /\ m = Message("CONNECT", main.id, 0)
  \/ SendStart /\ m.type = "START" /\ c \in {Player(main.id), Player(main.opponent)}
  \/ SendBoard /\ m.type = "BOARD" /\ c \in {Player(main.id), Player(main.opponent)}
  \/ /\ handle_move /\ m.type \in {"BOARD", "FINISH"}
     /\ c \in {Player(me), Player(clients[me].opponent)}
  \/ handle_disconnect /\ m.type = "OP_LEFT" /\ c = Player(manage.opponent)
  \/ Ping /\ m.type = "PING" /\ \E i \in Slots : clients[i].taken /\ Player(i) = c

\* The case distinction over all steps of the server.
LEMMA ServerSends ==
  ASSUME Base, Pairs, Threads, Fine, Fine', NEW c \in Clients
  PROVE  \/ inbox'[c] = inbox[c]
         \/ \E m \in Msg : inbox'[c] = Append(inbox[c], m) /\ client[c] # "gone" /\ Sent(c, m)
<1> DEFINE Goal == \/ inbox'[c] = inbox[c]
                   \/ \E m \in Msg : /\ inbox'[c] = Append(inbox[c], m)
                                     /\ client[c] # "gone" /\ Sent(c, m)
<1>0. TypedTable /\ TypedThreads /\ TypedClients /\ TypedServer /\ Typed /\ DescriptorsRight
      /\ SlotsRight
  BY DEF Base, Typed
<1>b. me \in Slots /\ main.id \in Slots /\ main.opponent \in Slots /\ main.fd \in Fds
  BY <1>0 DEF TypedThreads, Msg, me
<1>g. ASSUME NEW m \in Msg, Gets(c, m), Sent(c, m) PROVE Goal
  BY <1>g DEF Gets
<1>1. CASE Accept
  <2>1. PICK d \in backlog : Deliver(Only(d, Note("NAME_TAKEN"))) \/ UNCHANGED inbox
    BY <1>0, <1>1, Accepted
  <2>2. d \in Clients
    BY <1>0, <2>1 DEF TypedClients
  <2>3. PICK m \in Msg : m = Note("NAME_TAKEN")
    BY Messages DEF Note, Message, Msg, Types
  <2>4. CASE Deliver(Only(d, m)) /\ d = c
    <3>1. Gets(c, m)
      BY <1>0, <2>2, <2>4 DEF Deliver, Only, Gets, TypedServer
    <3>2. \A i \in Slots : clients[i].taken => Player(i) # c
      BY <2>1, <2>4, OwnPlayer
    <3> QED BY <1>1, <1>g, <3>1, <3>2 DEF Sent
  <2>5. CASE Deliver(Only(d, m)) /\ d # c
    BY <1>0, <2>2, <2>5, Delivered
  <2> QED BY <2>1, <2>3, <2>4, <2>5
<1>2. CASE register_client
  <2>1. CASE Write(Only(main.fd, Note("TOO_MANY")))
    <3>1. PICK m \in Msg : m = Note("TOO_MANY")
      BY Messages DEF Note, Message, Msg, Types
    <3>2. c = conn[main.fd] => Gets(c, m)
      BY <1>0, <1>b, <2>1, <3>1, WriteOne
    <3>3. c # conn[main.fd] => inbox'[c] = inbox[c]
      BY <1>0, <1>b, <2>1, <3>1, WriteOne
    <3>4. c = conn[main.fd] => \A i \in Slots : clients[i].taken => Player(i) # c
      <4>1. \A i \in Slots : clients[i].taken => clients[i].sockfd # main.fd
                                                 /\ clients[i].sockfd \in Fds
        BY <1>0, <1>2, OwnPlayer DEF register_client, Base, ThreadsRight, MainAt
      <4> QED BY <1>0, <1>b, <4>1 DEF Player, DescriptorsRight
    <3> QED BY <1>2, <1>g, <3>2, <3>3, <3>4 DEF Sent
  <2>2. CASE UNCHANGED inbox
    BY <2>2
  <2> QED BY <1>2, <2>1, <2>2 DEF register_client
<1>3. CASE Welcome
  <2>1. PICK m \in Msg : m = Message("CONNECT", main.id, 0)
    BY <1>b, Messages DEF Message, Msg, Types
  <2>2. Write(Only(main.fd, m))
    BY <1>3, <2>1 DEF Welcome
  <2>3. IF c = conn[main.fd] THEN Gets(c, m) ELSE inbox'[c] = inbox[c]
    BY <1>0, <1>b, <2>2, WriteOne
  <2> QED BY <1>3, <1>g, <2>1, <2>3 DEF Sent
<1>4. CASE SendStart
  <2>1. PICK m \in Msg, n \in Msg :
          m = Message("START", 0, SYMBOL_1) /\ n = Message("START", 0, SYMBOL_2)
    BY Messages DEF Message, Msg, Types
  <2>2. Write(ToBoth(main.opponent, m, main.id, n)) /\ main.at = "start"
    BY <1>4, <2>1 DEF SendStart, MainAt
  <2>3. clients[main.id].taken /\ clients[main.opponent].taken /\ main.id # main.opponent
    BY <2>2, TwoPlayers
  <2>4. /\ Gets(Player(main.opponent), m) /\ Gets(Player(main.id), n)
        /\ c \notin {Player(main.opponent), Player(main.id)} => inbox'[c] = inbox[c]
    BY <1>b, <2>2, <2>3, ToSlots
  <2>5. m.type = "START" /\ n.type = "START"
    BY <2>1 DEF Message
  <2> QED BY <1>4, <1>g, <2>4, <2>5 DEF Sent
<1>5. CASE SendBoard
  <2>1. PICK m \in Msg : m = Message("BOARD", 0, Empty)
    BY Messages DEF Message, Msg, Types
  <2>2. PICK who \in {main.id, main.opponent} : Write(To(who, m)) /\ main.at = "board"
    BY <1>5, <2>1 DEF SendBoard, WhoStarts, MainAt
  <2>3. clients[who].taken /\ who \in Slots
    BY <1>b, <2>2, TwoPlayers
  <2>4. Gets(Player(who), m) /\ (c # Player(who) => inbox'[c] = inbox[c])
    BY <2>2, <2>3, ToSlot
  <2>5. m.type = "BOARD"
    BY <2>1 DEF Message
  <2> QED BY <1>5, <1>g, <2>2, <2>4, <2>5 DEF Sent
<1>6. CASE handle_move
  <2>1. /\ clients[me].opponent \in Slots /\ clients[me].taken
        /\ clients[clients[me].opponent].taken /\ clients[me].opponent # me
    BY <1>6, TwoPlayers DEF handle_move, ManageAt
  <2>2. PICK opponent \in Slots : opponent = clients[me].opponent
    BY <2>1
  <2>3. OnBoard \/ server' = "aborted"
    BY <1>6, <2>1 DEF handle_move
  <2>4. OnBoard
    BY <2>3 DEF Fine
  <2> DEFINE board == [boards[clients[me].board] EXCEPT ![manage.msg.data] = clients[me].symbol]
             status == check_game_status(board)
  <2>5. PICK m \in Msg, n \in Msg : m = Message("FINISH", 0, status) /\ n = Message("BOARD", 0, board)
    BY <2>4, MoveMessages
  <2>6. m.type = "FINISH" /\ n.type = "BOARD"
    BY <2>5 DEF Message
  <2>7. Write(ToBoth(opponent, m, me, m)) \/ Write(To(opponent, n))
    BY <1>6, <2>1, <2>2, <2>4, <2>5 DEF handle_move
  <2>8. CASE Write(ToBoth(opponent, m, me, m))
    <3>1. /\ Gets(Player(opponent), m) /\ Gets(Player(me), m)
          /\ c \notin {Player(opponent), Player(me)} => inbox'[c] = inbox[c]
      BY <1>b, <2>1, <2>2, <2>8, ToSlots
    <3> QED BY <1>6, <1>g, <2>2, <2>6, <3>1 DEF Sent
  <2>9. CASE Write(To(opponent, n))
    <3>1. Gets(Player(opponent), n) /\ (c # Player(opponent) => inbox'[c] = inbox[c])
      BY <2>1, <2>2, <2>9, ToSlot
    <3> QED BY <1>6, <1>g, <2>2, <2>6, <3>1 DEF Sent
  <2> QED BY <2>7, <2>8, <2>9
<1>7. CASE handle_disconnect
  <2>1. CASE UNCHANGED inbox
    BY <2>1
  <2>2. CASE clients[me].opponent # -1 /\ TellOpponent(manage.opponent)
    <3>1. PICK m \in Msg : m = Note("OP_LEFT")
      BY Messages DEF Note, Message, Msg, Types
    <3>2. PICK o \in Slots : o = manage.opponent /\ clients[o].taken
      BY <1>7, <2>2, TwoPlayers DEF handle_disconnect, ManageAt
    <3>3. Write(To(o, m))
      BY <2>2, <3>1, <3>2 DEF TellOpponent
    <3>4. Gets(Player(o), m) /\ (c # Player(o) => inbox'[c] = inbox[c])
      BY <3>2, <3>3, ToSlot
    <3>5. m.type = "OP_LEFT"
      BY <3>1 DEF Note, Message
    <3> QED BY <1>7, <1>g, <3>2, <3>4, <3>5 DEF Sent
  <2> QED BY <1>7, <2>1, <2>2 DEF handle_disconnect
<1>8. CASE Ping
  <2>1. PICK m \in Msg : m = Note("PING")
    BY Messages DEF Note, Message, Msg, Types
  <2>2. PICK i \in Slots : clients[i].taken /\ Write(To(i, m))
    BY <1>8, <2>1 DEF Ping
  <2>3. Gets(Player(i), m) /\ (c # Player(i) => inbox'[c] = inbox[c])
    BY <2>2, ToSlot
  <2>4. m.type = "PING"
    BY <2>1 DEF Note, Message
  <2> QED BY <1>8, <1>g, <2>2, <2>3, <2>4 DEF Sent
<1>9. CASE UNCHANGED inbox
  BY <1>9
<1> QED
  BY <1>1, <1>2, <1>3, <1>4, <1>5, <1>6, <1>7, <1>8, <1>9
  DEF Threads, MainThread, ManageThread, PingThread, Seek, Pair, Receive, Lock, RemoveClient,
      Pinged

-----------------------------------------------------------------------------
(* The threads. *)

\* A step of main moves on; manage, and what it is at, wait.
LEMMA MainSteps ==
  ASSUME Base, Step
  PROVE  \/ UNCHANGED main /\ ~register_client /\ ~Welcome /\ ~Seek /\ ~Pair /\ ~SendStart
                           /\ ~SendBoard
         \/ /\ UNCHANGED manage
            /\ \/ Accept /\ main.at = "idle" /\ main'.at = "register"
               \/ register_client /\ main.at = "register" /\ main'.at \in {"welcome", "idle"}
               \/ Welcome /\ main.at = "welcome" /\ main'.at = "seek" /\ main'.id = main.id
               \/ Seek /\ main.at = "seek" /\ main'.at \in {"pair", "idle"} /\ main'.id = main.id
               \/ /\ Pair /\ main.at = "pair" /\ main'.at = "start"
                  /\ main'.id = main.id /\ main'.opponent = main.opponent
               \/ /\ SendStart /\ main.at = "start" /\ main'.at = "board"
                  /\ main'.id = main.id /\ main'.opponent = main.opponent
               \/ SendBoard /\ main.at = "board" /\ main'.at = "idle"
<1>0. TypedThreads /\ Typed /\ DescriptorsRight
  BY DEF Base, Typed
<1>1. CASE register_client
  BY <1>0, <1>1, Registered DEF register_client, MainAt, MainGoes, TypedThreads
<1>2. CASE Accept
  BY <1>0, <1>2, Accepted
  DEF Accept, MainAt, MainGoes, TypedThreads, register_client, Welcome, Seek, Pair, SendStart,
      SendBoard
<1>3. CASE Welcome \/ Pair \/ SendStart \/ SendBoard
  BY <1>0, <1>3 DEF Welcome, Pair, SendStart, SendBoard, MainAt, MainGoes, TypedThreads
<1>4. CASE Seek
  BY <1>0, <1>4 DEF Seek, MainAt, MainGoes, TypedThreads
<1>5. CASE ~(register_client \/ Accept \/ Welcome \/ Seek \/ Pair \/ SendStart \/ SendBoard)
  <2>1. UNCHANGED main
    BY <1>5 DEF Step, Threads, MainThread, ManageThread, PingThread, Lock, Receive, handle_move,
      handle_disconnect, RemoveClient, Ping, Pinged, Client, Connect, Read,
      handle_board, Sigint, EndOfFile, threads
  <2> QED BY <1>5, <2>1
<1> QED
  BY <1>1, <1>2, <1>3, <1>4, <1>5

\* A step of manage moves on; main waits.
LEMMA ManageSteps ==
  ASSUME Base, Step
  PROVE  \/ UNCHANGED manage /\ ~Receive /\ ~Lock /\ ~handle_move /\ ~handle_disconnect
                             /\ ~RemoveClient
         \/ /\ UNCHANGED main
            /\ \/ Receive /\ manage.at = "idle" /\ manage'.at = "lock"
               \/ Lock /\ manage.at = "lock" /\ manage'.at = "idle"
               \/ /\ Lock /\ manage.at = "lock" /\ manage'.at \in {"MOVE", "DISCONNECT"}
                  /\ manage'.at = manage.msg.type /\ manage'.msg = manage.msg
                  /\ manage'.opponent = clients[me].opponent
                  /\ manage'.at = "MOVE" => clients[me].opponent # -1
               \/ handle_move /\ manage.at = "MOVE" /\ manage'.at = "idle"
               \/ /\ handle_disconnect /\ manage.at = "DISCONNECT" /\ manage'.at = "leaving"
                  /\ manage'.msg = manage.msg /\ manage'.opponent = manage.opponent
               \/ RemoveClient /\ manage.at = "leaving" /\ manage'.at = "idle"
<1>0. TypedThreads
  BY DEF Base, Typed
<1>1. CASE Receive
  BY <1>0, <1>1 DEF Receive, ManageAt, TypedThreads
<1>2. CASE Lock
  BY <1>0, <1>2 DEF Lock, ManageAt, ManageIdle, TypedThreads, me
<1>3. CASE handle_move \/ handle_disconnect \/ RemoveClient
  BY <1>0, <1>3 DEF handle_move, handle_disconnect, RemoveClient, ManageAt, ManageIdle,
      TypedThreads
<1>4. CASE ~(Receive \/ Lock \/ handle_move \/ handle_disconnect \/ RemoveClient)
  <2>1. UNCHANGED manage
    BY <1>4 DEF Step, Threads, MainThread, ManageThread, PingThread, Accept, register_client,
      Welcome, Seek, Pair, SendStart, SendBoard, Ping, Pinged, Client, Connect,
      Read, handle_board, Sigint, EndOfFile, threads
  <2> QED BY <1>4, <2>1
<1> QED
  BY <1>1, <1>2, <1>3, <1>4

\* The slots that a step leaves alone.
LEMMA PairsKept ==
  ASSUME Base, Step, ~register_client, ~Pair, ~SendBoard, ~handle_disconnect, ~RemoveClient
  PROVE  SamePairs
<1>0. TypedTable /\ TypedThreads
  BY DEF Base, Typed
<1>1. CASE SendStart
  <2>1. PICK i, j \in Slots : i = main.id /\ j = main.opponent
    BY <1>0 DEF TypedThreads
  <2>2. clients' = [clients EXCEPT ![j].symbol = SYMBOL_1, ![i].symbol = SYMBOL_2]
    BY <1>1, <2>1 DEF SendStart
  <2> QED BY <1>0, <2>2 DEF TypedTable, Slot, SamePairs
<1>2. CASE ~SendStart
  BY <1>2 DEF SamePairs, Step, Threads, MainThread, ManageThread, PingThread, Accept, Welcome,
      Seek, Lock, Receive, handle_move, Ping, Pinged, Client, Connect, Read,
      handle_board, Sigint, EndOfFile, table
<1> QED
  BY <1>1, <1>2

\* The client that manage removes, and its opponent, lose their board.
LEMMA RemovedIs ==
  ASSUME Base, RemoveClient
  PROVE  \A k \in Slots :
           /\ clients'[k].opponent = clients[k].opponent
           /\ k # me => clients'[k].taken = clients[k].taken
           /\ clients'[k].board \in {clients[k].board, NULL}
<1>0. TypedTable /\ TypedThreads
  BY DEF Base, Typed
<1>1. me \in Slots /\ clients' = Removed(me, manage.opponent)
  BY <1>0 DEF TypedThreads, Msg, me, RemoveClient
<1> QED
  BY <1>0, <1>1 DEF Removed, TypedTable, Slot

\* What main knows stays so.
LEMMA MainStep ==
  ASSUME Base, Pairs, Step, Fine'
  PROVE  MainRight'
<1>0. TypedTable /\ TypedThreads /\ SlotsRight /\ ThreadsRight /\ ArrayRight /\ MainRight
      /\ ManageRight /\ ~Racing /\ Fine /\ ~Racing'
  BY FineStep DEF Base, Typed, Pairs
<1>b. me \in Slots /\ main.id \in Slots /\ main.opponent \in Slots
      /\ manage.opponent \in Slots \union {-1} /\ -1 \notin Slots
  BY <1>0, FdsAre DEF TypedThreads, Msg, me, TypedTable
<1>c. \A k \in Slots : clients[k].opponent \in Slots \union {-1}
  BY <1>0 DEF TypedTable, Slot
<1>1. CASE main'.at \in {"idle", "register"}
  BY <1>1 DEF MainRight
<1>2. CASE register_client /\ main'.at = "welcome"
  <2>1. UNCHANGED manage
    BY <1>2 DEF register_client
  <2>2. PICK i \in Slots : /\ ~clients[i].taken /\ main'.id = i
                           /\ clients'[i].taken /\ clients'[i].opponent = -1
    BY <1>0, <1>2, Registered DEF MainGoes, TypedThreads
  <2>3. manage.at = "leaving" => i # me /\ i # manage.opponent
    BY <1>0, <1>b, <2>2 DEF ThreadsRight, ManageRight, Free
  <2> QED BY <1>2, <2>1, <2>2, <2>3 DEF MainRight, Free, Removing, me
<1>3. CASE Welcome
  <2>1. /\ main.at = "welcome" /\ main'.at = "seek" /\ main'.id = main.id
        /\ UNCHANGED <<manage, clients>>
    BY <1>0, <1>3 DEF Welcome, MainAt, MainGoes, TypedThreads
  <2> QED BY <1>0, <2>1 DEF MainRight, Free, Removing, me
<1>4. CASE Seek /\ main'.at = "pair"
  <2>1. main.at = "seek" /\ main'.id = main.id /\ UNCHANGED <<manage, clients>>
        /\ Others(main.id) # {} /\ main'.opponent = Min(Others(main.id))
    BY <1>0, <1>4 DEF Seek, MainAt, MainGoes, table, TypedThreads
  <2>2. Min(Others(main.id)) \in Others(main.id)
    BY <2>1, MinSlot DEF Others, Waiting
  <2> QED BY <1>0, <1>4, <2>1, <2>2 DEF MainRight, Free, Removing, me, Others, Waiting
<1>5. CASE Pair
  <2>1. UNCHANGED <<manage, boards>> /\ main.at = "pair" /\ main.id # main.opponent
        /\ main'.at = "start" /\ main'.id = main.id /\ main'.opponent = main.opponent
    BY <1>0, <1>5 DEF Pair, MainAt, MainGoes, ThreadsRight, TypedThreads
  <2>2. Free(main.id) /\ Free(main.opponent) /\ ~Removing(main.id) /\ ~Removing(main.opponent)
    BY <1>0, <2>1 DEF MainRight, Racing, Removing
  <2>3. clients[main.id].board = NULL /\ clients[main.opponent].board = NULL
    BY <1>0, <1>b, <2>2 DEF ArrayRight, Free
  <2>4. /\ clients'[main.id].board = NULL /\ clients'[main.opponent].board = NULL
        /\ clients'[main.id].opponent = main.opponent /\ clients'[main.opponent].opponent = main.id
    BY <1>5, <1>b, <2>1, <2>3, PairIs
  <2> QED BY <2>1, <2>4 DEF MainRight
<1>6. CASE SendStart
  <2>1. main.at = "start" /\ main'.at = "board" /\ main'.id = main.id
        /\ main'.opponent = main.opponent
    BY <1>0, <1>6 DEF SendStart, MainAt, MainGoes, TypedThreads
  <2>2. SamePairs
    BY <1>6, <2>1, PairsKept DEF SendStart, register_client, Pair, SendBoard, handle_disconnect,
      RemoveClient, MainAt, threads
  <2> QED BY <1>0, <1>b, <2>1, <2>2 DEF MainRight, SamePairs
<1>7. CASE handle_disconnect
  <2>1. main' = main /\ manage.at = "DISCONNECT" /\ manage'.at = "leaving" /\ me' = me
        /\ manage'.opponent = manage.opponent /\ UNCHANGED boards
        /\ manage.opponent = clients[me].opponent
    BY <1>0, <1>7 DEF handle_disconnect, ManageAt, TypedThreads, me, ManageRight
  <2>2. \A k \in Slots : k \notin {me, manage.opponent} =>
          /\ clients'[k].taken = clients[k].taken /\ clients'[k].board = clients[k].board
          /\ clients'[k].opponent = clients[k].opponent /\ ~Removing(k)'
    <3>1. CASE UNCHANGED clients
      BY <2>1, <3>1 DEF Removing
    <3>2. CASE clients' = Parted(me)
      BY <1>0, <1>b, <2>1, <3>2, PartedIs DEF PartedFrom, Removing
    <3> QED BY <1>7, <3>1, <3>2 DEF handle_disconnect
  <2>3. CASE main.at \in {"welcome", "seek", "pair"}
    <3>1. Free(main.id) /\ main.id # me
      BY <1>0, <2>1, <2>3 DEF MainRight, Racing
    <3>2. main.id # manage.opponent
      BY <1>0, <1>b, <2>1, <3>1 DEF ArrayRight, Free
    <3>3. main.at = "pair" => Free(main.opponent) /\ main.opponent \notin {me, manage.opponent}
      BY <1>0, <2>1 DEF MainRight, Racing
    <3> QED BY <1>b, <2>1, <2>2, <2>3, <3>1, <3>2, <3>3 DEF MainRight, Free
  <2>4. CASE main.at \in {"start", "board"}
    <3>1. main.id # me /\ main.opponent \notin {me, manage.opponent}
      BY <1>0, <2>1, <2>4 DEF Racing
    <3>2. main.id # manage.opponent
      BY <1>0, <1>b, <2>1, <2>4, <3>1 DEF ArrayRight, MainRight
    <3> QED BY <1>0, <1>b, <2>1, <2>2, <2>4, <3>1, <3>2 DEF MainRight
  <2>5. main.at \in {"idle", "register", "exiting", "closing"} => MainRight'
    BY <2>1 DEF MainRight
  <2> QED BY <1>0, <2>3, <2>4, <2>5 DEF TypedThreads
<1>8. CASE RemoveClient
  <2>1. main' = main /\ manage.at = "leaving" /\ manage'.at = "idle"
    BY <1>0, <1>8 DEF RemoveClient, ManageAt, ManageIdle, TypedThreads
  <2>2. \A k \in Slots : /\ ~Removing(k)' /\ clients'[k].opponent = clients[k].opponent
                         /\ k # me => clients'[k].taken = clients[k].taken
                         /\ clients'[k].board \in {clients[k].board, NULL}
    BY <1>8, <2>1, RemovedIs DEF Removing
  <2>3. main.at \in {"welcome", "seek", "pair", "start", "board"} => main.id # me
    BY <1>0, <2>1 DEF Racing
  <2>4. main.at \in {"pair", "start", "board"} => main.opponent # me
    BY <1>0, <2>1 DEF Racing
  <2> QED BY <1>0, <1>b, <2>1, <2>2, <2>3, <2>4 DEF MainRight, Free
<1>9. ASSUME UNCHANGED main, SamePairs, \A k \in Slots : Removing(k)' => Removing(k)
      PROVE  MainRight'
  BY <1>0, <1>b, <1>9 DEF MainRight, Free, SamePairs
<1>10. CASE ~(register_client \/ Welcome \/ Seek \/ Pair \/ SendStart \/ handle_disconnect
              \/ RemoveClient)
  <2>1. CASE SendBoard \/ main'.at = "register"
    BY <1>1, <2>1, MainSteps DEF SendBoard, MainGoes, MainAt
  <2>2. CASE ~SendBoard /\ main'.at # "register"
    <3>1. UNCHANGED main /\ SamePairs
      BY <1>10, <2>2, MainSteps, PairsKept
    <3>2. \A k \in Slots : Removing(k)' => Removing(k)
      BY <1>0, <1>10, ManageSteps DEF Removing, me
    <3> QED BY <1>9, <3>1, <3>2
  <2> QED BY <2>1, <2>2
<1>11. register_client => main'.at \in {"welcome", "idle"}
  BY MainSteps DEF register_client, MainAt
<1>12. Seek => main'.at \in {"pair", "idle"}
  BY MainSteps DEF Seek, MainAt
<1> QED
  BY <1>1, <1>2, <1>3, <1>4, <1>5, <1>6, <1>7, <1>8, <1>10, <1>11, <1>12

\* What manage knows stays so.
LEMMA ManageStep ==
  ASSUME Base, Pairs, Step, Fine'
  PROVE  ManageRight'
<1>0. TypedTable /\ TypedThreads /\ SlotsRight /\ ThreadsRight /\ ArrayRight /\ MainRight
      /\ ManageRight /\ ~Racing /\ Fine /\ ~Racing'
  BY FineStep DEF Base, Typed, Pairs
<1>b. me \in Slots /\ main.id \in Slots /\ main.opponent \in Slots
      /\ manage.opponent \in Slots \union {-1} /\ -1 \notin Slots
  BY <1>0, FdsAre DEF TypedThreads, Msg, me, TypedTable
<1>c. \A k \in Slots : clients[k].opponent \in Slots \union {-1}
  BY <1>0 DEF TypedTable, Slot
<1>1. CASE manage'.at \in {"idle", "lock"}
  BY <1>1 DEF ManageRight
<1>2. CASE Lock /\ manage'.at \in {"MOVE", "DISCONNECT"}
  <2>1. clients' = clients /\ manage'.msg = manage.msg /\ manage'.opponent = clients[me].opponent
        /\ (manage'.at = "MOVE" => clients[me].opponent # -1 /\ manage.msg.type = "MOVE")
    BY <1>2, ManageSteps DEF Lock, table
  <2> QED BY <1>2, <2>1 DEF ManageRight, me
<1>3. CASE handle_disconnect
  <2>1. manage.at = "DISCONNECT" /\ manage'.at = "leaving" /\ me' = me
        /\ manage'.opponent = manage.opponent /\ main' = main
        /\ manage.opponent = clients[me].opponent
    BY <1>0, <1>3 DEF handle_disconnect, ManageAt, TypedThreads, me, ManageRight
  <2>2. CASE clients[me].opponent = -1
    <3>1. UNCHANGED clients /\ clients[me].board = NULL
      BY <1>0, <1>3, <1>b, <2>1, <2>2 DEF handle_disconnect, ArrayRight, Removing
    <3> QED BY <1>b, <2>1, <2>2, <3>1 DEF ManageRight
  <2>3. CASE clients[me].opponent # -1
    <3>1. clients' = Parted(me)
      BY <1>3, <2>3 DEF handle_disconnect
    <3>2. PartedFrom(clients', me, manage.opponent)
      BY <1>0, <1>b, <2>1, <3>1, PartedIs
    <3>3. manage.opponent \in Slots /\ manage.opponent # me /\ clients[manage.opponent].taken
      BY <1>b, <2>1, <2>3, <1>0, TwoPlayers
    <3>4. ~Starting(me)
      BY <1>0, <2>1 DEF Starting, Racing
    <3>5. clients[me].board = clients[manage.opponent].board
      BY <1>0, <1>b, <2>1, <2>3, <3>4 DEF ArrayRight
    <3> QED BY <1>b, <2>1, <3>2, <3>3, <3>5 DEF ManageRight, PartedFrom, Free
  <2> QED BY <2>2, <2>3
<1>4. CASE UNCHANGED manage /\ ~SendBoard
  <2> DEFINE same(k) == /\ clients'[k].taken = clients[k].taken
                        /\ clients'[k].board = clients[k].board
                        /\ clients'[k].opponent = clients[k].opponent
  <2>1. ASSUME NEW i \in Slots, manage.at \in {"MOVE", "DISCONNECT", "leaving"},
               i = me \/ (manage.at = "leaving" /\ i = manage.opponent)
        PROVE  same(i)
    <3>1. clients[i].taken
      BY <1>0, <1>b, <2>1 DEF ThreadsRight, ManageRight, ArrayRight, Free
    <3>2. CASE register_client
      BY <2>1, <3>1, <3>2, Registered DEF SameSlot
    <3>3. CASE Pair
      <4>1. main.at = "pair" /\ main'.at = "start" /\ Free(main.id) /\ Free(main.opponent)
            /\ ~Removing(main.id) /\ main'.id = main.id /\ main'.opponent = main.opponent
        BY <1>0, <3>3, MainSteps DEF MainRight, Pair, MainAt
      <4>2. i # main.id /\ i # main.opponent
        <5>1. CASE manage.at = "MOVE"
          BY <1>0, <2>1, <4>1, <5>1 DEF ManageRight, Free
        <5>2. CASE manage.at = "DISCONNECT"
          BY <1>0, <2>1, <4>1, <5>2 DEF Racing
        <5>3. CASE manage.at = "leaving"
          BY <1>0, <2>1, <4>1, <5>3 DEF Racing, Removing
        <5> QED BY <2>1, <5>1, <5>2, <5>3
      <4> QED BY <3>3, <4>2, PairIs
    <3>4. CASE ~register_client /\ ~Pair
      BY <1>4, <3>4, PairsKept, ManageSteps DEF SamePairs
    <3> QED BY <3>2, <3>3, <3>4
  <2> QED BY <1>0, <1>b, <1>4, <2>1 DEF ManageRight, me, Free
<1>5. CASE SendBoard
  <2>1. main.at = "board" /\ UNCHANGED manage
        /\ clients[main.id].opponent # -1 /\ clients[main.opponent].opponent # -1
    BY <1>0, <1>5, <1>b, MainSteps DEF SendBoard, MainAt, MainRight
  <2>2. \A k \in Slots :
          /\ clients'[k].taken = clients[k].taken /\ clients'[k].opponent = clients[k].opponent
          /\ k \notin {main.id, main.opponent} => clients'[k].board = clients[k].board
    BY <1>5, SendBoardIs
  <2>3. manage.at = "leaving" =>
          /\ me \notin {main.id, main.opponent}
          /\ manage.opponent \notin {main.id, main.opponent}
    BY <1>0, <1>b, <2>1 DEF ManageRight, Free
  <2> QED BY <1>0, <1>b, <2>1, <2>2, <2>3 DEF ManageRight, me, Free
<1> QED
  BY <1>1, <1>2, <1>3, <1>4, <1>5, ManageSteps

\* The client that is accepted waits for its slot.
LEMMA NewcomerStep ==
  ASSUME Base, Pairs, Step, Fine'
  PROVE  NewcomerRight'
<1>0. TypedTable /\ TypedThreads /\ TypedClients /\ TypedServer /\ DescriptorsRight /\ SlotsRight
      /\ BacklogRight /\ ThreadsRight /\ NewcomerRight /\ Fine
  BY FineStep DEF Base, Typed, Pairs
<1>a. TypedTable' /\ TypedClients' /\ DescriptorsRight' /\ Typed /\ DescriptorsRight
  BY TypedStep, DescriptorsStep DEF Base, Typed
<1> SUFFICES ASSUME main'.at = "register"
             PROVE  /\ client'[conn'[main'.fd]] # "playing" /\ inbox'[conn'[main'.fd]] = <<>>
                    /\ No("MOVE", outbox'[conn'[main'.fd]])
  BY DEF NewcomerRight
<1>1. CASE Accept /\ ~UNCHANGED main
  <2>1. PICK c \in backlog, f \in Fds :
           /\ conn[f] = Nobody /\ conn' = [conn EXCEPT ![f] = c]
           /\ outbox' = [outbox EXCEPT ![c] = Tail(@)]
           /\ main' = [main EXCEPT !.at = "register", !.fd = f] /\ UNCHANGED inbox
    BY <1>1, <1>a, Accepted
  <2>2. c \in Clients /\ main'.fd = f /\ conn'[f] = c /\ client' = client
    BY <1>0, <1>1, <2>1 DEF TypedClients, TypedTable, TypedThreads, Accept
  <2>3. client[c] # "playing" /\ inbox[c] = <<>> /\ outbox[c] # <<>> /\ No("MOVE", outbox[c])
    BY <1>0, <2>1 DEF BacklogRight
  <2>4. outbox'[c] = Tail(outbox[c]) /\ outbox[c] \in Seq(Msg)
    BY <1>0, <2>1, <2>2 DEF TypedClients
  <2>5. No("MOVE", outbox'[c])
    BY <2>3, <2>4, NoTail
  <2> QED BY <2>1, <2>2, <2>3, <2>5
<1>2. CASE UNCHANGED main
  <2>1. main.at = "register" /\ ~register_client /\ ~Accept
    BY <1>2, MainSteps DEF Accept, MainAt
  <2>2. PICK c : c = conn[main.fd]
    OBVIOUS
  <2>3. c \in Clients /\ main.fd \in Fds /\ client[c] # "new" /\ client[c] # "playing"
        /\ inbox[c] = <<>> /\ No("MOVE", outbox[c])
        /\ \A i \in Slots : clients[i].taken => clients[i].sockfd # main.fd
    BY <1>0, <2>1, <2>2 DEF TypedTable, TypedThreads, ThreadsRight, DescriptorsRight, NewcomerRight
  <2>4. \A i \in Slots : clients[i].taken => Player(i) # c
    BY <1>0, <2>2, <2>3, OwnPlayer DEF Player, DescriptorsRight
  <2>5. conn'[main'.fd] = c
    <3>1. RemoveClient => clients[me].taken /\ me \in Slots
      BY <1>0 DEF RemoveClient, ManageAt, ThreadsRight, TypedThreads, Msg, me
    <3>2. RemoveClient => clients[me].sockfd # main.fd
      BY <2>3, <3>1
    <3> QED BY <1>0, <1>2, <2>1, <2>2, <2>3, <3>2, ConnSteps DEF TypedTable
  <2>6. CASE Threads
    <3>1. client' = client
      BY <2>6, ServerReads
    <3>2. inbox'[c] = inbox[c]
      <4>1. \A m \in Msg : Sent(c, m) => inbox' = inbox
        <5>1. handle_move => /\ clients[me].taken /\ clients[clients[me].opponent].taken
                             /\ me \in Slots /\ clients[me].opponent \in Slots
          BY <1>0, TwoPlayers DEF handle_move, ManageAt
        <5>2. ~(Welcome \/ SendStart \/ SendBoard)
          BY <2>1 DEF Welcome, SendStart, SendBoard, MainAt
        <5>3. ASSUME handle_disconnect, inbox' # inbox PROVE c # Player(manage.opponent)
          <6>1. manage.at = "DISCONNECT" /\ clients[me].opponent # -1
            BY <5>3 DEF handle_disconnect, ManageAt
          <6>2. manage.opponent \in Slots /\ clients[manage.opponent].taken
            BY <1>0, <6>1, TwoPlayers
          <6> QED BY <2>4, <6>2
        <5> QED BY <2>1, <2>4, <5>1, <5>2, <5>3 DEF Sent
      <4> QED BY <1>0, <2>3, <2>6, <4>1, ServerSends
    <3>3. No("MOVE", outbox'[c])
      <4>1. CASE Receive
        <5>1. PICK f \in watched :
                outbox' = [outbox EXCEPT ![conn[f]] = Tail(@)] \/ outbox' = outbox
          BY <4>1 DEF Receive
        <5>2. PICK i \in Slots : clients[i].taken /\ clients[i].sockfd = f
          BY <1>0, <5>1 DEF SlotsRight
        <5>3. conn[f] # c
          BY <2>4, <5>2 DEF Player
        <5> QED BY <1>0, <2>3, <5>1, <5>3 DEF TypedClients
      <4>2. CASE ~Receive
        BY <2>1, <2>3, <2>6, <4>2 DEF Threads, MainThread, ManageThread, PingThread, Welcome, Seek,
          Pair, SendStart, SendBoard, Lock, handle_move, handle_disconnect, RemoveClient, Ping,
          Pinged, processes
      <4> QED BY <4>1, <4>2
    <3> QED BY <2>3, <2>5, <3>1, <3>2, <3>3
  <2>7. ASSUME NEW d \in Clients, Client(d), d # c
        PROVE  client'[c] # "playing" /\ inbox'[c] = <<>> /\ No("MOVE", outbox'[c])
    BY <2>3, <2>7, ClientSteps
  <2>8. ASSUME Client(c)
        PROVE  client'[c] # "playing" /\ inbox'[c] = <<>> /\ No("MOVE", outbox'[c])
    <3>1. Exits(c)
      BY <2>3, <2>8 DEF Client, Connect, Read, handle_board, Sigint, EndOfFile
    <3>2. PICK m \in Msg : m = Message("DISCONNECT", client_id[c], 0)
      <4>1. client_id[c] \in Slots
        BY <1>0, <2>3 DEF TypedClients
      <4> QED BY <4>1, Messages DEF Message, Msg, Types
    <3>3. m.type # "MOVE"
      BY <3>2 DEF Message
    <3>4. /\ client'[c] = "gone" /\ inbox'[c] = <<>> /\ outbox'[c] = Append(outbox[c], m)
          /\ outbox[c] \in Seq(Msg)
      BY <1>0, <2>3, <3>1, <3>2 DEF Exits, TypedClients, TypedServer
    <3> QED BY <2>3, <3>3, <3>4, NoAppend
  <2> QED BY <2>5, <2>6, <2>7, <2>8 DEF Step
<1> QED
  BY <1>1, <1>2, MainSteps

\* The second part of the invariant is inductive with the first.
LEMMA PairsStep == Base /\ Pairs /\ Step => Pairs'
<1>1. ASSUME Base, Pairs, Step, Fine' PROVE Pairs'
  BY <1>1, ArrayStep, MainStep, ManageStep, NewcomerStep, FineStep DEF Pairs
<1> QED
  BY <1>1 DEF Pairs

-----------------------------------------------------------------------------
(* Who waits, and who leaves. *)

\* What Leaving and Played say of the messages, read one by one.
LEMMA LeavingIs ==
  ASSUME NEW i
  PROVE  Leaving(i) <=> \/ Player(i) = Nobody \/ client[Player(i)] = "gone"
                        \/ ~No("OP_LEFT", inbox[Player(i)]) \/ ~No("FINISH", inbox[Player(i)])
BY DEF Leaving, No, ToSet

\* Whether a client has played, said of its queue.
LEMMA PlayedIs ==
  ASSUME NEW i
  PROVE  Played(i) <=> client[Player(i)] = "playing" \/ ~No("START", inbox[Player(i)])
BY DEF Played, No, ToSet

\* A client reads its next message, or leaves.
LEMMA ClientReads ==
  ASSUME Base, NEW c \in Clients, Client(c), client[c] # "new"
  PROVE  \/ /\ client'[c] = "gone" /\ inbox'[c] = <<>> /\ client_id'[c] = client_id[c]
            /\ \E m \in Msg : m.type = "DISCONNECT" /\ outbox'[c] = Append(outbox[c], m)
         \/ /\ inbox[c] # <<>> /\ inbox'[c] = Tail(inbox[c])
            /\ \/ /\ Head(inbox[c]).type = "CONNECT" /\ client_id'[c] = Head(inbox[c]).id
                  /\ outbox'[c] = outbox[c] /\ client'[c] = client[c]
               \/ /\ Head(inbox[c]).type = "START" /\ client'[c] = "playing"
                  /\ outbox'[c] = outbox[c] /\ client_id'[c] = client_id[c]
               \/ /\ Head(inbox[c]).type = "PING" /\ client'[c] = client[c]
                  /\ client_id'[c] = client_id[c]
                  /\ \E m \in Msg : m.type = "PING" /\ outbox'[c] = Append(outbox[c], m)
               \/ /\ Head(inbox[c]).type = "BOARD" /\ client'[c] = client[c]
                  /\ client_id'[c] = client_id[c]
                  /\ \E m \in Msg : m.type = "MOVE" /\ m.id = client_id[c]
                                    /\ outbox'[c] = Append(outbox[c], m)
<1>0. TypedClients /\ TypedServer
  BY DEF Base, Typed
<1>1. client_id[c] \in Slots /\ inbox[c] \in Seq(Msg) /\ outbox[c] \in Seq(Msg)
  BY <1>0 DEF TypedClients, TypedServer
<1>2. ASSUME Exits(c)
      PROVE  /\ client'[c] = "gone" /\ inbox'[c] = <<>> /\ client_id'[c] = client_id[c]
             /\ \E m \in Msg : m.type = "DISCONNECT" /\ outbox'[c] = Append(outbox[c], m)
  <2>1. PICK m \in Msg : m = Message("DISCONNECT", client_id[c], 0)
    BY <1>1, Messages DEF Message, Msg, Types
  <2>2. m.type = "DISCONNECT"
    BY <2>1 DEF Message
  <2> QED BY <1>0, <1>2, <2>1, <2>2 DEF Exits, TypedClients, TypedServer
<1>3. CASE Read(c)
  <2>1. inbox[c] # <<>>
    BY <1>3 DEF Read
  <2>2. CASE Head(inbox[c]).type = "CONNECT"
    BY <1>0, <1>3, <2>1, <2>2 DEF Read, TypedClients, TypedServer
  <2>3. CASE Head(inbox[c]).type = "START"
    BY <1>0, <1>3, <2>1, <2>3 DEF Read, TypedClients, TypedServer
  <2>4. CASE Head(inbox[c]).type = "PING"
    <3>1. PICK m \in Msg : m = Message("PING", client_id[c], 0)
      BY <1>1, Messages DEF Message, Msg, Types
    <3>2. m.type = "PING"
      BY <3>1 DEF Message
    <3>3. /\ client' = client /\ client_id' = client_id /\ inbox' = [inbox EXCEPT ![c] = Tail(@)]
          /\ outbox' = [outbox EXCEPT ![c] = Append(@, m)]
      BY <1>3, <2>4, <3>1 DEF Read
    <3> QED BY <1>0, <2>1, <2>4, <3>2, <3>3 DEF TypedClients, TypedServer
  <2>5. CASE Exits(c)
    BY <1>2, <2>5
  <2> QED BY <1>3, <2>2, <2>3, <2>4, <2>5 DEF Read
<1>4. CASE handle_board(c)
  <2>1. PICK x \in Cells : outbox' = [outbox EXCEPT ![c] = Append(@, Message("MOVE", client_id[c], x))]
    BY <1>4 DEF handle_board
  <2>2. PICK m \in Msg : m = Message("MOVE", client_id[c], x)
    BY <1>1 DEF Message, Msg, Types, Data
  <2>3. m.type = "MOVE" /\ m.id = client_id[c]
    BY <2>2 DEF Message
  <2> QED BY <1>0, <1>4, <2>1, <2>2, <2>3 DEF handle_board, TypedClients, TypedServer
<1>5. CASE Sigint(c) \/ EndOfFile(c)
  BY <1>2, <1>5 DEF Sigint, EndOfFile
<1>6. ~Connect(c)
  BY DEF Connect
<1> QED
  BY <1>3, <1>4, <1>5, <1>6 DEF Client

\* What the client of a slot gets in a step of the server.
Got(i, m) ==
  \/ Welcome /\ i = main.id /\ m = Message("CONNECT", i, 0)
  \/ SendStart /\ m.type = "START" /\ i \in {main.id, main.opponent}
  \/ SendBoard /\ m.type = "BOARD" /\ i \in {main.id, main.opponent}
  \/ handle_move /\ m.type \in {"BOARD", "FINISH"} /\ i \in {me, clients[me].opponent}
  \/ handle_disconnect /\ m.type = "OP_LEFT"
  \/ Ping /\ m.type = "PING"

\* What the client of a slot gets from a step of the server.
LEMMA SlotGets ==
  ASSUME Base, Pairs, Threads, Fine, Fine', NEW i \in Slots, clients[i].taken
  PROVE  \/ inbox'[Player(i)] = inbox[Player(i)]
         \/ \E m \in Msg : /\ inbox'[Player(i)] = Append(inbox[Player(i)], m)
                           /\ client[Player(i)] # "gone" /\ Got(i, m)
<1>1. Player(i) \in Clients
  BY OwnPlayer
<1>2. ASSUME NEW m \in Msg, Sent(Player(i), m) PROVE Got(i, m)
  <2>1. ASSUME NEW k \in Slots, clients[k].taken, Player(i) = Player(k) PROVE i = k
    BY <2>1, OwnPlayer
  <2>2. CASE Welcome /\ Player(i) = conn[main.fd] /\ m = Message("CONNECT", main.id, 0)
    <3>1. clients[main.id].taken /\ Player(main.id) = conn[main.fd] /\ main.id \in Slots
      BY <2>2 DEF Welcome, MainAt, Base, ThreadsRight, Pairs, MainRight, Free, Player, Typed,
        TypedThreads
    <3> QED BY <2>1, <2>2, <3>1 DEF Got
  <2>3. CASE /\ \/ SendStart /\ m.type = "START"
                \/ SendBoard /\ m.type = "BOARD"
             /\ Player(i) \in {Player(main.id), Player(main.opponent)}
    <3>1. /\ clients[main.id].taken /\ clients[main.opponent].taken
          /\ main.id \in Slots /\ main.opponent \in Slots
      BY <2>3, TwoPlayers DEF SendStart, SendBoard, MainAt
    <3>2. i \in {main.id, main.opponent}
      BY <2>1, <2>3, <3>1
    <3> QED BY <2>3, <3>2 DEF Got
  <2>4. CASE /\ handle_move /\ m.type \in {"BOARD", "FINISH"}
             /\ Player(i) \in {Player(me), Player(clients[me].opponent)}
    <3>1. /\ clients[me].taken /\ clients[clients[me].opponent].taken
          /\ me \in Slots /\ clients[me].opponent \in Slots
      BY <2>4, TwoPlayers DEF handle_move, ManageAt
    <3>2. i \in {me, clients[me].opponent}
      BY <2>1, <2>4, <3>1
    <3> QED BY <2>4, <3>2 DEF Got
  <2>5. CASE \A k \in Slots : clients[k].taken => Player(k) # Player(i)
    BY <2>5
  <2>6. CASE (handle_disconnect /\ m.type = "OP_LEFT") \/ (Ping /\ m.type = "PING")
    BY <2>6 DEF Got
  <2> QED BY <1>2, <2>2, <2>3, <2>4, <2>5, <2>6 DEF Sent
<1> QED
  BY <1>1, <1>2, ServerSends

\* Who is leaving leaves.
LEMMA LeavingStays ==
  ASSUME Base, Pairs, Step, Fine', NEW i \in Slots, clients[i].taken, clients'[i].taken,
         Leaving(i)
  PROVE  Leaving(i)'
<1>0. Fine /\ TypedServer /\ TypedClients
  BY FineStep DEF Base, Typed
<1>1. PICK c \in Clients : c = Player(i) /\ client[c] # "new"
  BY <1>0, OwnPlayer
<1>2. Player(i)' = c
  BY <1>1, PlayersStay DEF Player, SameClient
<1>3. client[c] = "gone" \/ ~No("OP_LEFT", inbox[c]) \/ ~No("FINISH", inbox[c])
  <2>1. Player(i) # Nobody
    BY <1>0, OwnPlayer
  <2> QED BY <1>1, <2>1, LeavingIs
<1>4. inbox[c] \in Seq(Msg)
  BY <1>0 DEF TypedServer
<1>5. client'[c] = "gone" \/ ~No("OP_LEFT", inbox'[c]) \/ ~No("FINISH", inbox'[c])
  <2>1. CASE Threads
    <3>1. client' = client
      BY <2>1, ServerReads
    <3>2. inbox'[c] = inbox[c] \/ \E m \in Msg : inbox'[c] = Append(inbox[c], m)
      BY <1>0, <2>1, ServerSends
    <3> QED BY ZenonT(60), <1>3, <1>4, <3>1, <3>2, NoAppend
  <2>2. ASSUME NEW d \in Clients, Client(d), d # c
        PROVE  client'[c] = client[c] /\ inbox'[c] = inbox[c]
    BY <2>2, ClientSteps
  <2>3. ASSUME Client(c), client'[c] # "gone"
        PROVE  ~No("OP_LEFT", inbox'[c]) \/ ~No("FINISH", inbox'[c])
    <3>1. client[c] # "gone"
      BY <1>1, <2>3, ClientSteps
    <3>2. inbox[c] # <<>> /\ inbox'[c] = Tail(inbox[c])
          /\ Head(inbox[c]).type \in {"CONNECT", "START", "PING", "BOARD"}
      BY <1>1, <2>3, ClientReads
    <3> QED BY <1>3, <1>4, <3>1, <3>2, NoTail
  <2> QED BY <1>3, <2>1, <2>2, <2>3 DEF Step
<1>6. Leaving(i)' <=> \/ Player(i)' = Nobody \/ client'[Player(i)'] = "gone"
                      \/ ~No("OP_LEFT", inbox'[Player(i)']) \/ ~No("FINISH", inbox'[Player(i)'])
  BY DEF Leaving, No, ToSet
<1> QED
  BY <1>2, <1>5, <1>6

\* Who has not played has not, unless main has paired it.
LEMMA PlayedStep ==
  ASSUME Base, Pairs, Step, Fine', NEW i \in Slots, clients[i].taken, clients'[i].taken,
         Played(i)'
  PROVE  Played(i) \/ (SendStart /\ i \in {main.id, main.opponent})
<1>0. Fine /\ TypedServer /\ TypedClients
  BY FineStep DEF Base, Typed
<1>1. PICK c \in Clients : c = Player(i) /\ client[c] # "new"
  BY <1>0, OwnPlayer
<1>2. Player(i)' = c
  BY <1>1, PlayersStay DEF Player, SameClient
<1>3. client'[c] = "playing" \/ ~No("START", inbox'[c])
  BY <1>2 DEF Played, No, ToSet
<1>4. inbox[c] \in Seq(Msg)
  BY <1>0 DEF TypedServer
<1>5. SUFFICES ASSUME ~(SendStart /\ i \in {main.id, main.opponent})
               PROVE  client[c] = "playing" \/ ~No("START", inbox[c])
  BY <1>1, PlayedIs
<1>6. CASE Threads
  <2>1. client' = client
    BY <1>6, ServerReads
  <2>2. inbox'[c] = inbox[c] \/ \E m \in Msg : inbox'[c] = Append(inbox[c], m) /\ m.type # "START"
    <3>1. \A m \in Msg : Got(i, m) => m.type # "START"
      BY <1>5 DEF Got, Message
    <3>2. \/ inbox'[Player(i)] = inbox[Player(i)]
          \/ \E m \in Msg : inbox'[Player(i)] = Append(inbox[Player(i)], m) /\ Got(i, m)
      BY <1>0, <1>6, SlotGets
    <3> QED BY <1>1, <3>1, <3>2
  <2>3. ASSUME NEW m \in Msg, inbox'[c] = Append(inbox[c], m), m.type # "START"
        PROVE  No("START", inbox'[c]) <=> No("START", inbox[c])
    BY <1>4, <2>3, NoAppend
  <2> QED BY <1>3, <2>1, <2>2, <2>3
<1>7. ASSUME NEW d \in Clients, Client(d), d # c
      PROVE  client'[c] = client[c] /\ inbox'[c] = inbox[c]
  BY <1>7, ClientSteps
<1>8. ASSUME Client(c) PROVE client[c] = "playing" \/ ~No("START", inbox[c])
  BY <1>1, <1>3, <1>4, <1>8, ClientReads, NoTail, NoEmpty
<1> QED
  BY <1>3, <1>6, <1>7, <1>8 DEF Step

\* A client that waits is one that waited before, or the one that main registers.
LEMMA StayingStep ==
  ASSUME Base, Pairs, Parting, Step, Fine', NEW i \in Slots, i \in Staying'
  PROVE  \/ i \in Staying
         \/ /\ register_client /\ main'.at = "welcome" /\ main'.id = i /\ ~clients[i].taken
            /\ Player(i)' = conn[main.fd] /\ inbox' = inbox /\ conn[main.fd] \in Clients
<1>0. TypedTable /\ TypedThreads /\ ThreadsRight /\ Fine /\ ManageRight /\ ManageRight'
  BY FineStep, PairsStep DEF Base, Typed, Pairs
<1>b. me \in Slots /\ manage.opponent \in Slots \union {-1} /\ -1 \notin Slots
  BY <1>0, FdsAre DEF TypedThreads, Msg, me
<1>1. clients'[i].taken /\ clients'[i].opponent = -1 /\ ~Leaving(i)' /\ ~Busy(i)'
  BY DEF Staying, Waiting
<1>2. CASE ~clients[i].taken
  <2>1. register_client
    BY <1>1, <1>2, SlotSteps DEF SameClient
  <2>2. PICK k \in Slots :
              /\ main' = [main EXCEPT !.at = "welcome", !.id = k]
              /\ clients'[k].sockfd = main.fd /\ UNCHANGED inbox
              /\ \A l \in Slots \ {k} : SameSlot(l)
    BY <1>1, <1>2, <2>1, Registered
  <2>3. k = i
    BY <1>1, <1>2, <2>2 DEF SameSlot
  <2>4. conn' = conn /\ conn[main.fd] \in Clients
    BY <1>0, <2>1 DEF register_client, ThreadsRight, MainAt, TypedTable, TypedThreads
  <2> QED BY <1>0, <1>2, <2>1, <2>2, <2>3, <2>4 DEF Player, TypedThreads
<1>3. CASE clients[i].taken
  <2>1. ~Leaving(i)
    BY <1>1, <1>3, LeavingStays
  <2>2. clients[i].opponent = -1
    <3>1. CASE handle_disconnect
      <4>1. CASE UNCHANGED clients
        BY <1>1, <4>1
      <4>2. CASE clients' = Parted(me) /\ clients[me].opponent # -1
        <5>1. manage.opponent = clients[me].opponent /\ manage'.at = "leaving"
              /\ me' = me /\ manage'.opponent = manage.opponent
          BY <1>0, <3>1, ManageSteps DEF handle_disconnect, ManageAt, ManageRight, me
        <5>2. i \notin {me, manage.opponent}
          BY <1>1, <5>1 DEF Busy
        <5> QED BY <1>0, <1>1, <1>b, <4>2, <5>1, <5>2, PartedIs DEF PartedFrom
      <4> QED BY <3>1, <4>1, <4>2 DEF handle_disconnect
    <3>2. CASE register_client
      BY <1>1, <1>3, <3>2, Registered DEF SameSlot
    <3>3. CASE RemoveClient
      BY <1>1, <3>3, RemovedIs
    <3>4. CASE Pair
      BY <1>0, <1>1, <3>4, PairIs, FdsAre DEF TypedThreads
    <3>5. CASE SendBoard
      BY <1>1, <3>5, SendBoardIs
    <3>6. CASE ~(handle_disconnect \/ register_client \/ RemoveClient \/ Pair \/ SendBoard)
      BY <1>1, <3>6, PairsKept DEF SamePairs
    <3> QED BY <3>1, <3>2, <3>3, <3>4, <3>5, <3>6
  <2>3. ~Busy(i)
    <3>1. CASE UNCHANGED manage
      BY <1>1, <3>1 DEF Busy, me
    <3>2. CASE handle_disconnect
      BY <1>1, <3>2, ManageSteps DEF Busy, me, handle_disconnect, ManageAt
    <3>3. CASE RemoveClient
      <4>1. manage.at = "leaving"
        BY <3>3 DEF RemoveClient, ManageAt
      <4>2. i # me
        <5>1. ~clients'[me].taken
          BY <1>0, <1>b, <3>3 DEF RemoveClient, Removed, TypedTable, Slot
        <5> QED BY <1>1, <5>1
      <4>3. i # manage.opponent
        BY <1>0, <1>b, <2>1, <4>1 DEF Parting
      <4> QED BY <4>2, <4>3 DEF Busy
    <3>4. CASE ~UNCHANGED manage /\ ~handle_disconnect /\ ~RemoveClient
      <4>1. manage.at \in {"idle", "lock", "MOVE"}
        BY <3>4, ManageSteps
      <4> QED BY <4>1 DEF Busy
    <3> QED BY <3>1, <3>2, <3>3, <3>4
  <2> QED BY <1>3, <2>1, <2>2, <2>3 DEF Staying, Waiting
<1> QED
  BY <1>2, <1>3

\* Who waits has not played, and only one does.
LEMMA PartingStep ==
  ASSUME Base, Pairs, Parting, Step
  PROVE  Parting'
<1> SUFFICES ASSUME Fine'
             PROVE  /\ \A i \in Staying' : ~Played(i)'
                    /\ \A i, j \in Staying' :
                         \/ i = j
                         \/ main'.at \in {"welcome", "seek", "pair"} /\ main'.id \in {i, j}
                    /\ manage'.at = "leaving" /\ manage'.opponent # -1 =>
                         Leaving(manage.opponent)'
  BY DEF Parting
<1>0. TypedTable /\ TypedThreads /\ TypedServer /\ ThreadsRight /\ Fine /\ ManageRight
      /\ ManageRight' /\ MainRight' /\ NewcomerRight /\ TypedThreads'
  BY FineStep, PairsStep, TypedStep DEF Base, Typed, Pairs
<1>b. me \in Slots /\ manage.opponent \in Slots \union {-1} /\ -1 \notin Slots
  BY <1>0, FdsAre DEF TypedThreads, Msg, me
<1>s. \A i \in Staying' : /\ i \in Slots /\ clients'[i].taken /\ clients'[i].opponent = -1
  BY DEF Staying, Waiting
<1>t. \A i \in Staying : i \in Slots /\ clients[i].taken /\ clients[i].opponent = -1
  BY DEF Staying, Waiting
<1>1. ASSUME NEW i \in Staying' PROVE ~Played(i)'
  <2>1. CASE i \in Staying
    <3>1. ~Played(i)
      BY <1>0, <2>1 DEF Parting
    <3>2. ~(SendStart /\ i \in {main.id, main.opponent})
      <4>1. SendStart => main'.at = "board" /\ main'.id = main.id /\ main'.opponent = main.opponent
        BY MainSteps DEF SendStart, MainAt
      <4>2. SendStart => clients'[main.id].opponent \in Slots /\ clients'[main.opponent].opponent \in Slots
        BY <1>0, <4>1 DEF MainRight, TypedThreads
      <4> QED BY <1>1, <1>b, <1>s, <4>2
    <3> QED BY <1>1, <1>s, <1>t, <2>1, <3>1, <3>2, PlayedStep
  <2>2. CASE /\ register_client /\ Player(i)' = conn[main.fd] /\ inbox' = inbox
             /\ conn[main.fd] \in Clients
    <3>1. main.at = "register" /\ client' = client
      BY <2>2 DEF register_client, MainAt, processes
    <3>2. client[conn[main.fd]] # "playing" /\ inbox[conn[main.fd]] = <<>>
      BY <1>0, <3>1 DEF NewcomerRight
    <3>3. Played(i)' <=> client'[Player(i)'] = "playing" \/ ~No("START", inbox'[Player(i)'])
      BY DEF Played, No, ToSet
    <3> QED BY <2>2, <3>1, <3>2, <3>3, NoEmpty
  <2> QED BY <1>1, <1>s, <2>1, <2>2, StayingStep
<1>2. ASSUME NEW i \in Staying', NEW j \in Staying', i # j
      PROVE  main'.at \in {"welcome", "seek", "pair"} /\ main'.id \in {i, j}
  <2>1. CASE i \in Staying /\ j \in Staying
    <3>1. main.at \in {"welcome", "seek", "pair"} /\ main.id \in {i, j}
      BY <1>0, <1>2, <2>1 DEF Parting
    <3>2. CASE UNCHANGED main \/ Welcome
      BY <3>1, <3>2, MainSteps DEF Welcome, MainAt
    <3>3. CASE Seek
      <4>1. Others(main.id) # {}
        BY <1>2, <1>t, <2>1 DEF Others, Waiting
      <4>2. main'.at = "pair" /\ main'.id = main.id
        BY <1>0, <3>3, <4>1 DEF Seek, TypedThreads
      <4> QED BY <3>1, <4>2
    <3>4. CASE Pair
      <4>1. main'.id = main.id /\ main'.at = "start" /\ main'.opponent = main.opponent
        BY <3>4, MainSteps DEF Pair, MainAt
      <4>2. clients'[main.id].opponent \in Slots
        BY <1>0, <4>1 DEF MainRight, TypedThreads
      <4> QED BY <1>2, <1>b, <1>s, <3>1, <4>2
    <3> QED BY <3>1, <3>2, <3>3, <3>4, MainSteps
  <2>2. CASE ~(i \in Staying /\ j \in Staying)
    BY <1>2, <1>s, <2>2, StayingStep
  <2> QED BY <2>1, <2>2
<1>3. ASSUME manage'.at = "leaving", manage'.opponent # -1 PROVE Leaving(manage.opponent)'
  <2>1. CASE handle_disconnect
    <3>1. manage.at = "DISCONNECT" /\ manage'.opponent = manage.opponent
          /\ manage.opponent = clients[me].opponent /\ clients'[manage.opponent].taken
      BY <1>0, <1>3, <2>1, ManageSteps DEF handle_disconnect, ManageAt, ManageRight, Free
    <3>2. PICK o \in Slots : o = manage.opponent /\ clients[o].taken
      BY <1>0, <1>3, <3>1, TwoPlayers
    <3>3. PICK m \in Msg : m = Note("OP_LEFT")
      BY Messages DEF Note, Message, Msg, Types
    <3>4. Write(To(o, m)) /\ m.type = "OP_LEFT"
      BY <1>3, <2>1, <3>1, <3>2, <3>3 DEF handle_disconnect, TellOpponent, Note, Message
    <3>5. Gets(Player(o), m)
      BY <1>0, <3>2, <3>4, ToSlot
    <3>6. Player(o)' = Player(o) /\ Player(o) \in Clients /\ client' = client
      BY <1>0, <2>1, <3>1, <3>2, PlayersStay, OwnPlayer DEF Player, SameClient, handle_disconnect, processes
    <3>7. inbox[Player(o)] \in Seq(Msg)
      BY <1>0, <3>6 DEF TypedServer
    <3>8. client'[Player(o)] = "gone" \/ ~No("OP_LEFT", inbox'[Player(o)])
      BY <3>4, <3>5, <3>6, <3>7, NoAppend DEF Gets
    <3>9. Leaving(o)' <=> \/ Player(o)' = Nobody \/ client'[Player(o)'] = "gone"
                      \/ ~No("OP_LEFT", inbox'[Player(o)']) \/ ~No("FINISH", inbox'[Player(o)'])
      BY DEF Leaving, No, ToSet
    <3>10. Leaving(o)' /\ manage'.opponent = o
      BY <3>1, <3>2, <3>6, <3>8, <3>9
    <3> QED BY <3>10 DEF Leaving, Player
  <2>2. CASE ~handle_disconnect
    <3>1. UNCHANGED manage
      BY <1>3, <2>2, ManageSteps
    <3>2. Leaving(manage.opponent) /\ manage.opponent \in Slots /\ clients[manage.opponent].taken
      BY <1>0, <1>3, <1>b, <3>1 DEF Parting, ManageRight, Free
    <3>3. clients'[manage.opponent].taken
      BY <1>0, <1>3, <3>1 DEF ManageRight, Free
    <3>4. PICK o \in Slots : o = manage.opponent
      BY <3>2
    <3>5. Leaving(o)' /\ manage'.opponent = o
      BY <3>1, <3>2, <3>3, <3>4, LeavingStays
    <3> QED BY <3>5 DEF Leaving, Player
  <2> QED BY <2>1, <2>2
<1> QED
  BY <1>1, <1>2, <1>3

-----------------------------------------------------------------------------
(* Whose turn it is. *)

\* The turns of a client: boards it has got, moves it has made, the one that is handled.
LEMMA TurnsAre ==
  ASSUME Base, Fine, NEW i \in Slots, clients[i].taken
  PROVE  /\ Turns(i) = Count("BOARD", inbox[Player(i)]) + Count("MOVE", outbox[Player(i)])
                       + (IF Handling(i) THEN 1 ELSE 0)
         /\ Count("BOARD", inbox[Player(i)]) \in Nat /\ Count("MOVE", outbox[Player(i)]) \in Nat
         /\ Turns(i) \in Nat
<1>1. Turns(i) = Count("BOARD", inbox[Player(i)]) + Count("MOVE", outbox[Player(i)])
                 + (IF Handling(i) THEN 1 ELSE 0)
  BY DEF Turns, Count, At, Handling
<1>2. Player(i) \in Clients
  BY OwnPlayer
<1>3. inbox[Player(i)] \in Seq(Msg) /\ outbox[Player(i)] \in Seq(Msg)
  BY <1>2 DEF Base, Typed, TypedClients, TypedServer
<1>4. Count("BOARD", inbox[Player(i)]) \in Nat /\ Count("MOVE", outbox[Player(i)]) \in Nat
  BY <1>3, AtFinite
<1> QED
  BY <1>1, <1>4

\* What a client does leaves it its turn, or it leaves.
LEMMA ClientTurns ==
  ASSUME Base, NEW c \in Clients, Client(c), client[c] # "new"
  PROVE  \/ /\ Count("BOARD", inbox'[c]) + Count("MOVE", outbox'[c])
               = Count("BOARD", inbox[c]) + Count("MOVE", outbox[c])
         \/ /\ client'[c] = "gone" /\ Count("BOARD", inbox'[c]) = 0
            /\ Count("MOVE", outbox'[c]) = Count("MOVE", outbox[c])
<1>1. inbox[c] \in Seq(Msg) /\ outbox[c] \in Seq(Msg)
  BY DEF Base, Typed, TypedClients, TypedServer
<1>2. Count("BOARD", inbox[c]) \in Nat /\ Count("MOVE", outbox[c]) \in Nat
  BY <1>1, AtFinite
<1>3. ASSUME NEW m \in Msg, outbox'[c] = Append(outbox[c], m)
      PROVE  Count("MOVE", outbox'[c]) = IF m.type = "MOVE" THEN Count("MOVE", outbox[c]) + 1
                                         ELSE Count("MOVE", outbox[c])
  BY <1>1, <1>3, CountAppend
<1>4. ASSUME inbox[c] # <<>>, inbox'[c] = Tail(inbox[c])
      PROVE  /\ Count("BOARD", inbox[c]) = IF Head(inbox[c]).type = "BOARD"
                                           THEN Count("BOARD", inbox'[c]) + 1
                                           ELSE Count("BOARD", inbox'[c])
             /\ Count("BOARD", inbox'[c]) \in Nat
  <2>1. Tail(inbox[c]) \in Seq(Msg)
    BY <1>1, <1>4
  <2> QED BY <1>1, <1>4, <2>1, CountTail, AtFinite
<1>5. CASE client'[c] = "gone" /\ inbox'[c] = <<>>
            /\ \E m \in Msg : m.type = "DISCONNECT" /\ outbox'[c] = Append(outbox[c], m)
  <2>1. <<>> \in Seq(Msg)
    OBVIOUS
  <2>2. Count("BOARD", inbox'[c]) = 0
    BY <1>5, <2>1, CountZero, NoEmpty
  <2>3. PICK m \in Msg : m.type = "DISCONNECT" /\ outbox'[c] = Append(outbox[c], m)
    BY <1>5
  <2> QED BY <1>3, <1>5, <2>2, <2>3
<1>6. CASE /\ inbox[c] # <<>> /\ inbox'[c] = Tail(inbox[c])
           /\ Head(inbox[c]).type # "BOARD" /\ outbox'[c] = outbox[c]
  BY <1>4, <1>6
<1>7. CASE /\ inbox[c] # <<>> /\ inbox'[c] = Tail(inbox[c]) /\ Head(inbox[c]).type = "PING"
           /\ \E m \in Msg : m.type = "PING" /\ outbox'[c] = Append(outbox[c], m)
  <2>1. PICK m \in Msg : m.type = "PING" /\ outbox'[c] = Append(outbox[c], m)
    BY <1>7
  <2> QED BY <1>3, <1>4, <1>7, <2>1
<1>8. CASE /\ inbox[c] # <<>> /\ inbox'[c] = Tail(inbox[c]) /\ Head(inbox[c]).type = "BOARD"
           /\ \E m \in Msg : m.type = "MOVE" /\ outbox'[c] = Append(outbox[c], m)
  <2>1. PICK m \in Msg : m.type = "MOVE" /\ outbox'[c] = Append(outbox[c], m)
    BY <1>8
  <2>2. Count("MOVE", outbox'[c]) = Count("MOVE", outbox[c]) + 1
    BY <1>3, <2>1
  <2>3. Count("BOARD", inbox[c]) = Count("BOARD", inbox'[c]) + 1 /\ Count("BOARD", inbox'[c]) \in Nat
    BY <1>4, <1>8
  <2> QED BY <1>2, <2>2, <2>3
<1> QED
  BY <1>5, <1>6, <1>7, <1>8, ClientReads

\* manage reads a message of the client of a slot; a move carries the slot.
LEMMA Received ==
  ASSUME Base, Fine, IdsRight, Receive, manage.eofs = 0, manage'.eofs = 0
  PROVE  \E j \in Slots :
           /\ clients[j].taken /\ outbox[Player(j)] # <<>>
           /\ outbox' = [outbox EXCEPT ![Player(j)] = Tail(outbox[Player(j)])]
           /\ manage' = [manage EXCEPT !.at = "lock", !.msg = Head(outbox[Player(j)])]
           /\ Head(outbox[Player(j)]).type = "MOVE" => Head(outbox[Player(j)]).id = j
<1>0. TypedThreads /\ TypedClients /\ SlotsRight
  BY DEF Base, Typed
<1>1. PICK f \in watched :
         \/ /\ outbox[conn[f]] # <<>>
            /\ manage' = [manage EXCEPT !.at = "lock", !.msg = Head(outbox[conn[f]])]
            /\ outbox' = [outbox EXCEPT ![conn[f]] = Tail(@)]
         \/ manage' = [manage EXCEPT !.at = "lock", !.eofs = @ + 1]
  BY DEF Receive
<1>2. manage' # [manage EXCEPT !.at = "lock", !.eofs = @ + 1]
  <2>1. ASSUME manage' = [manage EXCEPT !.at = "lock", !.eofs = @ + 1] PROVE manage'.eofs = 1
    BY <1>0, <2>1 DEF TypedThreads
  <2> QED BY <2>1
<1>3. PICK j \in Slots : clients[j].taken /\ clients[j].sockfd = f
  BY <1>0, <1>1 DEF SlotsRight
<1>4. conn[f] = Player(j) /\ Player(j) \in Clients
  BY <1>3, OwnPlayer DEF Player
<1>5. /\ outbox[Player(j)] # <<>>
      /\ manage' = [manage EXCEPT !.at = "lock", !.msg = Head(outbox[Player(j)])]
      /\ outbox' = [outbox EXCEPT ![Player(j)] = Tail(outbox[Player(j)])]
  BY <1>0, <1>1, <1>2, <1>4 DEF TypedClients
<1>6. Head(outbox[Player(j)]).type = "MOVE" => Head(outbox[Player(j)]).id = j
  <2>1. PICK s \in Seq(Msg) : s = outbox[Player(j)]
    BY <1>0, <1>4 DEF TypedClients
  <2>2. 1 \in DOMAIN s /\ Head(s) = s[1]
    BY <1>5, <2>1
  <2>3. \A k \in DOMAIN s : s[k].type = "MOVE" => s[k].id = j
    BY <1>3, <2>1 DEF IdsRight, IdRight, Carry
  <2> QED BY <2>1, <2>2, <2>3
<1> QED
  BY <1>3, <1>5, <1>6

\* manage handles the moves of clients that have a slot.
LEMMA HandlingStep ==
  ASSUME Base, Fine, IdsRight, \A k \in Slots : Handling(k) => clients[k].taken, Step,
         manage.eofs = 0, manage'.eofs = 0, NEW i \in Slots, Handling(i)'
  PROVE  clients'[i].taken
<1>0. TypedTable /\ TypedThreads
  BY DEF Base, Typed
<1>1. CASE Receive
  <2>1. PICK j \in Slots :
           /\ clients[j].taken
           /\ manage' = [manage EXCEPT !.at = "lock", !.msg = Head(outbox[Player(j)])]
           /\ Head(outbox[Player(j)]).type = "MOVE" => Head(outbox[Player(j)]).id = j
    BY <1>1, Received
  <2>2. i = j
    BY <1>0, <2>1 DEF Handling, me, TypedThreads
  <2> QED BY <1>1, <2>1, <2>2 DEF Receive, table
<1>2. CASE Lock
  <2>1. Handling(i)
    BY <1>0, <1>2, ManageSteps DEF Handling, me, Lock, ManageAt
  <2> QED BY <1>2, <2>1 DEF Lock, table
<1>3. CASE ~Receive /\ ~Lock
  <2>1. UNCHANGED manage /\ ~RemoveClient
    BY <1>3, ManageSteps DEF Handling
  <2>2. Handling(i)
    BY <2>1 DEF Handling, me
  <2>3. clients[i].taken
    BY <2>2
  <2>4. CASE register_client
    BY <2>3, <2>4, Registered DEF SameSlot
  <2> QED BY <2>1, <2>3, <2>4, SlotSteps DEF SameClient
<1> QED
  BY <1>1, <1>2, <1>3

\* A step that changes the turns of a client: it leaves, its move comes too late, or
\* a board is sent.
LEMMA TurnsStep ==
  ASSUME Base, Pairs, IdsRight, Step, Fine', manage.eofs = 0, manage'.eofs = 0,
         NEW i \in Slots, clients[i].taken, clients'[i].taken
  PROVE  /\ Turns(i) \in Nat /\ Turns(i)' \in Nat
         /\ \/ Turns(i)' = Turns(i)
            \/ Turns(i)' <= Turns(i) /\ Leaving(i)'
            \/ Lock /\ Turns(i)' <= Turns(i) /\ clients[i].opponent = -1
            \/ SendBoard /\ i \in {main.id, main.opponent}
            \/ handle_move /\ i \in {me, clients[me].opponent}
<1>0. TypedTable /\ TypedThreads /\ TypedClients /\ TypedServer /\ Fine /\ Typed /\ DescriptorsRight
  BY FineStep DEF Base, Typed
<1>1. PICK c \in Clients : c = Player(i) /\ client[c] # "new" /\ c \notin backlog
  BY <1>0, OwnPlayer
<1>2. Player(i)' = c
  BY <1>1, PlayersStay DEF Player, SameClient
<1>3. /\ Turns(i) = Count("BOARD", inbox[c]) + Count("MOVE", outbox[c])
                    + (IF Handling(i) THEN 1 ELSE 0)
      /\ Count("BOARD", inbox[c]) \in Nat /\ Count("MOVE", outbox[c]) \in Nat
  BY <1>0, <1>1, TurnsAre
<1>4. Turns(i)' = Count("BOARD", inbox'[c]) + Count("MOVE", outbox'[c])
                  + (IF Handling(i)' THEN 1 ELSE 0)
  <2>1. Turns(i)' = Count("BOARD", inbox'[Player(i)']) + Count("MOVE", outbox'[Player(i)'])
                  + (IF Handling(i)' THEN 1 ELSE 0)
    BY DEF Turns, Count, At, Handling
  <2> QED BY <1>2, <2>1
<1>n. Turns(i) \in Nat /\ Turns(i)' \in Nat
  <2>1. inbox'[c] \in Seq(Msg) /\ outbox'[c] \in Seq(Msg)
    BY TypedStep DEF Typed, TypedClients, TypedServer
  <2>2. Count("BOARD", inbox'[c]) \in Nat /\ Count("MOVE", outbox'[c]) \in Nat
    BY <2>1, AtFinite
  <2> QED BY <1>3, <1>4, <2>2
<1>5. inbox[c] \in Seq(Msg) /\ outbox[c] \in Seq(Msg)
  BY <1>0 DEF TypedClients, TypedServer
<1>6. ASSUME Threads, ~SendBoard, ~handle_move
      PROVE  Count("BOARD", inbox'[c]) = Count("BOARD", inbox[c])
  <2>1. \/ inbox'[Player(i)] = inbox[Player(i)]
        \/ \E m \in Msg : inbox'[Player(i)] = Append(inbox[Player(i)], m) /\ Got(i, m)
    BY <1>0, <1>6, SlotGets
  <2>2. ASSUME NEW m \in Msg, inbox'[Player(i)] = Append(inbox[Player(i)], m), Got(i, m)
        PROVE  Count("BOARD", inbox'[c]) = Count("BOARD", inbox[c])
    <3>1. m.type # "BOARD"
      BY <1>6, <2>2 DEF Got, Message
    <3> QED BY <1>1, <1>5, <2>2, <3>1, CountAppend
  <2> QED BY <1>1, <2>1, <2>2
<1>7. CASE Receive
  <2>1. PICK j \in Slots :
           /\ clients[j].taken /\ outbox[Player(j)] # <<>>
           /\ outbox' = [outbox EXCEPT ![Player(j)] = Tail(outbox[Player(j)])]
           /\ manage' = [manage EXCEPT !.at = "lock", !.msg = Head(outbox[Player(j)])]
           /\ Head(outbox[Player(j)]).type = "MOVE" => Head(outbox[Player(j)]).id = j
    BY <1>0, <1>7, Received
  <2>2. ~Handling(i) /\ inbox' = inbox
    BY <1>7 DEF Receive, ManageAt, Handling
  <2>3. Handling(i)' <=> Head(outbox[Player(j)]).type = "MOVE" /\ j = i
    BY <1>0, <2>1 DEF Handling, me, TypedThreads
  <2>4. CASE j = i
    <3>1. outbox'[c] = Tail(outbox[c]) /\ outbox[c] # <<>>
      BY <1>0, <1>1, <2>1, <2>4 DEF TypedClients
    <3>2. Count("MOVE", outbox[c]) = IF Head(outbox[c]).type = "MOVE"
                 THEN Count("MOVE", outbox'[c]) + 1 ELSE Count("MOVE", outbox'[c])
      BY <1>5, <3>1, CountTail
    <3>3. Count("MOVE", outbox'[c]) \in Nat
      <4>1. Tail(outbox[c]) \in Seq(Msg)
        BY <1>5, <3>1
      <4> QED BY <3>1, <4>1, AtFinite
    <3>4. Handling(i)' <=> Head(outbox[c]).type = "MOVE"
      BY <1>1, <2>3, <2>4
    <3> QED BY <1>3, <1>4, <2>2, <3>2, <3>3, <3>4
  <2>5. CASE j # i
    <3>1. Player(j) # c
      BY <1>0, <1>1, <2>1, <2>5, OwnPlayer
    <3>2. outbox'[c] = outbox[c]
      BY <1>0, <2>1, <3>1 DEF TypedClients
    <3> QED BY <1>3, <1>4, <2>2, <2>3, <2>5, <3>2
  <2> QED BY <2>4, <2>5
<1>8. CASE Lock
  <2>1. inbox' = inbox /\ outbox' = outbox /\ manage.at = "lock"
    BY <1>8 DEF Lock, ManageAt, processes
  <2>2. Handling(i)' => Handling(i)
    BY <1>0, <1>8, <2>1, ManageSteps DEF Handling, me, Lock, ManageAt
  <2>3. Handling(i) /\ ~Handling(i)' => clients[i].opponent = -1
    <3>1. manage.msg.type = "MOVE" /\ clients[me].opponent # -1 =>
            manage'.at = "MOVE" /\ manage'.msg = manage.msg
      BY <1>0, <1>8 DEF Lock, TypedThreads
    <3> QED BY <2>1, <3>1 DEF Handling, me
  <2> QED BY <1>3, <1>4, <1>8, <2>1, <2>2, <2>3
<1>9. CASE Threads /\ ~Receive /\ ~Lock /\ ~SendBoard /\ ~handle_move
  <2>1. outbox'[c] = outbox[c]
    <3>1. CASE Accept
      <4>1. PICK d \in backlog : outbox' = [outbox EXCEPT ![d] = Tail(@)]
        BY <1>0, <3>1, Accepted
      <4> QED BY <1>0, <1>1, <4>1 DEF TypedClients
    <3>2. CASE ~Accept
      BY <1>9, <3>2 DEF Threads, MainThread, ManageThread, PingThread, register_client, Welcome,
        Seek, Pair, SendStart, handle_disconnect, RemoveClient, Ping, Pinged, processes
    <3> QED BY <3>1, <3>2
  <2>2. Handling(i)' <=> Handling(i)
    <3>1. UNCHANGED manage \/ (manage.at \notin {"lock", "MOVE"} /\ manage'.at \notin {"lock", "MOVE"})
      BY <1>9, ManageSteps
    <3> QED BY <3>1 DEF Handling, me
  <2> QED BY <1>3, <1>4, <1>6, <1>9, <2>1, <2>2
<1>10. ASSUME NEW d \in Clients, Client(d)
       PROVE  Turns(i)' = Turns(i) \/ (Turns(i)' <= Turns(i) /\ Leaving(i)')
  <2>1. Handling(i)' <=> Handling(i)
    BY <1>10, ClientSteps DEF Handling, me, threads
  <2>2. CASE d # c
    <3>1. inbox'[c] = inbox[c] /\ outbox'[c] = outbox[c]
      BY <1>10, <2>2, ClientSteps
    <3> QED BY <1>3, <1>4, <2>1, <3>1
  <2>3. CASE d = c
    <3>1. CASE Count("BOARD", inbox'[c]) + Count("MOVE", outbox'[c])
               = Count("BOARD", inbox[c]) + Count("MOVE", outbox[c])
      BY <1>3, <1>4, <2>1, <3>1
    <3>2. CASE /\ client'[c] = "gone" /\ Count("BOARD", inbox'[c]) = 0
               /\ Count("MOVE", outbox'[c]) = Count("MOVE", outbox[c])
      <4>1. Turns(i)' <= Turns(i)
        BY <1>3, <1>4, <2>1, <3>2
      <4>2. Leaving(i)'
        BY <1>2, <3>2 DEF Leaving
      <4> QED BY <4>1, <4>2
    <3> QED BY <1>1, <1>10, <2>3, <3>1, <3>2, ClientTurns
  <2> QED BY <2>2, <2>3
<1>11. CASE SendBoard
  <2>1. CASE i \notin {main.id, main.opponent}
    <3>1. inbox'[c] = inbox[c]
      <4>1. \A m \in Msg : ~Got(i, m)
        <5>1. ~Welcome /\ ~SendStart
          BY <1>11 DEF SendBoard, Welcome, SendStart, MainAt
        <5>2. UNCHANGED <<manage, ping>>
          BY <1>11 DEF SendBoard
        <5>3. ~handle_move /\ ~handle_disconnect /\ ~Ping
          <6>1. ~handle_move /\ ~handle_disconnect
            BY <5>2, ManageSteps
          <6>2. ~Ping
            BY <1>0, <5>2 DEF Ping, TypedThreads
          <6> QED BY <6>1, <6>2
        <5> QED BY <2>1, <5>1, <5>3 DEF Got
      <4>2. Threads
        BY <1>11 DEF Threads, MainThread
      <4> QED BY <1>0, <1>1, <4>1, <4>2, SlotGets
    <3>2. UNCHANGED <<manage, outbox>>
      BY <1>11 DEF SendBoard, processes
    <3>3. Handling(i)' <=> Handling(i)
      BY <3>2 DEF Handling, me
    <3> QED BY <1>3, <1>4, <3>1, <3>2, <3>3
  <2> QED BY <1>n, <1>11, <2>1
<1>12. CASE handle_move
  <2>1. CASE i \notin {me, clients[me].opponent}
    <3>1. inbox'[c] = inbox[c]
      <4>1. \A m \in Msg : ~Got(i, m)
        <5>1. UNCHANGED <<main, ping>> /\ manage.at = "MOVE"
          BY <1>12 DEF handle_move, ManageAt
        <5>2. ~Welcome /\ ~SendStart /\ ~SendBoard
          BY <5>1, MainSteps DEF Welcome, SendStart, SendBoard, MainAt
        <5>3. ~handle_disconnect /\ ~Ping
          BY <1>0, <5>1 DEF handle_disconnect, ManageAt, Ping, TypedThreads
        <5> QED BY <2>1, <5>2, <5>3 DEF Got
      <4>2. Threads
        BY <1>12 DEF Threads, ManageThread
      <4> QED BY <1>0, <1>1, <4>1, <4>2, SlotGets
    <3>2. outbox' = outbox /\ manage.at = "MOVE" /\ manage'.at = "idle"
      BY <1>12, ManageSteps DEF handle_move, processes, ManageAt
    <3>3. ~Handling(i)' /\ ~Handling(i)
      BY <2>1, <3>2 DEF Handling
    <3> QED BY <1>3, <1>4, <3>1, <3>2, <3>3
  <2> QED BY <1>n, <1>12, <2>1
<1> QED
  BY <1>n, <1>7, <1>8, <1>9, <1>10, <1>11, <1>12 DEF Step

\* Queues that grow and shrink.
LEMMA CarryAppend ==
  ASSUME NEW s \in Seq(Msg), NEW m \in Msg, NEW t, NEW i
  PROVE  Carry(t, Append(s, m), i) <=> Carry(t, s, i) /\ (m.type = t => m.id = i)
<1>1. /\ DOMAIN Append(s, m) = DOMAIN s \union {Len(s) + 1} /\ DOMAIN s = 1 .. Len(s)
      /\ Len(s) \in Nat /\ Append(s, m)[Len(s) + 1] = m
      /\ \A k \in DOMAIN s : Append(s, m)[k] = s[k]
  OBVIOUS
<1>2. PICK r : r = Append(s, m)
  OBVIOUS
<1> QED
  BY <1>1, <1>2 DEF Carry

\* Reading a message leaves the others with their id ...
LEMMA CarryTail ==
  ASSUME NEW s \in Seq(Msg), s # <<>>, NEW t, NEW i, Carry(t, s, i)
  PROVE  Carry(t, Tail(s), i) /\ (Head(s).type = t => Head(s).id = i)
<1>1. /\ Head(s) = s[1] /\ 1 \in DOMAIN s
      /\ \A k \in DOMAIN Tail(s) : k + 1 \in DOMAIN s /\ Tail(s)[k] = s[k + 1]
  OBVIOUS
<1> QED
  BY <1>1 DEF Carry

\* ... and an empty queue has none that lacks it.
LEMMA CarryEmpty == \A t, i : Carry(t, <<>>, i)
BY DEF Carry

\* A board that is sent to who has its id on the way comes after it.
LEMMA ConnectedAppend ==
  ASSUME NEW s \in Seq(Msg), NEW m \in Msg, Connected(s),
         m.type # "BOARD" \/ ~No("CONNECT", s)
  PROVE  Connected(Append(s, m))
<1>1. /\ DOMAIN Append(s, m) = DOMAIN s \union {Len(s) + 1} /\ DOMAIN s = 1 .. Len(s)
      /\ Len(s) \in Nat /\ Append(s, m)[Len(s) + 1] = m
      /\ \A k \in DOMAIN s : Append(s, m)[k] = s[k]
  OBVIOUS
<1>2. PICK r : r = Append(s, m)
  OBVIOUS
<1>3. ASSUME NEW k \in DOMAIN r, r[k].type = "BOARD"
      PROVE  \E l \in 1 .. k - 1 : r[l].type = "CONNECT"
  <2>1. CASE k \in DOMAIN s
    <3>1. PICK l \in 1 .. k - 1 : s[l].type = "CONNECT"
      BY <1>1, <1>2, <1>3, <2>1 DEF Connected
    <3>2. l \in DOMAIN s
      BY <1>1, <2>1
    <3> QED BY <1>1, <1>2, <3>1, <3>2
  <2>2. CASE k = Len(s) + 1
    <3>1. m.type = "BOARD"
      BY <1>1, <1>2, <1>3, <2>2
    <3>2. PICK l \in DOMAIN s : s[l].type = "CONNECT"
      BY <3>1 DEF No
    <3>3. l \in 1 .. k - 1 /\ r[l].type = "CONNECT"
      BY <1>1, <1>2, <2>2, <3>2
    <3> QED BY <3>3
  <2> QED BY <1>1, <1>2, <1>3, <2>1, <2>2
<1> QED
  BY <1>2, <1>3 DEF Connected

\* Reading a message that is not the id leaves the boards behind the id.
LEMMA ConnectedTail ==
  ASSUME NEW s \in Seq(Msg), s # <<>>, Connected(s)
  PROVE  Head(s).type # "BOARD" /\ (Head(s).type # "CONNECT" => Connected(Tail(s)))
<1>1. /\ Head(s) = s[1] /\ 1 \in DOMAIN s /\ DOMAIN s = 1 .. Len(s) /\ Len(s) \in Nat
      /\ DOMAIN Tail(s) = 1 .. Len(s) - 1
      /\ \A k \in DOMAIN Tail(s) : k + 1 \in DOMAIN s /\ Tail(s)[k] = s[k + 1]
  OBVIOUS
<1>2. Head(s).type # "BOARD"
  BY <1>1 DEF Connected
<1>3. PICK r : r = Tail(s)
  OBVIOUS
<1>4. ASSUME Head(s).type # "CONNECT", NEW k \in DOMAIN r, r[k].type = "BOARD"
      PROVE  \E l \in 1 .. k - 1 : r[l].type = "CONNECT"
  <2>1. k + 1 \in DOMAIN s /\ s[k + 1].type = "BOARD" /\ k \in Nat
    BY <1>1, <1>3, <1>4
  <2>2. PICK l \in 1 .. (k + 1) - 1 : s[l].type = "CONNECT"
    BY <2>1 DEF Connected
  <2>3. l # 1
    BY <1>1, <1>4, <2>2
  <2>4. l - 1 \in 1 .. k - 1 /\ l - 1 \in DOMAIN r /\ r[l - 1] = s[l]
    BY <1>1, <1>3, <1>4, <2>1, <2>2, <2>3
  <2> QED BY <2>2, <2>4
<1> QED
  BY <1>2, <1>3, <1>4 DEF Connected

\* An empty queue has no board.
LEMMA ConnectedEmpty == Connected(<<>>)
BY DEF Connected

\* A client that has a slot gets to know it, and moves with it.
LEMMA IdsStep ==
  ASSUME Base, Pairs, IdsRight, Step, Fine', manage.eofs = 0, manage'.eofs = 0
  PROVE  IdsRight'
<1>0. TypedTable /\ TypedThreads /\ TypedClients /\ TypedServer /\ Fine /\ Typed /\ DescriptorsRight
      /\ ThreadsRight /\ MainRight /\ NewcomerRight
  BY FineStep DEF Base, Typed, Pairs
<1> DEFINE right(c, i) ==
      /\ Carry("MOVE", outbox'[c], i)
      /\ client'[c] # "gone" =>
           /\ Carry("CONNECT", inbox'[c], i)
           /\ client_id'[c] = i \/ Connected(inbox'[c])
           /\ (main'.at = "welcome" => main'.id # i) =>
                client_id'[c] = i \/ ~No("CONNECT", inbox'[c])
<1>1. ASSUME NEW i \in Slots, clients'[i].taken, ~clients[i].taken
      PROVE  right(Player(i)', i)
  <2>1. register_client
    BY <1>1, SlotSteps DEF SameClient
  <2>2. PICK k \in Slots :
              /\ main' = [main EXCEPT !.at = "welcome", !.id = k]
              /\ clients'[k].sockfd = main.fd /\ UNCHANGED inbox
              /\ \A l \in Slots \ {k} : SameSlot(l)
    BY <1>1, <2>1, Registered DEF SameSlot
  <2>3. k = i
    BY <1>1, <2>2 DEF SameSlot
  <2>4. conn' = conn /\ outbox' = outbox /\ main.at = "register"
    BY <2>1 DEF register_client, MainAt, processes
  <2>5. inbox'[Player(i)'] = <<>> /\ No("MOVE", outbox'[Player(i)'])
    BY <1>0, <2>2, <2>3, <2>4 DEF NewcomerRight, Player
  <2>6. Carry("MOVE", outbox'[Player(i)'], i)
    BY <2>5 DEF Carry, No
  <2>7. main'.at = "welcome" /\ main'.id = i
    BY <1>0, <2>2, <2>3 DEF TypedThreads
  <2> QED BY <2>5, <2>6, <2>7, CarryEmpty, ConnectedEmpty
<1>2. ASSUME NEW i \in Slots, clients'[i].taken, clients[i].taken
      PROVE  right(Player(i)', i)
  <2>1. PICK c \in Clients : c = Player(i) /\ client[c] # "new" /\ c \notin backlog
    BY <1>0, <1>2, OwnPlayer
  <2>2. Player(i)' = c
    BY <1>2, <2>1, PlayersStay DEF Player, SameClient
  <2>3. inbox[c] \in Seq(Msg) /\ outbox[c] \in Seq(Msg)
    BY <1>0 DEF TypedClients, TypedServer
  <2>4. /\ Carry("MOVE", outbox[c], i)
        /\ client[c] # "gone" =>
             /\ Carry("CONNECT", inbox[c], i)
             /\ client_id[c] = i \/ Connected(inbox[c])
             /\ (main.at = "welcome" => main.id # i) =>
                  client_id[c] = i \/ ~No("CONNECT", inbox[c])
    BY <1>2, <2>1 DEF IdsRight, IdRight
  <2>5. CASE Threads
    <3>1. client' = client /\ client_id' = client_id
      BY <2>5, ServerReads
    <3>2. Carry("MOVE", outbox'[c], i)
      <4>1. CASE Receive
        <5>1. PICK j \in Slots :
                 /\ clients[j].taken /\ outbox[Player(j)] # <<>>
                 /\ outbox' = [outbox EXCEPT ![Player(j)] = Tail(outbox[Player(j)])]
          BY <1>0, <4>1, Received
        <5>2. CASE Player(j) = c
          <6>1. outbox'[c] = Tail(outbox[c]) /\ outbox[c] # <<>>
            BY <1>0, <5>1, <5>2 DEF TypedClients
          <6> QED BY <2>3, <2>4, <6>1, CarryTail
        <5>3. CASE Player(j) # c
          BY <1>0, <2>4, <5>1, <5>3 DEF TypedClients
        <5> QED BY <5>2, <5>3
      <4>2. CASE Accept
        <5>1. PICK d \in backlog : outbox' = [outbox EXCEPT ![d] = Tail(@)]
          BY <1>0, <4>2, Accepted
        <5>2. outbox'[c] = outbox[c]
          BY <1>0, <2>1, <5>1 DEF TypedClients
        <5> QED BY <2>4, <5>2
      <4>3. CASE ~Receive /\ ~Accept
        <5>1. outbox' = outbox
          BY <2>5, <4>3 DEF Threads, MainThread, ManageThread, PingThread, register_client,
            Welcome, Seek, Pair, SendStart, SendBoard, Lock, handle_move, handle_disconnect,
            RemoveClient, Ping, Pinged, processes
        <5> QED BY <2>4, <5>1
      <4> QED BY <4>1, <4>2, <4>3
    <3>3. ASSUME client[c] # "gone"
          PROVE  Carry("CONNECT", inbox'[c], i) /\ (client_id[c] = i \/ Connected(inbox'[c]))
      <4>1. CASE inbox'[c] = inbox[c]
        BY <2>4, <3>3, <4>1
      <4>2. ASSUME NEW m \in Msg, inbox'[c] = Append(inbox[c], m), Got(i, m)
            PROVE  Carry("CONNECT", inbox'[c], i) /\ (client_id[c] = i \/ Connected(inbox'[c]))
        <5>1. m.type = "CONNECT" => m.id = i
          BY <4>2 DEF Got, Message
        <5>2. m.type = "BOARD" => (main.at = "welcome" => main.id # i)
          <6>1. m.type = "BOARD" => \/ SendBoard
                                    \/ handle_move /\ i \in {me, clients[me].opponent}
            BY <4>2 DEF Got, Message
          <6>2. SendBoard => main.at = "board"
            BY DEF SendBoard, MainAt
          <6>3. handle_move => clients[me].opponent \in Slots /\ me \in Slots
                               /\ clients[clients[me].opponent].opponent = me
            BY <1>0, TwoPlayers DEF handle_move, ManageAt
          <6>4. main.at = "welcome" => clients[main.id].opponent = -1
            BY <1>0 DEF MainRight, Free
          <6> QED BY <6>1, <6>2, <6>3, <6>4, FdsAre
        <5>3. Carry("CONNECT", inbox'[c], i)
          BY <2>3, <2>4, <3>3, <4>2, <5>1, CarryAppend
        <5>4. ASSUME client_id[c] # i PROVE Connected(inbox'[c])
          <6>1. Connected(inbox[c]) /\ (m.type # "BOARD" \/ ~No("CONNECT", inbox[c]))
            BY <2>4, <3>3, <5>2, <5>4
          <6> QED BY <2>3, <4>2, <6>1, ConnectedAppend
        <5> QED BY <5>3, <5>4
      <4>3. \/ inbox'[Player(i)] = inbox[Player(i)]
            \/ \E m \in Msg : inbox'[Player(i)] = Append(inbox[Player(i)], m) /\ Got(i, m)
        BY <1>0, <1>2, <2>5, SlotGets
      <4> QED BY <2>1, <4>1, <4>2, <4>3
    <3>4. ASSUME client[c] # "gone", main'.at = "welcome" => main'.id # i
          PROVE  client_id[c] = i \/ ~No("CONNECT", inbox'[c])
      <4>1. CASE main.at = "welcome" /\ main.id = i
        <5>1. Welcome
          BY <3>4, <4>1, MainSteps
        <5>2. PICK m \in Msg : m = Message("CONNECT", main.id, 0)
          BY <1>2, <4>1, Messages DEF Message, Msg, Types
        <5>3. m.type = "CONNECT" /\ Write(Only(main.fd, m)) /\ main.fd \in Fds
          BY <1>0, <5>1, <5>2 DEF Welcome, Message, TypedThreads
        <5>4. conn[main.fd] = c
          BY <1>0, <2>1, <4>1 DEF ThreadsRight, Player
        <5>5. Gets(c, m)
          BY <1>0, <5>3, <5>4, WriteOne
        <5> QED BY <2>3, <3>4, <5>3, <5>5, NoAppend DEF Gets
      <4>2. CASE main.at = "welcome" => main.id # i
        <5>1. client_id[c] = i \/ ~No("CONNECT", inbox[c])
          BY <2>4, <3>4, <4>2
        <5>2. inbox'[c] = inbox[c] \/ \E m \in Msg : inbox'[c] = Append(inbox[c], m)
          BY <1>0, <2>5, ServerSends
        <5>3. ASSUME NEW m \in Msg, inbox'[c] = Append(inbox[c], m)
              PROVE  No("CONNECT", inbox'[c]) => No("CONNECT", inbox[c])
          BY <2>3, <5>3, NoAppend
        <5> QED BY <5>1, <5>2, <5>3
      <4> QED BY <4>1, <4>2
    <3> QED BY <2>2, <3>1, <3>2, <3>3, <3>4
  <2>6. ASSUME NEW d \in Clients, Client(d), d # c
        PROVE  right(c, i)
    <3>1. /\ inbox'[c] = inbox[c] /\ outbox'[c] = outbox[c] /\ client'[c] = client[c]
          /\ client_id'[c] = client_id[c] /\ main' = main
      BY <2>6, ClientSteps DEF threads
    <3> QED BY <2>4, <3>1
  <2>7. ASSUME Client(c)
        PROVE  right(c, i)
    <3>1. client[c] # "gone" /\ main' = main
      BY <2>1, <2>7, ClientSteps DEF threads
    <3>2. CASE /\ client'[c] = "gone"
               /\ \E m \in Msg : m.type = "DISCONNECT" /\ outbox'[c] = Append(outbox[c], m)
      BY <2>3, <2>4, <3>2, CarryAppend
    <3>3. CASE /\ inbox[c] # <<>> /\ inbox'[c] = Tail(inbox[c])
               /\ Head(inbox[c]).type = "CONNECT" /\ client_id'[c] = Head(inbox[c]).id
               /\ outbox'[c] = outbox[c] /\ client'[c] = client[c]
      <4>1. client_id'[c] = i /\ Carry("CONNECT", inbox'[c], i)
        BY <2>3, <2>4, <3>1, <3>3, CarryTail
      <4> QED BY <2>4, <3>3, <4>1
    <3>4. ASSUME inbox[c] # <<>>, inbox'[c] = Tail(inbox[c]), client_id'[c] = client_id[c],
                 Head(inbox[c]).type # "CONNECT"
          PROVE  /\ Carry("CONNECT", inbox'[c], i)
                 /\ client_id'[c] = i \/ (Connected(inbox'[c]) /\ Head(inbox[c]).type # "BOARD")
                 /\ (main'.at = "welcome" => main'.id # i) =>
                      client_id'[c] = i \/ ~No("CONNECT", inbox'[c])
      <4>1. Carry("CONNECT", inbox'[c], i)
        BY <2>3, <2>4, <3>1, <3>4, CarryTail
      <4>2. client_id'[c] = i \/ (Connected(inbox'[c]) /\ Head(inbox[c]).type # "BOARD")
        BY <2>3, <2>4, <3>1, <3>4, ConnectedTail
      <4>3. No("CONNECT", inbox'[c]) => No("CONNECT", inbox[c])
        BY <2>3, <3>4, NoTail
      <4> QED BY <2>4, <3>1, <3>4, <4>1, <4>2, <4>3
    <3>5. CASE /\ inbox[c] # <<>> /\ inbox'[c] = Tail(inbox[c])
               /\ Head(inbox[c]).type \in {"START", "PING", "BOARD"}
               /\ client_id'[c] = client_id[c]
               /\ \/ outbox'[c] = outbox[c]
                  \/ \E m \in Msg : m.type = "PING" /\ outbox'[c] = Append(outbox[c], m)
                  \/ /\ Head(inbox[c]).type = "BOARD"
                     /\ \E m \in Msg : m.type = "MOVE" /\ m.id = client_id[c]
                                       /\ outbox'[c] = Append(outbox[c], m)
      <4>1. Carry("MOVE", outbox'[c], i)
        <5>1. ASSUME NEW m \in Msg, outbox'[c] = Append(outbox[c], m),
                     m.type = "PING" \/ (m.id = client_id[c] /\ Head(inbox[c]).type = "BOARD")
              PROVE  Carry("MOVE", outbox'[c], i)
          <6>1. m.type = "MOVE" => m.id = i
            BY <3>4, <3>5, <5>1
          <6> QED BY <2>3, <2>4, <5>1, <6>1, CarryAppend
        <5> QED BY <2>4, <3>5, <5>1
      <4> QED BY <3>4, <3>5, <4>1
    <3>6. \/ /\ client'[c] = "gone"
             /\ \E m \in Msg : m.type = "DISCONNECT" /\ outbox'[c] = Append(outbox[c], m)
          \/ /\ inbox[c] # <<>> /\ inbox'[c] = Tail(inbox[c])
             /\ Head(inbox[c]).type = "CONNECT" /\ client_id'[c] = Head(inbox[c]).id
             /\ outbox'[c] = outbox[c] /\ client'[c] = client[c]
          \/ /\ inbox[c] # <<>> /\ inbox'[c] = Tail(inbox[c])
             /\ Head(inbox[c]).type \in {"START", "PING", "BOARD"}
             /\ client_id'[c] = client_id[c]
             /\ \/ outbox'[c] = outbox[c]
                \/ \E m \in Msg : m.type = "PING" /\ outbox'[c] = Append(outbox[c], m)
                \/ /\ Head(inbox[c]).type = "BOARD"
                   /\ \E m \in Msg : m.type = "MOVE" /\ m.id = client_id[c]
                                     /\ outbox'[c] = Append(outbox[c], m)
      BY <2>1, <2>7, ClientReads
    <3> QED BY <3>2, <3>3, <3>5, <3>6
  <2> QED BY <2>2, <2>5, <2>6, <2>7 DEF Step
<1> QED
  BY <1>1, <1>2 DEF IdsRight, IdRight

\* The two whom manage serves play, on a board that is there.
LEMMA Movers ==
  ASSUME Base, Pairs, handle_move, Fine, Fine'
  PROVE  /\ OnBoard /\ me \in Slots /\ clients[me].opponent \in Slots /\ clients[me].opponent # me
         /\ \A i \in {me, clients[me].opponent} :
              /\ clients[i].taken /\ clients[i].opponent # -1 /\ ~Starting(i)
              /\ clients[i].opponent \in {me, clients[me].opponent}
         /\ \A i \in Slots : clients[i].opponent \in {me, clients[me].opponent} =>
              i \in {me, clients[me].opponent}
<1>0. ArrayRight /\ MainRight
  BY DEF Pairs
<1>1. /\ clients[me].opponent \in Slots /\ clients[me].taken
      /\ clients[clients[me].opponent].taken /\ clients[me].opponent # me
      /\ clients[clients[me].opponent].opponent = me /\ me \in Slots /\ -1 \notin Slots
  BY TwoPlayers DEF handle_move, ManageAt
<1>2. PICK o \in Slots : o = clients[me].opponent
  BY <1>1
<1>3. OnBoard
  <2>1. OnBoard \/ server' = "aborted"
    BY <1>1 DEF handle_move
  <2> QED BY <2>1 DEF Fine
<1>4. ~Starting(me) /\ ~Starting(o)
  <2>1. ASSUME Starting(me) \/ Starting(o) PROVE clients[me].board = NULL
    BY <1>0, <1>1, <1>2, <2>1 DEF Starting, MainRight
  <2> QED BY <1>3, <2>1 DEF OnBoard
<1>5. \A i \in Slots : clients[i].opponent \in {me, o} => i \in {me, o}
  BY <1>0, <1>1, <1>2 DEF ArrayRight
<1> QED
  BY <1>1, <1>2, <1>3, <1>4, <1>5

\* A move gives the turn to the opponent, unless one of the two is told to leave.
LEMMA MoveTurns ==
  ASSUME Base, Pairs, handle_move, Fine, Fine', NEW i \in Slots, i = me, NEW j \in Slots,
         j = clients[me].opponent
  PROVE  Leaving(i)' \/ Leaving(j)' \/ Turns(i)' + Turns(j)' = Turns(i) + Turns(j)
<1>0. TypedServer /\ TypedThreads /\ TypedClients
  BY DEF Base, Typed
<1>1. OnBoard /\ clients[i].taken /\ clients[j].taken /\ i # j
  BY Movers
<1>2. /\ clients' = clients /\ conn' = conn /\ client' = client /\ outbox' = outbox
      /\ manage.at = "MOVE" /\ manage'.at = "idle"
  BY <1>0 DEF handle_move, ManageAt, ManageIdle, TypedThreads, processes
<1>3. manage.msg.type = "MOVE"
  BY <1>2 DEF Pairs, ManageRight
<1>4. /\ Player(i) \in Clients /\ Player(j) \in Clients /\ Player(i) # Player(j)
      /\ Player(i)' = Player(i) /\ Player(j)' = Player(j)
  BY <1>1, <1>2, OwnPlayer DEF Player
<1>5. inbox[Player(i)] \in Seq(Msg) /\ inbox[Player(j)] \in Seq(Msg)
  BY <1>0, <1>4 DEF TypedServer
<1>6. PICK board, status :
        /\ Message("FINISH", 0, status) \in Msg /\ Message("BOARD", 0, board) \in Msg
        /\ \/ Write(ToBoth(j, Message("FINISH", 0, status), i, Message("FINISH", 0, status)))
           \/ Write(To(j, Message("BOARD", 0, board)))
  <2> DEFINE b == [boards[clients[me].board] EXCEPT ![manage.msg.data] = clients[me].symbol]
             s == check_game_status(b)
  <2>1. b \in Boards /\ Message("FINISH", 0, s) \in Msg /\ Message("BOARD", 0, b) \in Msg
    BY <1>1, MoveMessages
  <2>2. \/ Write(ToBoth(j, Message("FINISH", 0, s), i, Message("FINISH", 0, s)))
        \/ Write(To(j, Message("BOARD", 0, b)))
    BY <1>1 DEF handle_move
  <2> HIDE DEF b, s
  <2> QED BY <2>1, <2>2
<1>7. PICK m \in Msg, n \in Msg : m = Message("FINISH", 0, status) /\ n = Message("BOARD", 0, board)
  BY <1>6
<1>8. m.type = "FINISH" /\ n.type = "BOARD"
  BY <1>7 DEF Message
<1>9. CASE Write(ToBoth(j, m, i, m))
  <2>1. Gets(Player(i), m)
    BY <1>1, <1>9, ToSlots
  <2>2. client'[Player(i)] = "gone" \/ ~No("FINISH", inbox'[Player(i)])
    BY <1>2, <1>5, <1>8, <2>1, NoAppend DEF Gets
  <2>3. Leaving(i)' <=> \/ Player(i)' = Nobody \/ client'[Player(i)'] = "gone"
                    \/ ~No("OP_LEFT", inbox'[Player(i)']) \/ ~No("FINISH", inbox'[Player(i)'])
    BY DEF Leaving, No, ToSet
  <2> QED BY <1>4, <2>2, <2>3
<1>10. CASE Write(To(j, n))
  <2>1. Gets(Player(j), n) /\ inbox'[Player(i)] = inbox[Player(i)]
    BY <1>1, <1>4, <1>10, ToSlot
  <2>2. CASE client[Player(j)] = "gone"
    BY <1>2, <1>4, <2>2 DEF Leaving
  <2>3. CASE client[Player(j)] # "gone"
    <3>1. Count("BOARD", inbox'[Player(j)]) = Count("BOARD", inbox[Player(j)]) + 1
      BY <1>5, <1>8, <2>1, <2>3, CountAppend DEF Gets
    <3>2. Handling(i) /\ ~Handling(j) /\ ~Handling(i)' /\ ~Handling(j)'
      BY <1>1, <1>2, <1>3 DEF Handling
    <3>3. Turns(i)' = Count("BOARD", inbox'[Player(i)']) + Count("MOVE", outbox'[Player(i)'])
                  + (IF Handling(i)' THEN 1 ELSE 0)
      BY DEF Turns, Count, At, Handling
    <3>4. Turns(j)' = Count("BOARD", inbox'[Player(j)']) + Count("MOVE", outbox'[Player(j)'])
                  + (IF Handling(j)' THEN 1 ELSE 0)
      BY DEF Turns, Count, At, Handling
    <3>5. /\ Turns(i) = Count("BOARD", inbox[Player(i)]) + Count("MOVE", outbox[Player(i)]) + 1
          /\ Turns(j) = Count("BOARD", inbox[Player(j)]) + Count("MOVE", outbox[Player(j)])
          /\ Count("BOARD", inbox[Player(i)]) \in Nat /\ Count("MOVE", outbox[Player(i)]) \in Nat
          /\ Count("BOARD", inbox[Player(j)]) \in Nat /\ Count("MOVE", outbox[Player(j)]) \in Nat
      BY <1>1, <3>2, TurnsAre
    <3> QED BY <1>2, <1>4, <2>1, <3>1, <3>2, <3>3, <3>4, <3>5
  <2> QED BY <2>2, <2>3
<1> QED
  BY <1>6, <1>7, <1>9, <1>10

\* The first board of a game gives the turn to one of the two, unless it has gone.
LEMMA BoardTurns ==
  ASSUME Base, Pairs, SendBoard, Fine, Fine', NEW i \in Slots, i = main.id, NEW j \in Slots,
         j = main.opponent
  PROVE  Leaving(i)' \/ Leaving(j)' \/ Turns(i)' + Turns(j)' = Turns(i) + Turns(j) + 1
<1>0. TypedServer /\ TypedThreads /\ TypedClients /\ TypedTable
  BY DEF Base, Typed
<1>1. clients[i].taken /\ clients[j].taken /\ i # j
  BY TwoPlayers DEF SendBoard, MainAt
<1>2. UNCHANGED <<conn, client, outbox, manage>> /\ clients'[i].taken /\ clients'[j].taken
  <2>1. UNCHANGED <<conn, client, outbox, manage>>
    BY DEF SendBoard, processes
  <2>2. clients'[i].taken /\ clients'[j].taken
    BY <1>1, SendBoardIs
  <2> QED BY <2>1, <2>2
<1>3. Step
  BY DEF Step, Threads, MainThread
<1>4. /\ Player(i) \in Clients /\ Player(j) \in Clients /\ Player(i) # Player(j)
      /\ Player(i)' = Player(i) /\ Player(j)' = Player(j)
  BY <1>1, <1>2, <1>3, OwnPlayer, PlayersStay DEF Player, SameClient
<1>5. inbox[Player(i)] \in Seq(Msg) /\ inbox[Player(j)] \in Seq(Msg)
  BY <1>0, <1>4 DEF TypedServer
<1>6. PICK m \in Msg : m = Message("BOARD", 0, Empty)
  BY Messages DEF Message, Msg, Types
<1>7. m.type = "BOARD"
  BY <1>6 DEF Message
<1>8. Write(To(i, m)) \/ Write(To(j, m))
  BY <1>6 DEF SendBoard, WhoStarts
<1>9. (Handling(i)' <=> Handling(i)) /\ (Handling(j)' <=> Handling(j))
  BY <1>2 DEF Handling, me
<1>10. Turns(i)' = Count("BOARD", inbox'[Player(i)]) + Count("MOVE", outbox[Player(i)])
                  + (IF Handling(i) THEN 1 ELSE 0)
  <2>1. Turns(i)' = Count("BOARD", inbox'[Player(i)']) + Count("MOVE", outbox'[Player(i)'])
                  + (IF Handling(i)' THEN 1 ELSE 0)
    BY DEF Turns, Count, At, Handling
  <2> QED BY <1>2, <1>4, <1>9, <2>1
<1>11. Turns(j)' = Count("BOARD", inbox'[Player(j)]) + Count("MOVE", outbox[Player(j)])
                  + (IF Handling(j) THEN 1 ELSE 0)
  <2>1. Turns(j)' = Count("BOARD", inbox'[Player(j)']) + Count("MOVE", outbox'[Player(j)'])
                  + (IF Handling(j)' THEN 1 ELSE 0)
    BY DEF Turns, Count, At, Handling
  <2> QED BY <1>2, <1>4, <1>9, <2>1
<1>12. /\ Turns(i) = Count("BOARD", inbox[Player(i)]) + Count("MOVE", outbox[Player(i)])
                     + (IF Handling(i) THEN 1 ELSE 0)
       /\ Turns(j) = Count("BOARD", inbox[Player(j)]) + Count("MOVE", outbox[Player(j)])
                     + (IF Handling(j) THEN 1 ELSE 0)
       /\ Count("BOARD", inbox[Player(i)]) \in Nat /\ Count("MOVE", outbox[Player(i)]) \in Nat
       /\ Count("BOARD", inbox[Player(j)]) \in Nat /\ Count("MOVE", outbox[Player(j)]) \in Nat
  BY <1>1, TurnsAre
<1>13. ASSUME NEW k \in {i, j}, Write(To(k, m))
       PROVE  \/ Leaving(k)'
              \/ /\ Count("BOARD", inbox'[Player(k)]) = Count("BOARD", inbox[Player(k)]) + 1
                 /\ \A c \in Clients : c # Player(k) => inbox'[c] = inbox[c]
  <2>1. Gets(Player(k), m) /\ \A c \in Clients : c # Player(k) => inbox'[c] = inbox[c]
    BY <1>1, <1>13, ToSlot
  <2>2. CASE client[Player(k)] = "gone"
    BY <1>2, <1>4, <2>2 DEF Leaving
  <2>3. CASE client[Player(k)] # "gone"
    BY <1>5, <1>7, <2>1, <2>3, CountAppend DEF Gets
  <2> QED BY <2>1, <2>2, <2>3
<1>14. CASE Write(To(i, m))
  BY <1>4, <1>10, <1>11, <1>12, <1>13, <1>14
<1>15. CASE Write(To(j, m))
  BY <1>4, <1>10, <1>11, <1>12, <1>13, <1>15
<1> QED
  BY <1>8, <1>14, <1>15

\* The client that is registered has no turn.
LEMMA NewTurns ==
  ASSUME Base, Pairs, TurnsRight, register_client, Fine, Fine', NEW i \in Slots,
         ~clients[i].taken, Player(i)' = conn[main.fd], inbox' = inbox
  PROVE  Turns(i)' = 0
<1>0. TypedTable /\ TypedThreads /\ TypedClients /\ ThreadsRight /\ NewcomerRight
  BY DEF Base, Typed, Pairs
<1>1. PICK c : c = conn[main.fd]
  OBVIOUS
<1>2. UNCHANGED <<manage, outbox>> /\ main.at = "register" /\ c \in Clients
  BY <1>0, <1>1 DEF register_client, MainAt, processes, ThreadsRight, TypedTable, TypedThreads
<1>3. inbox[c] = <<>> /\ No("MOVE", outbox[c]) /\ outbox[c] \in Seq(Msg)
  BY <1>0, <1>1, <1>2 DEF NewcomerRight, TypedClients
<1>4. ~Handling(i)'
  <2>1. ~Handling(i)
    BY DEF TurnsRight
  <2> QED BY <1>2, <2>1 DEF Handling, me
<1>5. <<>> \in Seq(Msg)
  OBVIOUS
<1>6. Count("BOARD", inbox[c]) = 0 /\ Count("MOVE", outbox[c]) = 0
  BY <1>3, <1>5, CountZero, NoEmpty
<1>7. Turns(i)' = Count("BOARD", inbox'[Player(i)']) + Count("MOVE", outbox'[Player(i)'])
                + (IF Handling(i)' THEN 1 ELSE 0)
  BY DEF Turns, Count, At, Handling
<1> QED
  BY <1>1, <1>2, <1>4, <1>6, <1>7

\* A client that has no turn gets one only as a player of a game.
LEMMA NoTurnStays ==
  ASSUME Base, Pairs, IdsRight, Step, Fine', manage.eofs = 0, manage'.eofs = 0,
         NEW i \in Slots, clients[i].taken, clients'[i].taken, Turns(i) = 0,
         ~SendBoard \/ i \notin {main.id, main.opponent},
         clients[i].opponent = -1 \/ Starting(i)
  PROVE  Turns(i)' = 0
<1>1. handle_move => i \notin {me, clients[me].opponent}
  BY FineStep, Movers
<1> QED
  BY <1>1, TurnsStep

\* Of two players that stay, exactly one has the turn.
LEMMA TurningStep ==
  ASSUME Base, Pairs, Parting, Turning, Step
  PROVE  Turning'
<1> SUFFICES ASSUME Fine', manage'.eofs = 0
             PROVE  IdsRight' /\ TurnsRight'
  BY DEF Turning
<1>0. /\ Fine /\ manage.eofs = 0 /\ IdsRight /\ TurnsRight
      /\ TypedTable /\ TypedThreads /\ ArrayRight /\ MainRight /\ ManageRight /\ ~Racing
  BY FineStep DEF Base, Typed, Pairs, Turning
<1>a. /\ TypedTable' /\ TypedThreads' /\ SlotsRight' /\ ArrayRight' /\ MainRight' /\ ~Racing'
  BY PairsStep, BaseStep DEF Base, Typed, Pairs
<1>b. me \in Slots /\ main.id \in Slots /\ main.opponent \in Slots /\ -1 \notin Slots
      /\ main'.id \in Slots /\ main'.opponent \in Slots
  BY <1>0, <1>a, FdsAre DEF TypedThreads, Msg, me
<1>1. IdsRight'
  BY <1>0, IdsStep
<1>2. ASSUME NEW i \in Slots, Handling(i)' PROVE clients'[i].taken
  BY <1>0, <1>2, HandlingStep DEF TurnsRight
<1>p. \A i \in Slots : clients'[i].opponent # -1 => clients'[i].taken
  BY <1>a DEF ArrayRight
<1>q. \A i \in Slots : clients'[i].taken /\ ~clients[i].taken =>
        clients'[i].opponent = -1 /\ register_client
  BY SlotSteps, Registered DEF SameClient, SameSlot
<1>m. \A i \in Slots : main'.at \in {"start", "board"} /\ i \in {main'.id, main'.opponent} =>
        clients'[i].opponent # -1 /\ clients'[i].taken /\ clients[i].taken
  BY <1>a, <1>b, <1>p, <1>q DEF MainRight
<1>3. ASSUME NEW i \in Slots, Starting(i)', ~Leaving(i)' PROVE Turns(i)' = 0
  <2>1. /\ clients'[i].taken /\ clients[i].taken /\ main'.at \in {"start", "board"}
        /\ i \in {main'.id, main'.opponent}
    BY <1>3, <1>m DEF Starting
  <2>2. ~Leaving(i)
    BY <1>3, <2>1, LeavingStays
  <2>3. ~SendBoard
    BY <2>1, MainSteps DEF SendBoard, MainAt
  <2>4. CASE Starting(i)
    <3>1. Turns(i) = 0
      BY <1>0, <2>2, <2>4 DEF TurnsRight
    <3> QED BY <1>0, <2>1, <2>3, <2>4, <3>1, NoTurnStays
  <2>5. CASE ~Starting(i)
    <3>1. Pair /\ main.at = "pair" /\ main'.id = main.id /\ main'.opponent = main.opponent
          /\ UNCHANGED manage
      BY <2>1, <2>5, MainSteps DEF Starting
    <3>2. Free(i)
      BY <1>0, <2>1, <3>1 DEF MainRight
    <3>3. Turns(i) = 0
      <4>1. CASE i = main.id
        BY <1>0, <3>1, <4>1 DEF TurnsRight
      <4>2. CASE i = main.opponent
        <5>1. ~Busy(i)
          BY <1>0, <3>1, <4>2 DEF Busy, Racing
        <5>2. i \in Staying
          BY <2>2, <3>2, <5>1 DEF Staying, Waiting, Free
        <5> QED BY <1>0, <5>2 DEF TurnsRight
      <4> QED BY <2>1, <3>1, <4>1, <4>2
    <3> QED BY <1>0, <2>1, <2>3, <3>2, <3>3, NoTurnStays DEF Free
  <2> QED BY <2>4, <2>5
<1>4. ASSUME NEW i \in Staying' PROVE Turns(i)' = 0
  <2>1. i \in Slots /\ clients'[i].taken /\ clients'[i].opponent = -1
    BY <1>4 DEF Staying, Waiting
  <2>2. CASE i \in Staying
    <3>1. Turns(i) = 0 /\ clients[i].taken /\ clients[i].opponent = -1
      BY <1>0, <2>2 DEF TurnsRight, Staying, Waiting
    <3>2. SendBoard => i \notin {main.id, main.opponent}
      <4>1. SendBoard => main.at = "board"
        BY DEF SendBoard, MainAt
      <4> QED BY <1>0, <1>b, <3>1, <4>1 DEF MainRight
    <3> QED BY <1>0, <2>1, <3>1, <3>2, NoTurnStays
  <2>3. CASE /\ register_client /\ ~clients[i].taken /\ Player(i)' = conn[main.fd]
             /\ inbox' = inbox
    BY <1>0, <2>1, <2>3, NewTurns
  <2> QED BY <1>4, <2>1, <2>2, <2>3, StayingStep
<1>5. ASSUME NEW i \in Slots, NEW j \in Slots, clients'[i].opponent = j, ~Starting(i)',
             ~Leaving(i)', ~Leaving(j)'
      PROVE  Turns(i)' + Turns(j)' = 1
  <2>1. clients'[i].opponent # -1 /\ clients'[j].opponent = i /\ clients'[j].opponent # -1
    BY <1>a, <1>b, <1>5 DEF ArrayRight
  <2>2. clients'[i].taken /\ clients'[j].taken /\ clients[i].taken /\ clients[j].taken
    BY <1>p, <1>q, <2>1
  <2>3. ~Leaving(i) /\ ~Leaving(j)
    BY <1>5, <2>2, LeavingStays
  <2>4. CASE SendBoard
    <3>1. main.at = "board" /\ clients[i].opponent = j /\ clients[j].opponent = i
      BY <1>5, <2>1, <2>4, SendBoardIs DEF SendBoard, MainAt
    <3>2. CASE Starting(i)
      <4>1. {i, j} = {main.id, main.opponent} /\ Starting(j)
        BY <1>0, <3>1, <3>2 DEF Starting, MainRight
      <4>2. Turns(i) = 0 /\ Turns(j) = 0
        BY <1>0, <2>3, <3>2, <4>1 DEF TurnsRight
      <4>3. CASE i = main.id /\ j = main.opponent
        BY <1>0, <1>5, <2>4, <4>2, <4>3, BoardTurns
      <4>4. CASE j = main.id /\ i = main.opponent
        <5>1. Turns(j)' + Turns(i)' = Turns(j) + Turns(i) + 1
          BY <1>0, <1>5, <2>4, <4>4, BoardTurns
        <5>2. Turns(i)' \in Nat /\ Turns(j)' \in Nat
          BY <1>0, <2>2, TurnsStep
        <5> QED BY <4>2, <5>1, <5>2
      <4> QED BY <4>1, <4>3, <4>4
    <3>3. CASE ~Starting(i)
      <4>1. i \notin {main.id, main.opponent} /\ j \notin {main.id, main.opponent}
        BY <1>0, <3>1, <3>3 DEF Starting, MainRight
      <4>2. ~handle_move /\ ~Lock
        BY <2>4, ManageSteps DEF SendBoard, handle_move, Lock, ManageAt
      <4>3. Turns(i)' = Turns(i) /\ Turns(j)' = Turns(j)
        BY <1>0, <1>5, <2>2, <4>1, <4>2, TurnsStep
      <4>4. Turns(i) + Turns(j) = 1
        BY <1>0, <2>3, <3>1, <3>3 DEF TurnsRight
      <4> QED BY <4>3, <4>4
    <3> QED BY <3>2, <3>3
  <2>5. CASE ~SendBoard
    <3>1. clients[i].opponent = j
      <4>1. CASE Pair
        <5>1. main'.at = "start" /\ main'.id = main.id /\ main'.opponent = main.opponent
          BY <4>1, MainSteps DEF Pair, MainAt
        <5>2. i \notin {main.id, main.opponent}
          BY <1>5, <5>1 DEF Starting
        <5> QED BY <1>5, <4>1, <5>2, PairIs
      <4>2. CASE register_client
        BY <1>5, <2>1, <2>2, <4>2, Registered DEF SameSlot
      <4>3. CASE handle_disconnect
        <5>1. UNCHANGED clients \/ clients' = Parted(me)
          BY <4>3 DEF handle_disconnect
        <5>2. CASE clients' = Parted(me)
          <6>1. clients'[i].opponent \in {-1, clients[i].opponent}
            BY <1>0, <1>b, <5>2, PartedIs DEF PartedFrom
          <6> QED BY <1>5, <2>1, <6>1
        <5> QED BY <1>5, <5>1, <5>2
      <4>4. CASE RemoveClient
        BY <1>5, <4>4, RemovedIs
      <4>5. CASE ~(Pair \/ register_client \/ handle_disconnect \/ RemoveClient)
        BY <1>5, <2>5, <4>5, PairsKept DEF SamePairs
      <4> QED BY <4>1, <4>2, <4>3, <4>4, <4>5
    <3>2. clients[j].opponent = i
      BY <1>0, <1>b, <3>1 DEF ArrayRight
    <3>3. ~Starting(i)
      BY <1>5, <2>5, MainSteps DEF Starting
    <3>4. Turns(i) + Turns(j) = 1
      BY <1>0, <2>3, <3>1, <3>3 DEF TurnsRight
    <3>5. CASE handle_move /\ i = me
      BY <1>0, <1>5, <3>1, <3>4, <3>5, MoveTurns
    <3>6. CASE handle_move /\ j = me
      <4>1. Turns(j)' + Turns(i)' = Turns(j) + Turns(i)
        BY <1>0, <1>5, <3>2, <3>6, MoveTurns
      <4>2. Turns(i)' \in Nat /\ Turns(j)' \in Nat /\ Turns(i) \in Nat /\ Turns(j) \in Nat
        BY <1>0, <2>2, TurnsStep
      <4> QED BY <3>4, <4>1, <4>2
    <3>7. CASE ~handle_move \/ (i # me /\ j # me)
      <4>1. handle_move => i \notin {me, clients[me].opponent} /\ j \notin {me, clients[me].opponent}
        <5>1. handle_move => clients[me].opponent \in Slots /\ me \in Slots
                /\ clients[clients[me].opponent].opponent = me
          BY <1>0, TwoPlayers DEF handle_move, ManageAt
        <5> QED BY <3>1, <3>2, <3>7, <5>1
      <4>2. Turns(i)' = Turns(i)
        BY <1>0, <1>5, <1>b, <2>2, <2>5, <3>1, <4>1, TurnsStep
      <4>3. Turns(j)' = Turns(j)
        BY <1>0, <1>5, <1>b, <2>2, <2>5, <3>2, <4>1, TurnsStep
      <4> QED BY <3>4, <4>2, <4>3
    <3> QED BY <3>5, <3>6, <3>7
  <2> QED BY <2>4, <2>5
<1>6. ASSUME NEW i \in Slots, main'.at \in {"welcome", "seek", "pair", "start", "board"},
             main'.id = i
      PROVE  Turns(i)' = 0
  <2>1. CASE register_client
    <3>1. PICK k \in Slots :
              /\ ~clients[k].taken /\ clients'[k].sockfd = main.fd /\ UNCHANGED inbox
              /\ main' = [main EXCEPT !.at = "welcome", !.id = k]
      BY <1>0, <1>6, <2>1, Registered DEF MainGoes, TypedThreads
    <3>2. k = i /\ conn' = conn
      BY <1>0, <1>6, <2>1, <3>1 DEF TypedThreads, register_client
    <3> QED BY <1>0, <2>1, <3>1, <3>2, NewTurns DEF Player
  <2>2. CASE ~register_client
    <3>1. /\ main.at \in {"welcome", "seek", "pair", "start", "board"} /\ main.id = i
          /\ ~SendBoard
      BY <1>6, <2>2, MainSteps DEF SendBoard, MainAt
    <3>2. Turns(i) = 0
      BY <1>0, <3>1 DEF TurnsRight
    <3>3. clients[i].opponent = -1 \/ Starting(i)
      BY <1>0, <3>1 DEF MainRight, Free, Starting
    <3>4. clients'[i].taken
      BY <1>6, <1>a, <1>m DEF MainRight, Free
    <3>5. clients[i].taken
      BY <1>q, <2>2, <3>4
    <3> QED BY <1>0, <3>1, <3>2, <3>3, <3>4, <3>5, NoTurnStays
  <2> QED BY <2>1, <2>2
<1>7. ASSUME NEW i \in Slots, main'.at \in {"pair", "start", "board"}, main'.opponent = i,
             "leftover" \notin mishaps'
      PROVE  Turns(i)' = 0
  <2>1. ~register_client
    BY <1>7, MainSteps DEF register_client, MainAt
  <2>2. clients'[i].taken
    BY <1>7, <1>a, <1>m DEF MainRight, Free
  <2>3. clients[i].taken
    BY <1>q, <2>1, <2>2
  <2>4. CASE Seek
    <3>1. main'.at = "pair"
      BY <1>7, <2>4, MainSteps DEF Seek, MainAt
    <3>2. ~LeftOver'
      BY <1>7, <2>4 DEF Seek, Notes
    <3>3. Player(i)' # Nobody
      BY <1>a, <2>2 DEF SlotsRight, Player, Fine
    <3>4. Player(main.opponent)' = Player(i)' /\ (Handling(main.opponent)' <=> Handling(i)')
      BY <1>7 DEF Player, Handling
    <3>5. Turns(main.opponent)' = Turns(i)'
      <4>1. Turns(i)' = Count("BOARD", inbox'[Player(i)']) + Count("MOVE", outbox'[Player(i)'])
                      + (IF Handling(i)' THEN 1 ELSE 0)
        BY DEF Turns, Count, At, Handling
      <4>2. Turns(main.opponent)' = Count("BOARD", inbox'[Player(main.opponent)'])
                      + Count("MOVE", outbox'[Player(main.opponent)'])
                      + (IF Handling(main.opponent)' THEN 1 ELSE 0)
        BY DEF Turns, Count, At, Handling
      <4> QED BY <3>4, <4>1, <4>2
    <3>6. ~(Turns(i)' > 0)
      BY <3>1, <3>2, <3>3, <3>4, <3>5 DEF LeftOver
    <3>7. Turns(i)' \in Nat
      BY <1>0, <2>2, <2>3, TurnsStep
    <3> QED BY <3>6, <3>7
  <2>5. CASE ~Seek
    <3>1. /\ main.at \in {"pair", "start", "board"} /\ main.opponent = i /\ ~SendBoard
      BY <1>7, <2>1, <2>5, MainSteps DEF SendBoard, MainAt
    <3>2. Turns(i) = 0
      BY <1>0, <1>7, <3>1, FineStep DEF TurnsRight
    <3>3. clients[i].opponent = -1 \/ Starting(i)
      BY <1>0, <3>1 DEF MainRight, Free, Starting
    <3> QED BY <1>0, <2>2, <2>3, <3>1, <3>2, <3>3, NoTurnStays
  <2> QED BY <2>4, <2>5
<1> QED
  BY <1>1, <1>2, <1>3, <1>4, <1>5, <1>6, <1>7 DEF TurnsRight

-----------------------------------------------------------------------------
(* Boards that are there. *)

\* Only two steps ever abort the server.
LEMMA AbortSteps ==
  ASSUME Base, Step, server # "aborted", server' = "aborted"
  PROVE  /\ server = "up"
         /\ \/ handle_move /\ ~OnBoard
            \/ RemoveClient /\ clients[me].board # NULL /\ boards[clients[me].board] = <<>>
<1>0. Typed /\ DescriptorsRight /\ TypedThreads
  BY DEF Base, Typed
<1>b. me \in Slots /\ main.id \in Slots /\ main.opponent \in Slots /\ main.fd \in Fds
  BY <1>0 DEF TypedThreads, Msg, me
<1>1. ASSUME NEW w, Write(w) PROVE server' \in {server, "killed"}
  BY <1>1 DEF Write, Deliver
<1>2. ASSUME NEW w, Deliver(w) PROVE server' \in {server, "killed"}
  BY <1>2 DEF Deliver
<1>3. ~MainThread
  BY <1>1, <1>2 DEF MainThread, Accept, register_client, Welcome, Seek, Pair, SendStart, SendBoard
<1>4. ~PingThread
  BY <1>1 DEF PingThread, Ping, Pinged
<1>5. \A c \in Clients : ~Client(c)
  BY ClientSteps
<1>6. ~Receive /\ ~Lock
  BY DEF Receive, Lock
<1>7. ~handle_disconnect
  BY <1>1 DEF handle_disconnect, TellOpponent
<1>8. handle_move => ~OnBoard
  <2>1. ASSUME handle_move, OnBoard PROVE \E w : Write(w)
    BY <2>1 DEF handle_move
  <2> QED BY <1>1, <2>1
<1>9. RemoveClient => clients[me].board # NULL /\ boards[clients[me].board] = <<>>
  BY DEF RemoveClient
<1> QED
  BY <1>3, <1>4, <1>5, <1>6, <1>7, <1>8, <1>9
     DEF Step, Threads, ManageThread, handle_move, RemoveClient, ManageAt

\* Whoever manage removes or lets move has a board of its own, or none to free.
LEMMA BoardsThereStep ==
  ASSUME Base, Pairs, Turning, BoardsThere, Step
  PROVE  BoardsThere'
<1> SUFFICES ASSUME mishaps' = {}, manage'.eofs = 0, ~Exiting', server' = "aborted"
             PROVE  FALSE
  BY DEF BoardsThere
<1>1. mishaps = {} /\ manage.eofs = 0 /\ ~Exiting
  BY Monotone, ExitingStays
<1>2. server # "aborted"
  BY <1>1 DEF BoardsThere
<1>3. Fine /\ ArrayRight /\ MainRight /\ ManageRight /\ TurnsRight
  BY <1>1, <1>2, AbortSteps DEF Fine, Pairs, Turning
<1>4. me \in Slots /\ clients[me].board \in Nat
  BY DEF Base, Typed, TypedThreads, TypedTable, Msg, Slot, me
<1>5. ~RemoveClient \/ clients[me].board = NULL \/ boards[clients[me].board] # <<>>
  BY <1>3, <1>4 DEF ArrayRight
<1>6. handle_move /\ ~OnBoard
  BY <1>2, <1>5, AbortSteps
<1>7. /\ manage.at = "MOVE" /\ manage.msg.type = "MOVE"
      /\ clients[me].opponent \in Slots /\ clients[me].opponent # -1 /\ clients[me].taken
  BY <1>3, <1>6, TwoPlayers DEF handle_move, ManageAt, ManageRight
<1>8. Starting(me)
  BY <1>3, <1>4, <1>6, <1>7 DEF OnBoard, ArrayRight
<1>9. Turns(me) = 0
  BY <1>1, <1>3, <1>4, <1>8 DEF Starting, TurnsRight
<1>10. Handling(me)
  BY <1>7 DEF Handling
<1> QED
  BY <1>3, <1>4, <1>7, <1>9, <1>10, TurnsAre

-----------------------------------------------------------------------------
(* The invariant of the specification. *)

\* At first there are no clients.
LEMMA AtFirst == Init => Inv
<1> SUFFICES ASSUME Init PROVE Inv
  OBVIOUS
<1>1. /\ \A i \in Slots : ~clients[i].taken /\ clients[i].opponent = -1 /\ clients[i].board = NULL
      /\ main.at = "idle" /\ manage.at = "idle" /\ manage.opponent = -1 /\ server = "up"
      /\ mishaps = {}
  BY DEF Init
<1>2. Base
  <2>1. Note("PING") \in Msg
    BY Messages DEF Types
  <2>2. clients \in [Slots -> Slot]
    BY FdsAre DEF Init, Slot, Symbols, NULL
  <2>3. boards = <<>> /\ boards \in Seq(Boards \union {<<>>}) /\ Len(boards) = 0
    <3>1. boards = <<>> /\ Len(<<>>) = 0
      BY DEF Init
    <3>2. \A S : <<>> \in Seq(S)
      OBVIOUS
    <3> QED BY <3>1, <3>2
  <2>4. TypedTable
    BY <2>2, <2>3 DEF TypedTable, Init
  <2>5. TypedThreads
    BY <2>1, FdsAre DEF TypedThreads, Init
  <2>6. TypedClients /\ TypedServer
    <3>1. \A S : <<>> \in Seq(S)
      OBVIOUS
    <3> QED BY <3>1, FdsAre DEF TypedClients, TypedServer, Init
  <2>7. DescriptorsRight /\ BacklogRight
    BY DEF DescriptorsRight, BacklogRight, Init
  <2>8. SlotsRight
    <3>1. \A i \in Slots : clients[i].board <= Len(boards) /\ clients[i].opponent # i
      BY <1>1, <2>3, FdsAre DEF NULL
    <3>2. watched = {}
      BY DEF Init
    <3> QED BY <1>1, <3>1, <3>2 DEF SlotsRight
  <2>9. ThreadsRight
    BY <1>1 DEF ThreadsRight
  <2> QED BY <2>4, <2>5, <2>6, <2>7, <2>8, <2>9 DEF Base, Typed
<1>3. Pairs
  BY <1>1, FdsAre DEF Pairs, ArrayRight, MainRight, ManageRight, Racing, NewcomerRight, NULL
<1>4. Staying = {}
  BY <1>1 DEF Staying, Waiting
<1>5. Parting
  BY <1>1, <1>4 DEF Parting
<1>6. Turning
  <2>1. IdsRight
    BY <1>1 DEF IdsRight
  <2>2. \A i \in Slots : ~Handling(i) /\ ~Starting(i) /\ clients[i].opponent \notin Slots
    BY <1>1, FdsAre DEF Handling, Starting
  <2>3. TurnsRight
    BY <1>1, <1>4, <2>2 DEF TurnsRight
  <2> QED BY <2>1, <2>3 DEF Turning
<1>7. BoardsThere
  BY <1>1 DEF BoardsThere
<1> QED
  BY <1>2, <1>3, <1>5, <1>6, <1>7 DEF Inv

\* A step that changes nothing changes nothing that is said of the state.
LEMMA Unchanged == Inv /\ UNCHANGED vars => Inv'
<1> SUFFICES ASSUME Inv, UNCHANGED vars PROVE Inv'
  OBVIOUS
<1>0. /\ clients' = clients /\ boards' = boards /\ conn' = conn /\ watched' = watched
      /\ main' = main /\ manage' = manage /\ ping' = ping /\ mutex' = mutex
      /\ backlog' = backlog /\ client' = client /\ client_id' = client_id /\ name' = name
      /\ outbox' = outbox /\ sigints' = sigints /\ server' = server /\ inbox' = inbox
      /\ mishaps' = mishaps
  BY DEF vars, table, threads, processes
<1>1. Base'
  BY <1>0 DEF Inv, Base, Typed, TypedTable, TypedThreads, TypedClients, TypedServer, Player,
       Exiting, DescriptorsRight, BacklogRight, SlotsRight, ThreadsRight, me
<1>2. (Fine <=> Fine') /\ (me = me') /\ Staying = Staying' /\ \A i : Player(i)' = Player(i)
  BY <1>0 DEF Fine, Exiting, me, Staying, Player, Waiting, Leaving, Busy
<1>3. Pairs'
  BY <1>0, <1>2 DEF Inv, Pairs, ArrayRight, MainRight, ManageRight, Racing, NewcomerRight,
       Starting, Removing, Free, me
<1>4. Parting'
  BY <1>0, <1>2 DEF Inv, Parting, Played, Leaving
<1>5. \A i \in Slots : /\ IdRight(i)' <=> IdRight(i)
                       /\ Turns(i)' = Turns(i) /\ (Leaving(i)' <=> Leaving(i))
                       /\ (Handling(i)' <=> Handling(i)) /\ (Starting(i)' <=> Starting(i))
  BY <1>0, <1>2 DEF IdRight, Turns, Leaving, Handling, Starting, me
<1>6. Turning'
  <2>1. IdsRight => IdsRight'
    BY <1>0, <1>5 DEF IdsRight
  <2>2. TurnsRight => TurnsRight'
    <3> SUFFICES ASSUME TurnsRight PROVE TurnsRight'
      OBVIOUS
    <3>1. \A i \in Slots : Handling(i)' => clients'[i].taken
      BY <1>0, <1>5 DEF TurnsRight
    <3>2. \A i \in Slots : Starting(i)' /\ ~Leaving(i)' => Turns(i)' = 0
      BY <1>5 DEF TurnsRight
    <3>3. \A i \in Staying' : Turns(i)' = 0
      <4>1. Staying \subseteq Slots
        BY DEF Staying, Waiting
      <4> QED BY <1>2, <1>5, <4>1 DEF TurnsRight
    <3>4. \A i, j \in Slots :
            clients'[i].opponent = j /\ ~Starting(i)' /\ ~Leaving(i)' /\ ~Leaving(j)' =>
              Turns(i)' + Turns(j)' = 1
      <4> SUFFICES ASSUME NEW i \in Slots, NEW j \in Slots, clients[i].opponent = j,
                          ~Starting(i), ~Leaving(i), ~Leaving(j)
                   PROVE  Turns(i)' + Turns(j)' = 1
        BY <1>0, <1>5
      <4>1. Turns(i) + Turns(j) = 1
        BY DEF TurnsRight
      <4>2. Turns(i)' = Turns(i) /\ Turns(j)' = Turns(j)
        BY <1>5
      <4> QED BY <4>1, <4>2
    <3>5. \A i \in Slots :
            main'.at \in {"welcome", "seek", "pair", "start", "board"} /\ main'.id = i =>
              Turns(i)' = 0
      BY <1>0, <1>5 DEF TurnsRight
    <3>6. \A i \in Slots :
            main'.at \in {"pair", "start", "board"} /\ main'.opponent = i
              /\ "leftover" \notin mishaps' => Turns(i)' = 0
      BY <1>0, <1>5 DEF TurnsRight
    <3> QED BY <3>1, <3>2, <3>3, <3>4, <3>5, <3>6 DEF TurnsRight
  <2> QED BY <1>0, <1>2, <2>1, <2>2 DEF Inv, Turning
<1>7. BoardsThere'
  BY <1>0 DEF Inv, BoardsThere, Exiting
<1> QED
  BY <1>1, <1>3, <1>4, <1>6, <1>7 DEF Inv

\* The invariant holds in all states of the specification.
THEOREM Invariance == Spec => []Inv
<1>1. Inv /\ Step => Inv'
  BY BaseStep, PairsStep, PartingStep, TurningStep, BoardsThereStep DEF Inv
<1>2. Inv /\ Exit => Inv'
  <2>1. Inv /\ Exit => Base' /\ Exiting'
    BY ExitBase, ExitIs DEF Inv
  <2> QED BY <2>1 DEF Inv, Pairs, Parting, Turning, BoardsThere, Fine
<1>3. Inv /\ [Next]_vars => Inv'
  BY <1>1, <1>2, Unchanged DEF Next, Server, Step, Threads
<1> QED
  BY <1>3, AtFirst, PTL DEF Spec

\* All variables have their types: descriptors, slots and boards that are watched,
\* taken or played on are there.
THEOREM TypeCorrect == Spec => []TypeOK
<1>1. Inv => TypeOK
  <2> SUFFICES ASSUME Inv PROVE TypeOK
    OBVIOUS
  <2>0. TypedTable /\ TypedThreads /\ TypedClients /\ TypedServer /\ SlotsRight
    BY DEF Inv, Base, Typed
  <2>1. \A i \in Slots : /\ clients[i].opponent \in Slots \union {-1} /\ clients[i].opponent # i
                         /\ clients[i].board \in Nat /\ clients[i].board <= Len(boards)
                         /\ clients[i].sockfd \in Fds /\ Len(boards) \in Nat
    BY <2>0 DEF TypedTable, Slot, SlotsRight
  <2>2. ASSUME NEW f \in watched PROVE f \in Fds /\ conn[f] # Nobody
    BY <2>0 DEF TypedTable, SlotsRight, Player
  <2> QED BY <2>0, <2>1, <2>2 DEF TypeOK, TypedThreads, TypedClients, TypedServer
<1> QED
  BY <1>1, Invariance, PTL

\* Two clients that play have each other for opponents, and one board (find_opponent
\* and handle_disconnect, on the array that main and manage share without a lock).
THEOREM OpponentsAgree == Spec => []PairsAgree
<1>1. Inv => PairsAgree
  <2> SUFFICES ASSUME Inv, Orderly, NEW i \in Slots, NEW j, j = clients[i].opponent,
                      clients[i].taken, j # -1, ~Busy(i)
               PROVE  /\ clients[j].taken /\ clients[j].opponent = i
                      /\ clients[j].board = clients[i].board /\ clients[i].board # NULL
    BY DEF PairsAgree
  <2>1. ArrayRight /\ ~Starting(i)
    BY DEF Inv, Pairs, Fine, Orderly, Starting, Exiting
  <2>2. j \in Slots
    BY DEF Inv, Base, Typed, TypedTable, Slot
  <2>3. clients[j].opponent = i
    BY <2>1 DEF ArrayRight
  <2>4. i # -1
    BY FdsAre
  <2> QED BY <2>1, <2>2, <2>3, <2>4 DEF ArrayRight
<1> QED
  BY <1>1, Invariance, PTL

\* Not two clients wait at once: whoever comes is paired with the one that waits
\* (register_client and find_opponent).
THEOREM AtMostOneWaits == Spec => []NobodyWaits
<1>1. Inv => NobodyWaits
  <2> SUFFICES ASSUME Inv, Orderly PROVE Cardinality(Staying) <= 1
    BY DEF NobodyWaits, Staying
  <2>1. \A i, j \in Staying : i = j
    BY DEF Inv, Parting, Fine, Orderly, Exiting
  <2>2. CASE Staying = {}
    BY <2>2, FS_EmptySet
  <2>3. ASSUME NEW i \in Staying PROVE Cardinality(Staying) <= 1
    <3>1. Staying = {i}
      BY <2>1
    <3> QED BY SMTT(60), <3>1, FS_Singleton
  <2> QED BY <2>2, <2>3
<1> QED
  BY <1>1, Invariance, PTL

\* Whoever has played and has no opponent has been told (handle_disconnect, handle_move).
THEOREM LeftAreTold == Spec => []NobodyLeftAlone
<1>1. Inv => NobodyLeftAlone
  BY DEF Inv, Parting, Fine, Orderly, NobodyLeftAlone, Staying, Exiting
<1> QED
  BY <1>1, Invariance, PTL

\* Of two players one has the turn: a board on its way, a move on its way back, or one
\* that is handled (handle_board of the client, handle_move of the server).
THEOREM OneHasTheTurn == Spec => []OneTurn
<1>1. Inv => OneTurn
  <2> SUFFICES ASSUME Inv, Orderly, manage.eofs = 0, NEW i \in Slots, NEW j,
                      j = clients[i].opponent, j # -1, ~Leaving(i), ~Leaving(j)
               PROVE  Turns(i) + Turns(j) = 1
    BY DEF OneTurn
  <2>1. TurnsRight /\ ~Starting(i)
    BY DEF Inv, Turning, Fine, Orderly, Starting, Exiting
  <2>2. j \in Slots
    BY DEF Inv, Base, Typed, TypedTable, Slot
  <2> QED BY <2>1, <2>2 DEF TurnsRight
<1> QED
  BY <1>1, Invariance, PTL

\* Until the server exits no board is used that is not there, and none is freed twice
\* (handle_move and handle_disconnect).
THEOREM BoardsAreThere == Spec => []BoardsThere
<1>1. Inv => BoardsThere
  BY DEF Inv
<1> QED
  BY <1>1, Invariance, PTL
=============================================================================
