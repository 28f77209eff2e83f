-------------------------- MODULE ChatPosix_proofs ---------------------------
(****************************************************************************)
(* Theorems about the chat of cw06/zad2, for any clients, any number of     *)
(* slots, any size of the queues, any number of lines and any accidents.    *)
(****************************************************************************)
EXTENDS ChatPosix, WellFoundedInduction, TLAPS

USE ChatAssumption

-----------------------------------------------------------------------------
(****************************************************************************)
(* The inductive invariant.  What a message says of its sender stays true   *)
(* while it waits because slots are given away only when nothing but INIT   *)
(* is waiting, and because a client sends one STOP, as the last thing it    *)
(* does.                                                                    *)
(****************************************************************************)

\* The messages, and queues of them.  The answer to an INIT carries a slot, and INIT
\* itself none.
Msg ==
  {m \in [type : Types, sender_id : Ids, receiver_id : Slots, by : Clients \union {NoQueue}] :
     m.type = "INIT" => m.sender_id \in Slots}
Queues == [Types -> Seq(Msg)]

Typed ==
  /\ sq \in Queues
  /\ clients \in [Slots -> Clients \union {NoQueue}]
  /\ server \in {"receiving", "sending", "closing", "closing_without", "down"}
  /\ feedback \in Msg
  /\ to \subseteq Slots
  /\ cq \in [Clients -> Queues]
  /\ client \in [Clients -> {"starting", "initializing", "looping", "listing", "submitting",
                             "exiting", "gone"}]
  /\ client_id \in [Clients -> Ids]
  /\ outbox \in [Clients -> Msg]

\* While every client got the answer it waited for, ids are slots.
IdsInside == AnswersRight =>
  /\ \A c \in Clients : client_id[c] \in Slots
  /\ \A t \in Types : \A m \in ToSet(sq[t]) : m.sender_id \in Slots

\* Each message is among those of its type, and a queue holds no more than it can.
QueuesRight ==
  /\ \A t \in Types : \A m \in ToSet(sq[t]) : m.type = t /\ m.by \in Clients
  /\ \A c \in Clients : \A t \in Types : \A m \in ToSet(cq[c][t]) : m.type = t
  /\ Length(sq) <= QueueMax
  /\ \A c \in Clients : Length(cq[c]) <= QueueMax

\* The server sends to clients it has, an id to the one that has just got it, and
\* nothing but STOP when it ends.
ServerRight ==
  /\ to \subseteq Registered
  /\ server \in {"receiving", "down"} => to = {}
  /\ server \in {"closing", "closing_without"} => feedback = Nothing
  /\ server = "sending" /\ feedback.type = "INIT" => to = {feedback.sender_id}

\* A client writes its own name and its id into what it sends.
OutboxRight ==
  \A c \in Clients : client[c] = "submitting" =>
    /\ outbox[c].by = c
    /\ outbox[c].type # "INIT" => outbox[c].sender_id = client_id[c]

\* A STOP is the last thing a client sends, and it sends one.
StopsLast ==
  /\ \A m \in ToSet(sq["STOP"]) : client[m.by] \in {"exiting", "gone"}
  /\ \A i, j \in DOMAIN sq["STOP"] : sq["STOP"][i].by = sq["STOP"][j].by => i = j

\* The clients that have no id yet, and those that have and do not leave.
Entering(c) ==
  \/ client[c] \in {"starting", "initializing"}
  \/ client[c] = "submitting" /\ outbox[c].type = "INIT"
Staying(c) ==
  \/ client[c] \in {"looping", "listing"}
  \/ client[c] = "submitting" /\ outbox[c].type \in {"LIST", "TOALL", "TOONE"}

\* The id a client finds in its queue is that of its own slot.
AnswerRight == IdsKnown =>
  \A c \in Clients : Entering(c) =>
    \A m \in ToSet(cq[c]["INIT"]) : clients[m.sender_id] = c

\* A server that ends has sent STOP to each client, or is going to: also to one
\* that has not read its id yet.
StopComes == server \in {"closing", "closing_without", "down"} /\ IdsKnown =>
  \A c \in Clients :
    /\ Staying(c) => client_id[c] \in to \/ cq[c]["STOP"] # <<>>
    /\ Entering(c) => \A m \in ToSet(cq[c]["INIT"]) :
         m.sender_id \in to \/ cq[c]["STOP"] # <<>>

IInv ==
  /\ Typed /\ IdsInside /\ QueuesRight /\ ServerRight /\ OutboxRight /\ StopsLast
  /\ AnswerRight /\ SendersRight /\ StopComes

-----------------------------------------------------------------------------
(* Sequences, queues and slots. *)

\* The types of messages, from the one that is received first to the last.
LEMMA TypesAre ==
  /\ Types = {"STOP", "LIST", "TOALL", "TOONE", "INIT"}
  /\ Priority["STOP"] = 5 /\ Priority["LIST"] = 4 /\ Priority["TOALL"] = 3
  /\ Priority["TOONE"] = 2 /\ Priority["INIT"] = 1
BY DEF Types, Priority

\* The least member of a set of naturals is in it: find_free, and the order of sending.
LEMMA MinMember ==
  ASSUME NEW S \in SUBSET Nat, S # {}
  PROVE  Min(S) \in S
<1> DEFINE Less == {ss \in Nat \X Nat : ss[1] < ss[2]}
<1>1. IsWellFoundedOn(Less, Nat)
  BY NatLessThanWellFounded DEF OpToRel
<1>2. PICK x \in S : \A y \in S : ~ (<<y, x>> \in Less)
  <2> HIDE DEF Less
  <2> QED BY <1>1, WFMin
<1>3. ASSUME NEW y \in S, y < x PROVE FALSE
  <2>1. <<y, x>> \in Less
    BY <1>3
  <2> QED BY <2>1, <1>2
<1>4. \A y \in S : x =< y
  BY <1>3
<1> QED
  BY <1>4 DEF Min

\* Sending a message appends it ...
LEMMA AppendSet ==
  ASSUME NEW X, NEW s \in Seq(X), NEW x \in X
  PROVE  /\ Append(s, x) \in Seq(X) /\ Len(Append(s, x)) = Len(s) + 1
         /\ ToSet(Append(s, x)) = ToSet(s) \union {x}
<1>1. /\ Append(s, x) \in Seq(X) /\ Len(Append(s, x)) = Len(s) + 1
      /\ \A i \in 1 .. Len(s) : Append(s, x)[i] = s[i]
      /\ Append(s, x)[Len(s) + 1] = x
  OBVIOUS
<1>2. DOMAIN s = 1 .. Len(s) /\ DOMAIN Append(s, x) = 1 .. Len(s) + 1 /\ Len(s) \in Nat
  OBVIOUS
<1>3. DOMAIN Append(s, x) = DOMAIN s \union {Len(s) + 1}
  BY <1>2
<1> QED
  BY <1>1, <1>2, <1>3 DEF ToSet

\* ... and receiving one takes off the first.
LEMMA TailSet ==
  ASSUME NEW X, NEW s \in Seq(X), s # <<>>
  PROVE  /\ Head(s) \in X /\ Head(s) \in ToSet(s) /\ Head(s) = s[1] /\ 1 \in DOMAIN s
         /\ Tail(s) \in Seq(X) /\ Len(Tail(s)) = Len(s) - 1 /\ Len(s) > 0
         /\ ToSet(Tail(s)) \subseteq ToSet(s)
         /\ \A i \in DOMAIN Tail(s) : i + 1 \in DOMAIN s /\ Tail(s)[i] = s[i + 1] /\ i # 0
<1>1. /\ Head(s) \in X /\ Head(s) = s[1] /\ 1 \in DOMAIN s
      /\ Tail(s) \in Seq(X) /\ Len(Tail(s)) = Len(s) - 1 /\ Len(s) > 0
  OBVIOUS
<1>2. \A i \in DOMAIN Tail(s) : i + 1 \in DOMAIN s /\ Tail(s)[i] = s[i + 1] /\ i # 0
  OBVIOUS
<1> QED
  BY <1>1, <1>2 DEF ToSet

\* What mq_send does to a queue.
LEMMA SentEffect ==
  ASSUME NEW q \in Queues, NEW m \in Msg
  PROVE  /\ Sent(q, m) \in Queues
         /\ ToSet(Sent(q, m)[m.type]) = ToSet(q[m.type]) \union {m}
         /\ Sent(q, m)[m.type] = Append(q[m.type], m)
         /\ \A u \in Types \ {m.type} : Sent(q, m)[u] = q[u]
         /\ Length(q) \in Nat /\ Length(Sent(q, m)) = Length(q) + 1
<1>1. m.type \in Types
  BY DEF Msg
<1>2. \A u \in Types : q[u] \in Seq(Msg) /\ Len(q[u]) \in Nat
  BY DEF Queues
<1>3. /\ Append(q[m.type], m) \in Seq(Msg)
      /\ Len(Append(q[m.type], m)) = Len(q[m.type]) + 1
      /\ ToSet(Append(q[m.type], m)) = ToSet(q[m.type]) \union {m}
  BY <1>1, <1>2, AppendSet
<1>4. \A u \in Types : Sent(q, m)[u] = IF u = m.type THEN Append(q[m.type], m) ELSE q[u]
  BY <1>1 DEF Sent, Queues
<1>5. Sent(q, m) \in Queues
  BY <1>1, <1>3 DEF Sent, Queues
<1>6. Length(q) \in Nat /\ Length(Sent(q, m)) = Length(q) + 1
  <2> DEFINE n(u) == Len(q[u])
             k(u) == Len(Sent(q, m)[u])
  <2>1. \A u \in Types : n(u) \in Nat
    BY <1>2
  <2>2. k(m.type) = n(m.type) + 1
    BY <1>1, <1>3, <1>4
  <2>3. \A u \in Types : u # m.type => k(u) = n(u)
    BY <1>4
  <2>4. /\ Length(q) = n("STOP") + n("LIST") + n("TOALL") + n("TOONE") + n("INIT")
        /\ Length(Sent(q, m)) = k("STOP") + k("LIST") + k("TOALL") + k("TOONE") + k("INIT")
    BY DEF Length
  <2> HIDE DEF n, k
  <2> QED
    BY <1>1, <2>1, <2>2, <2>3, <2>4, TypesAre
<1> QED
  BY <1>1, <1>3, <1>4, <1>5, <1>6

\* What mq_receive does to it.
Taken(q, t) == [q EXCEPT ![t] = Tail(@)]

\* Taking a message leaves the other types alone and the queue shorter by one.
LEMMA TakenEffect ==
  ASSUME NEW q \in Queues, NEW t \in Types, q[t] # <<>>
  PROVE  /\ Head(q[t]) \in Msg /\ Head(q[t]) \in ToSet(q[t])
         /\ Taken(q, t) \in Queues /\ Taken(q, t)[t] = Tail(q[t])
         /\ \A u \in Types \ {t} : Taken(q, t)[u] = q[u]
         /\ \A u \in Types : ToSet(Taken(q, t)[u]) \subseteq ToSet(q[u])
         /\ Length(q) \in Nat /\ Length(Taken(q, t)) = Length(q) - 1
<1> DEFINE r == Taken(q, t)
<1>1. \A u \in Types : q[u] \in Seq(Msg) /\ Len(q[u]) \in Nat
  BY DEF Queues
<1>2. /\ Head(q[t]) \in Msg /\ Head(q[t]) \in ToSet(q[t])
      /\ Tail(q[t]) \in Seq(Msg) /\ Len(Tail(q[t])) = Len(q[t]) - 1
      /\ ToSet(Tail(q[t])) \subseteq ToSet(q[t])
  BY <1>1, TailSet
<1>3. \A u \in Types : r[u] = IF u = t THEN Tail(q[t]) ELSE q[u]
  BY DEF Queues, Taken
<1>4. r \in Queues
  BY <1>2 DEF Queues, Taken
<1> HIDE DEF r
<1>5. Length(q) \in Nat /\ Length(r) = Length(q) - 1
  <2> DEFINE n(u) == Len(q[u])
             k(u) == Len(r[u])
  <2>1. \A u \in Types : n(u) \in Nat
    BY <1>1
  <2>2. k(t) = n(t) - 1
    BY <1>2, <1>3
  <2>3. \A u \in Types : u # t => k(u) = n(u)
    BY <1>3
  <2>4. /\ Length(q) = n("STOP") + n("LIST") + n("TOALL") + n("TOONE") + n("INIT")
        /\ Length(r) = k("STOP") + k("LIST") + k("TOALL") + k("TOONE") + k("INIT")
    BY DEF Length
  <2> HIDE DEF n, k
  <2> QED
    <3>1. t \in {"STOP", "LIST", "TOALL", "TOONE", "INIT"}
      BY TypesAre
    <3>2. /\ n("STOP") \in Nat /\ n("LIST") \in Nat /\ n("TOALL") \in Nat
          /\ n("TOONE") \in Nat /\ n("INIT") \in Nat
      BY <2>1, TypesAre
    <3>3. \A u \in {"STOP", "LIST", "TOALL", "TOONE", "INIT"} :
            k(u) = IF u = t THEN n(u) - 1 ELSE n(u)
      BY <2>2, <2>3, TypesAre
    <3> QED
      BY <2>4, <3>1, <3>2, <3>3, SMTT(60)
<1> QED
  BY <1>2, <1>3, <1>4, <1>5 DEF r

\* What is in a queue is a message.
LEMMA MembersTyped ==
  ASSUME NEW q \in Queues, NEW t \in Types, NEW m \in ToSet(q[t])
  PROVE  /\ m \in Msg /\ m.sender_id \in Ids /\ m.receiver_id \in Slots
         /\ m.type = "INIT" => m.sender_id \in Slots
<1>1. q[t] \in Seq(Msg)
  BY DEF Queues
<1>2. m \in Msg
  BY <1>1 DEF ToSet
<1> QED
  BY <1>2 DEF Msg

\* The messages of a queue are those of each type.
LEMMA InMessages ==
  \A q, m : m \in Messages(q) <=> \E t \in Types : m \in ToSet(q[t])
BY DEF Messages

\* The server's own messages.
LEMMA NoticesAreMessages ==
  /\ Nothing \in Msg /\ Nothing.type = "STOP"
  /\ \A i \in Slots : Message("INIT", i, 0, NoQueue) \in Msg
  /\ Message("LIST", Outside, 0, NoQueue) \in Msg
  /\ \A c \in Clients, j \in Slots, i \in Ids, t \in Types :
       (t = "INIT" => i \in Slots) => Message(t, i, j, c) \in Msg
  /\ 0 \in Slots /\ 0 \in Ids
<1>1. 0 \in Slots /\ Slots \subseteq Ids /\ Outside \in Ids
  BY DEF Slots, Ids
<1> QED
  BY <1>1, TypesAre DEF Nothing, Message, Msg

\* If all clients know their ids, these are slots, and so are those in their messages.
LEMMA KnownInside ==
  ASSUME IInv, IdsKnown
  PROVE  /\ \A c \in Clients : client_id[c] \in Slots
         /\ \A t \in Types : \A m \in ToSet(sq[t]) : m.sender_id \in Slots
BY DEF IInv, IdsInside, IdsKnown, AnswersRight

\* The ids in the answers the server has sent are slots.
LEMMA AnswersInside ==
  ASSUME IInv, NEW c \in Clients, NEW m \in ToSet(cq[c]["INIT"])
  PROVE  m.sender_id \in Slots
<1>1. "INIT" \in Types /\ cq[c] \in Queues
  BY TypesAre DEF IInv, Typed
<1>2. m.type = "INIT"
  BY <1>1 DEF IInv, QueuesRight
<1> QED
  BY <1>1, <1>2, MembersTyped

-----------------------------------------------------------------------------
(* The server. *)

\* What Receive takes off the queue, and what stays there.
LEMMA Received ==
  ASSUME Typed, QueuesRight, StopsLast,
         NEW t \in Types, Foremost(sq, t), sq' = [sq EXCEPT ![t] = Tail(@)]
  PROVE  /\ Head(sq[t]) \in ToSet(sq[t]) /\ Head(sq[t]) \in Msg
         /\ Head(sq[t]).type = t /\ Head(sq[t]).by \in Clients
         /\ sq' \in Queues /\ Length(sq)' <= QueueMax
         /\ \A u \in Types : ToSet(sq'[u]) \subseteq ToSet(sq[u])
         /\ \A i, j \in DOMAIN sq'["STOP"] : sq'["STOP"][i].by = sq'["STOP"][j].by => i = j
         /\ t = "STOP" => \A m \in ToSet(sq'["STOP"]) : m.by # Head(sq[t]).by
<1>1. sq \in Queues /\ sq[t] # <<>> /\ sq[t] \in Seq(Msg)
  BY DEF Typed, Foremost, Queues
<1>2. /\ Head(sq[t]) \in Msg /\ Head(sq[t]) \in ToSet(sq[t])
      /\ sq' \in Queues /\ sq'[t] = Tail(sq[t])
      /\ \A u \in Types \ {t} : sq'[u] = sq[u]
      /\ \A u \in Types : ToSet(sq'[u]) \subseteq ToSet(sq[u])
      /\ Length(sq) \in Nat /\ Length(sq') = Length(sq) - 1
  <2>1. sq' = Taken(sq, t)
    BY DEF Taken
  <2>2. /\ Head(sq[t]) \in Msg /\ Head(sq[t]) \in ToSet(sq[t])
        /\ sq' \in Queues /\ sq'[t] = Tail(sq[t])
    BY <1>1, <2>1, TakenEffect, ZenonT(60)
  <2>3. \A u \in Types \ {t} : sq'[u] = sq[u]
    BY <1>1, <2>1, TakenEffect
  <2>4. \A u \in Types : ToSet(sq'[u]) \subseteq ToSet(sq[u])
    BY <1>1, <2>1, TakenEffect
  <2>5. Length(sq) \in Nat /\ Length(sq') = Length(sq) - 1
    BY <1>1, <2>1, TakenEffect
  <2> QED
    BY <2>2, <2>3, <2>4, <2>5
<1>3. Head(sq[t]).type = t /\ Head(sq[t]).by \in Clients /\ Length(sq)' <= QueueMax
  <2>1. Length(sq)' = Length(sq')
    BY DEF Length
  <2> QED
    BY <1>2, <2>1 DEF QueuesRight
<1>4. ASSUME t = "STOP"
      PROVE  /\ \A i, j \in DOMAIN sq'["STOP"] : sq'["STOP"][i].by = sq'["STOP"][j].by => i = j
             /\ \A m \in ToSet(sq'["STOP"]) : m.by # Head(sq[t]).by
  <2>1. /\ Head(sq[t]) = sq[t][1] /\ 1 \in DOMAIN sq[t]
        /\ \A i \in DOMAIN Tail(sq[t]) :
             i + 1 \in DOMAIN sq[t] /\ Tail(sq[t])[i] = sq[t][i + 1] /\ i # 0
    BY <1>1, TailSet
  <2>2. DOMAIN Tail(sq[t]) \subseteq Nat
    BY <1>1
  <2>3. \A i \in DOMAIN Tail(sq[t]) : i + 1 # 1
    BY <2>1, <2>2
  <2>4. \A i, j \in DOMAIN sq[t] : sq[t][i].by = sq[t][j].by => i = j
    BY <1>4 DEF StopsLast
  <2> DEFINE old == sq[t]
             rest == Tail(old)
  <2>5. /\ \A i, j \in DOMAIN rest : rest[i].by = rest[j].by => i = j
        /\ \A i \in DOMAIN rest : rest[i].by # Head(old).by
    <3> HIDE DEF old, rest
    <3>1. /\ Head(old) = old[1] /\ 1 \in DOMAIN old
          /\ \A i \in DOMAIN rest : i + 1 \in DOMAIN old /\ rest[i] = old[i + 1]
          /\ DOMAIN rest \subseteq Nat /\ \A i \in DOMAIN rest : i + 1 # 1
          /\ \A i, j \in DOMAIN old : old[i].by = old[j].by => i = j
      BY <2>1, <2>2, <2>3, <2>4 DEF old, rest
    <3>2. \A i, j \in DOMAIN rest : i + 1 = j + 1 => i = j
      BY <3>1
    <3> QED
      BY <3>1, <3>2
  <2>6. sq'["STOP"] = rest /\ Head(sq[t]) = Head(old)
    BY <1>2, <1>4
  <2> HIDE DEF old, rest
  <2>7. \A m \in ToSet(rest) : m.by # Head(old).by
    BY <2>5 DEF ToSet
  <2>8. \A i, j \in DOMAIN sq'["STOP"] : sq'["STOP"][i].by = sq'["STOP"][j].by => i = j
    BY <2>5, <2>6
  <2>9. \A m \in ToSet(sq'["STOP"]) : m.by # Head(sq[t]).by
    BY <2>6, <2>7
  <2> QED
    BY <2>8, <2>9
<1>5. ASSUME t # "STOP"
      PROVE  \A i, j \in DOMAIN sq'["STOP"] : sq'["STOP"][i].by = sq'["STOP"][j].by => i = j
  BY <1>2, <1>5, TypesAre DEF StopsLast
<1> QED
  BY <1>2, <1>3, <1>4, <1>5

\* Whatever the server receives, what it does to the table of clients is right if it
\* frees only the slot of a client that says STOP, or gives a free one to a client
\* when nothing but INIT is waiting.
LEMMA TableStaysRight ==
  ASSUME IInv, NEW t \in Types, Foremost(sq, t), sq' = [sq EXCEPT ![t] = Tail(@)],
         UNCHANGED <<cq, client, client_id, outbox, accidents>>,
         NEW m, m = Head(sq[t]),
         \/ clients' = clients
         \/ /\ t = "STOP" /\ m.sender_id \in Registered
            /\ clients' = [clients EXCEPT ![m.sender_id] = NoQueue]
         \/ /\ t = "INIT"
            /\ \E i \in Slots : clients[i] = NoQueue /\ clients' = [clients EXCEPT ![i] = m.by]
  PROVE  /\ QueuesRight' /\ OutboxRight' /\ StopsLast' /\ SendersRight' /\ AnswerRight'
         /\ IdsInside'
<1> USE DEF IInv
<1>1. /\ m \in ToSet(sq[t]) /\ m \in Msg /\ m.type = t /\ m.by \in Clients
      /\ \A u \in Types : ToSet(sq'[u]) \subseteq ToSet(sq[u])
      /\ \A i, j \in DOMAIN sq'["STOP"] : sq'["STOP"][i].by = sq'["STOP"][j].by => i = j
      /\ t = "STOP" => \A m2 \in ToSet(sq'["STOP"]) : m2.by # m.by
      /\ Length(sq)' <= QueueMax
  BY Received
<1>2. QueuesRight'
  BY <1>1 DEF QueuesRight, Length
<1>3. OutboxRight' /\ StopsLast'
  BY <1>1, TypesAre DEF OutboxRight, StopsLast
<1>4. IdsKnown' => IdsKnown
  BY DEF IdsKnown
<1>5. /\ \A m2 \in Messages(sq)' : m2 \in Messages(sq) /\ \E u \in Types : m2 \in ToSet(sq[u])
      /\ m \in Messages(sq)
  <2>1. Messages(sq)' = Messages(sq')
    BY DEF Messages, ToSet
  <2> QED
    BY <1>1, <2>1, InMessages
<1>6. \A x \in Clients : Active(x)' => Active(x)
  BY <1>1, TypesAre DEF Active
<1>7. IdsInside'
  BY <1>1 DEF IdsInside, AnswersRight
<1>10. CASE clients' = clients
  <2>1. SendersRight'
    BY <1>4, <1>5, <1>6, <1>10 DEF SendersRight
  <2>2. AnswerRight'
    BY <1>4, <1>10 DEF AnswerRight, Entering
  <2> QED
    BY <1>2, <1>3, <1>7, <2>1, <2>2
<1>8. CASE /\ t = "STOP" /\ m.sender_id \in Registered
           /\ clients' = [clients EXCEPT ![m.sender_id] = NoQueue]
  <2>1. \A i \in Slots : clients'[i] = IF i = m.sender_id THEN NoQueue ELSE clients[i]
    BY <1>8 DEF Typed
  <2>2. client[m.by] \in {"exiting", "gone"}
    BY <1>1, <1>8 DEF StopsLast
  <2>3. IdsKnown => clients[m.sender_id] = m.by
    BY <1>1, <1>5, <1>8 DEF SendersRight, Registered
  <2>4. ~Active(m.by)'
    BY <1>1, <1>8, <2>2 DEF Active
  <2>5. SendersRight'
    <3>1. ASSUME IdsKnown', NEW x \in Clients, Active(x)' PROVE clients'[client_id'[x]] = x
      <4>1. client_id[x] \in Slots
        BY <1>4, <3>1, KnownInside
      <4> QED
        BY <1>4, <1>6, <2>1, <2>3, <2>4, <3>1, <4>1 DEF SendersRight
    <3>2. ASSUME IdsKnown', NEW m2 \in Messages(sq)', m2.type # "INIT"
          PROVE  clients'[m2.sender_id] \in {m2.by, NoQueue}
      <4>1. m2.sender_id \in Slots
        BY <1>4, <1>5, <3>2, KnownInside
      <4> QED
        BY <1>4, <1>5, <2>1, <3>2, <4>1 DEF SendersRight
    <3> QED
      BY <3>1, <3>2 DEF SendersRight
  <2>6. AnswerRight'
    <3> SUFFICES ASSUME IdsKnown', NEW x \in Clients, Entering(x),
                        NEW m2 \in ToSet(cq[x]["INIT"])
                 PROVE  clients'[m2.sender_id] = x
      BY DEF AnswerRight, Entering
    <3>1. x # m.by
      BY <2>2 DEF Entering
    <3>2. clients[m2.sender_id] = x
      BY <1>4 DEF AnswerRight
    <3>3. m2.sender_id \in Slots
      BY AnswersInside
    <3> QED
      BY <1>4, <2>1, <2>3, <3>1, <3>2, <3>3
  <2> QED
    BY <1>2, <1>3, <1>7, <2>5, <2>6
<1>9. ASSUME t = "INIT", NEW i \in Slots,
             clients[i] = NoQueue, clients' = [clients EXCEPT ![i] = m.by]
      PROVE  SendersRight' /\ AnswerRight'
  <2>1. \A j \in Slots : clients'[j] = IF j = i THEN m.by ELSE clients[j]
    BY <1>9 DEF Typed
  <2>2. \A m2 \in Messages(sq)' : m2.type = "INIT"
    <3>1. \A u \in Types \ {"INIT"} : sq[u] = <<>>
      BY <1>9, TypesAre DEF Foremost
    <3>2. \A u \in Types \ {"INIT"} : ToSet(sq[u]) = {}
      BY <3>1 DEF ToSet
    <3>3. ASSUME NEW m2 \in Messages(sq)' PROVE m2.type = "INIT"
      <4>1. PICK u \in Types : m2 \in ToSet(sq[u])
        BY <1>5, <3>3
      <4>2. m2.type = u
        BY <4>1 DEF QueuesRight
      <4> QED
        BY <3>2, <4>1, <4>2
    <3> QED
      BY <3>3
  <2>3. IdsKnown => \A x \in Clients : client_id[x] \in Slots
    BY KnownInside
  <2>4. \A x \in Clients : \A m2 \in ToSet(cq[x]["INIT"]) : m2.sender_id \in Slots
    BY AnswersInside
  <2>5. SendersRight'
    <3>1. \A x \in Clients : Active(x)' => clients[client_id[x]] = x \/ ~IdsKnown
      BY <1>6 DEF SendersRight
    <3> QED
      BY <1>4, <1>9, <2>1, <2>2, <2>3, <3>1 DEF SendersRight
  <2>6. AnswerRight'
    BY <1>4, <1>9, <2>1, <2>4 DEF AnswerRight, Entering
  <2> QED
    BY <2>5, <2>6
<1> QED
  BY <1>2, <1>3, <1>7, <1>8, <1>9, <1>10

\* A server that begins to end has a STOP for each client it knows.
LEMMA ExitsReachAll ==
  ASSUME IInv, Exits, UNCHANGED <<clients, cq, client, client_id, outbox, accidents>>
  PROVE  ServerRight' /\ StopComes'
<1> USE DEF IInv
<1>1. server' = "closing" /\ feedback' = Nothing /\ to' = Registered /\ clients' = clients
  BY DEF Exits
<1>2. ServerRight'
  BY <1>1 DEF ServerRight, Registered
<1>3. ASSUME IdsKnown, NEW c \in Clients, Staying(c) PROVE client_id[c] \in Registered
  BY <1>3, KnownInside DEF SendersRight, Staying, Active, Registered
<1>4. ASSUME IdsKnown, NEW c \in Clients, Entering(c), NEW m \in ToSet(cq[c]["INIT"])
      PROVE  m.sender_id \in Registered
  <2>1. m.sender_id \in Slots
    BY <1>4, AnswersInside
  <2> QED
    BY <1>4, <2>1 DEF AnswerRight, Registered
<1>5. StopComes'
  BY <1>1, <1>3, <1>4 DEF StopComes, IdsKnown, Staying, Entering
<1> QED
  BY <1>2, <1>5

\* What an id that is no slot may do to the server: it ends without its queue, or at
\* once.
Strays ==
  /\ clients' = clients /\ feedback' = Nothing
  /\ \/ server' = "closing_without" /\ to' = Registered
     \/ server' = "down" /\ to' = {}

\* What the handlers do with a message: the table changes as said above, and the
\* server ends, is through, or has an answer for clients it knows.
LEMMA Handled ==
  ASSUME IInv, Receive
  PROVE  \E t \in Types :
           LET m == Head(sq[t]) IN
           /\ Foremost(sq, t) /\ sq' = [sq EXCEPT ![t] = Tail(@)]
           /\ \/ clients' = clients
              \/ /\ t = "STOP" /\ m.sender_id \in Registered
                 /\ clients' = [clients EXCEPT ![m.sender_id] = NoQueue]
              \/ /\ t = "INIT"
                 /\ \E i \in Slots :
                      clients[i] = NoQueue /\ clients' = [clients EXCEPT ![i] = m.by]
           /\ \/ Exits /\ clients' = clients
              \/ ~IdsKnown /\ Strays
              \/ server' = "receiving" /\ feedback' \in Msg /\ to' = {}
              \/ /\ server' = "sending" /\ feedback' \in Msg
                 /\ to' \subseteq Registered'
                 /\ feedback'.type = "INIT" => to' = {feedback'.sender_id}
<1> USE DEF IInv
<1>1. server = "receiving" /\ to = {} /\ feedback \in Msg
  BY DEF Receive, ServerRight, Typed
<1>2. PICK t \in Types :
        /\ Foremost(sq, t) /\ sq' = [sq EXCEPT ![t] = Tail(@)]
        /\ \/ t = "STOP" /\ handle_stop(Head(sq[t]))
           \/ t = "LIST" /\ handle_list(Head(sq[t]))
           \/ t = "TOALL" /\ handle_toall(Head(sq[t]))
           \/ t = "TOONE" /\ handle_toone(Head(sq[t]))
           \/ t = "INIT" /\ handle_init(Head(sq[t]))
  BY DEF Receive
<1>3. PICK m : m = Head(sq[t])
  OBVIOUS
<1>4. m \in Msg /\ m.type = t /\ m.by \in Clients
  BY <1>2, <1>3, Received
<1>5. m.receiver_id \in Slots /\ m.by # NoQueue
  BY <1>4 DEF Msg
<1>15. m.sender_id = Outside => ~IdsKnown
  <2>1. Outside \notin Slots
    BY DEF Outside, Slots
  <2>2. m \in ToSet(sq[t])
    BY <1>2, <1>3, Received
  <2> QED
    BY <2>1, <2>2, KnownInside
<1>16. NoDescriptor(m.sender_id) /\ clients' = clients => Exits \/ (~IdsKnown /\ Strays)
  BY <1>15 DEF NoDescriptor, Strays
<1> DEFINE Table == \/ clients' = clients
                    \/ /\ t = "STOP" /\ m.sender_id \in Registered
                       /\ clients' = [clients EXCEPT ![m.sender_id] = NoQueue]
                    \/ /\ t = "INIT"
                       /\ \E i \in Slots : /\ clients[i] = NoQueue
                                           /\ clients' = [clients EXCEPT ![i] = m.by]
           Ends == (Exits /\ clients' = clients) \/ (~IdsKnown /\ Strays)
           Through == server' = "receiving" /\ feedback' \in Msg /\ to' = {}
           Answers == /\ server' = "sending" /\ feedback' \in Msg
                      /\ to' \subseteq Registered'
                      /\ feedback'.type = "INIT" => to' = {feedback'.sender_id}
<1>6. Nothing \in Msg
  BY NoticesAreMessages
<1>7. Returns => Through
  BY <1>1 DEF Returns
<1>8. ASSUME NEW n \in Msg, n.type # "INIT", NEW R \in SUBSET Registered,
             Sends(n, R), clients' = clients
      PROVE  Through \/ Answers
  <2>1. Registered' = Registered
    BY <1>8 DEF Registered
  <2> QED
    BY <1>6, <1>8, <2>1 DEF Sends
<1>9. ASSUME t = "STOP", handle_stop(m)
      PROVE  Table /\ (Ends \/ Through \/ Answers)
  <2>1. CASE /\ m.sender_id \in Registered /\ Returns
             /\ clients' = [clients EXCEPT ![m.sender_id] = NoQueue]
    BY <1>7, <1>9, <2>1
  <2>2. CASE NoDescriptor(m.sender_id) /\ clients' = clients
    BY <1>16, <2>2
  <2>3. CASE m.sender_id = Outside /\ clients' = clients /\ (Returns \/ ExitsWithout)
    <3>1. CASE Returns
      BY <1>7, <2>3, <3>1
    <3>2. CASE ExitsWithout
      <4>1. ~IdsKnown /\ Strays
        BY <1>15, <2>3, <3>2 DEF ExitsWithout, Strays
      <4> QED
        BY <2>3, <4>1
    <3> QED
      BY <2>3, <3>1, <3>2
  <2> QED
    BY <1>9, <2>1, <2>2, <2>3 DEF handle_stop
<1>10. ASSUME t = "LIST", handle_list(m)
       PROVE  Table /\ (Ends \/ Through \/ Answers)
  <2>1. clients' = clients
    BY <1>10 DEF handle_list
  <2>2. ASSUME NEW i \in Registered, Sends(Message("LIST", Outside, 0, NoQueue), {i})
        PROVE  Through \/ Answers
    <3>1. PICK n \in Msg : n = Message("LIST", Outside, 0, NoQueue) /\ n.type # "INIT"
      BY NoticesAreMessages DEF Message
    <3>2. {i} \in SUBSET Registered
      OBVIOUS
    <3> QED
      BY <1>8, <2>1, <2>2, <3>1, <3>2
  <2>3. CASE NoDescriptor(m.sender_id)
    BY <1>16, <2>1, <2>3
  <2> QED
    BY <1>10, <2>1, <2>2, <2>3 DEF handle_list
<1>11. ASSUME t = "TOALL", handle_toall(m)
       PROVE  Table /\ (Ends \/ Through \/ Answers)
  <2>1. clients' = clients /\ Sends(m, Registered)
    BY <1>11 DEF handle_toall
  <2>2. Through \/ Answers
    BY <1>4, <1>8, <1>11, <2>1
  <2> QED
    BY <2>1, <2>2
<1>12. ASSUME t = "TOONE", handle_toone(m)
       PROVE  Table /\ (Ends \/ Through \/ Answers)
  <2>1. clients' = clients /\ Sends(m, {m.receiver_id} \cap Registered)
    BY <1>12 DEF handle_toone
  <2>2. Through \/ Answers
    BY <1>4, <1>8, <1>12, <2>1
  <2> QED
    BY <2>1, <2>2
<1>13. ASSUME t = "INIT", handle_init(m)
       PROVE  Table /\ (Ends \/ Through \/ Answers)
  <2>1. CASE Returns /\ UNCHANGED clients
    BY <1>7, <2>1
  <2>2. CASE Exits /\ UNCHANGED clients
    BY <2>2
  <2>3. ASSUME find_free # {}, NEW i, i = Min(find_free),
               clients' = [clients EXCEPT ![i] = m.by],
               Sends(Message("INIT", i, 0, NoQueue), {i})
        PROVE  Table /\ Answers
    <3>1. i \in Slots /\ clients[i] = NoQueue
      <4>1. find_free \in SUBSET Nat
        BY DEF find_free, Slots
      <4> QED
        BY <2>3, <4>1, MinMember DEF find_free
    <3>2. Message("INIT", i, 0, NoQueue) \in Msg
      BY <3>1, NoticesAreMessages
    <3>3. clients'[i] = m.by
      BY <2>3, <3>1 DEF Typed
    <3>4. {i} \subseteq Registered'
      BY <1>5, <3>1, <3>3 DEF Registered
    <3>5. /\ server' = "sending" /\ to' = {i} /\ feedback' = Message("INIT", i, 0, NoQueue)
      BY <2>3 DEF Sends
    <3>6. feedback'.sender_id = i
      BY <3>5 DEF Message
    <3>7. Answers
      BY <3>2, <3>4, <3>5, <3>6
    <3>8. Table
      BY <1>13, <2>3, <3>1
    <3> QED
      BY <3>7, <3>8
  <2> QED
    BY <1>13, <2>1, <2>2, <2>3 DEF handle_init
<1>14. Table /\ (Ends \/ Through \/ Answers)
  BY <1>2, <1>3, <1>9, <1>10, <1>11, <1>12, <1>13
<1> QED
  BY <1>2, <1>3, <1>14

\* The server takes a message and does what it asks for.
LEMMA ReceiveKeeps ==
  ASSUME IInv, Receive
  PROVE  IInv'
<1> USE DEF IInv
<1>1. /\ UNCHANGED <<cq, client, client_id, outbox, accidents>>
      /\ server = "receiving" /\ to = {}
  BY DEF Receive, ServerRight
<1>2. PICK t \in Types :
        LET m == Head(sq[t]) IN
        /\ Foremost(sq, t) /\ sq' = [sq EXCEPT ![t] = Tail(@)]
        /\ \/ clients' = clients
           \/ /\ t = "STOP" /\ m.sender_id \in Registered
              /\ clients' = [clients EXCEPT ![m.sender_id] = NoQueue]
           \/ /\ t = "INIT"
              /\ \E i \in Slots :
                   clients[i] = NoQueue /\ clients' = [clients EXCEPT ![i] = m.by]
        /\ \/ Exits /\ clients' = clients
           \/ ~IdsKnown /\ Strays
           \/ server' = "receiving" /\ feedback' \in Msg /\ to' = {}
           \/ /\ server' = "sending" /\ feedback' \in Msg
              /\ to' \subseteq Registered'
              /\ feedback'.type = "INIT" => to' = {feedback'.sender_id}
  BY Handled
<1>3. /\ QueuesRight' /\ OutboxRight' /\ StopsLast' /\ SendersRight' /\ AnswerRight'
      /\ IdsInside'
  BY <1>1, <1>2, TableStaysRight
<1>4. sq' \in Queues /\ Head(sq[t]) \in Msg /\ Head(sq[t]).by \in Clients
  BY <1>2, Received
<1>5. clients' \in [Slots -> Clients \union {NoQueue}]
  BY <1>2, <1>4 DEF Typed
<1>6. /\ server' \in {"receiving", "sending", "closing", "closing_without", "down"}
      /\ feedback' \in Msg /\ to' \subseteq Slots
  BY <1>2, NoticesAreMessages DEF Exits, Strays, Registered
<1>7. Typed'
  BY <1>1, <1>4, <1>5, <1>6 DEF Typed
<1>8. ServerRight' /\ StopComes'
  <2>1. CASE Exits /\ clients' = clients
    BY <1>1, <2>1, ExitsReachAll
  <2>2. CASE server' = "receiving" /\ feedback' \in Msg /\ to' = {}
    BY <2>2 DEF ServerRight, StopComes
  <2>3. CASE /\ server' = "sending" /\ feedback' \in Msg
             /\ to' \subseteq Registered'
             /\ feedback'.type = "INIT" => to' = {feedback'.sender_id}
    BY <2>3 DEF ServerRight, StopComes
  <2>4. CASE ~IdsKnown /\ Strays
    <3>1. ~IdsKnown' /\ Registered' = Registered
      BY <1>1, <2>4 DEF IdsKnown, Strays, Registered
    <3> QED
      BY <2>4, <3>1 DEF Strays, ServerRight, StopComes
  <2> QED
    BY <1>2, <2>1, <2>2, <2>3, <2>4
<1> QED
  BY <1>3, <1>7, <1>8

\* The server sends a message to the client of the next slot.
LEMMA SendOneKeeps ==
  ASSUME IInv, SendOne
  PROVE  IInv'
<1> USE DEF IInv
<1>1. PICK i : i = Min(to)
  OBVIOUS
<1>2. i \in to /\ i \in Slots /\ clients[i] \in Clients
  <2>1. to \in SUBSET Nat /\ to # {}
    BY DEF SendOne, Typed, Slots
  <2> QED
    BY <1>1, <2>1, MinMember DEF Typed, ServerRight, Registered
<1>3. PICK c \in Clients : c = clients[i]
  BY <1>2
<1>4. /\ Length(cq[c]) < QueueMax
      /\ cq' = [cq EXCEPT ![c] = Sent(@, feedback)]
      /\ to' = to \ {i}
      /\ UNCHANGED <<sq, clients, client, client_id, outbox, accidents>>
  BY <1>1, <1>3 DEF SendOne
<1>5. \/ server = "sending" /\ to' = {} /\ server' = "receiving" /\ feedback' = Nothing
      \/ ~ (server = "sending" /\ to' = {}) /\ server' = server /\ feedback' = feedback
  BY DEF SendOne
<1>6. server \in {"sending", "closing", "closing_without"}
  BY <1>2 DEF ServerRight, Typed
<1>7. feedback \in Msg /\ feedback.type \in Types /\ cq[c] \in Queues
  BY DEF Typed, Msg
<1>8. /\ Sent(cq[c], feedback) \in Queues
      /\ ToSet(Sent(cq[c], feedback)[feedback.type]) = ToSet(cq[c][feedback.type]) \union {feedback}
      /\ Sent(cq[c], feedback)[feedback.type] = Append(cq[c][feedback.type], feedback)
  BY <1>7, SentEffect
<1>9. \A u \in Types \ {feedback.type} : Sent(cq[c], feedback)[u] = cq[c][u]
  BY <1>7, SentEffect
<1>10. Length(cq[c]) \in Nat /\ Length(Sent(cq[c], feedback)) = Length(cq[c]) + 1
  BY <1>7, SentEffect
<1>11. \A x \in Clients : cq'[x] = IF x = c THEN Sent(cq[c], feedback) ELSE cq[x]
  BY <1>4 DEF Typed
<1>12. Typed'
  <2>1. cq' \in [Clients -> Queues]
    BY <1>4, <1>8 DEF Typed
  <2>2. feedback' \in Msg /\ server' \in {"receiving", "sending", "closing", "closing_without", "down"}
    BY <1>5, <1>6, NoticesAreMessages DEF Typed
  <2>3. to' \subseteq Slots
    BY <1>4 DEF Typed
  <2> QED
    BY <1>4, <2>1, <2>2, <2>3 DEF Typed
<1>13. QueuesRight'
  <2>1. \A t \in Types : \A m \in ToSet(sq'[t]) : m.type = t /\ m.by \in Clients
    BY <1>4 DEF QueuesRight
  <2>2. ASSUME NEW x \in Clients, NEW t \in Types, NEW m \in ToSet(cq'[x][t]) PROVE m.type = t
    <3>1. \A n \in ToSet(cq[x][t]) : n.type = t
      BY DEF QueuesRight
    <3>2. CASE x = c /\ t = feedback.type
      <4>1. cq'[x][t] = Sent(cq[c], feedback)[feedback.type]
        BY <1>11, <3>2
      <4>2. m \in ToSet(cq[x][t]) \union {feedback}
        BY <1>8, <2>2, <3>2, <4>1
      <4> QED
        BY <3>1, <3>2, <4>2
    <3>3. CASE ~ (x = c /\ t = feedback.type)
      <4>1. cq'[x][t] = cq[x][t]
        BY <1>9, <1>11, <3>3
      <4> QED
        BY <2>2, <3>1, <4>1
    <3> QED
      BY <3>2, <3>3
  <2>3. Length(sq)' = Length(sq)
    BY <1>4 DEF Length
  <2>4. \A x \in Clients : Length(cq'[x]) <= QueueMax
    BY <1>4, <1>10, <1>11 DEF QueuesRight
  <2>5. \A x \in Clients : Length(cq[x])' = Length(cq'[x])
    BY DEF Length
  <2> QED
    BY <2>1, <2>2, <2>3, <2>4, <2>5 DEF QueuesRight
<1>14. ServerRight'
  <2>1. Registered' = Registered
    BY <1>4 DEF Registered
  <2>2. feedback.type = "INIT" /\ server = "sending" => to' = {}
    BY <1>2, <1>4 DEF ServerRight
  <2> QED
    BY <1>4, <1>5, <1>6, <2>1, <2>2 DEF ServerRight
<1>15. OutboxRight' /\ StopsLast' /\ SendersRight' /\ IdsInside'
  <2>1. OutboxRight' /\ StopsLast'
    BY <1>4 DEF OutboxRight, StopsLast
  <2>2. Messages(sq)' = Messages(sq)
    BY <1>4 DEF Messages
  <2>3. \A x \in Clients : Active(x)' <=> Active(x)
    BY <1>4 DEF Active
  <2>4. IdsKnown' <=> IdsKnown
    BY <1>4 DEF IdsKnown
  <2>5. IdsInside'
    BY <1>4 DEF IdsInside, AnswersRight
  <2> QED
    BY <1>4, <2>1, <2>2, <2>3, <2>4, <2>5 DEF SendersRight
<1>16. IdsKnown' => IdsKnown
  BY <1>4 DEF IdsKnown
<1>17. \A x \in Clients : /\ Entering(x)' <=> Entering(x)
                          /\ Staying(x)' <=> Staying(x)
  BY <1>4 DEF Entering, Staying
<1>18. AnswerRight'
  <2> SUFFICES ASSUME IdsKnown', NEW x \in Clients, Entering(x), NEW m \in ToSet(cq'[x]["INIT"])
               PROVE  clients[m.sender_id] = x
    BY <1>4, <1>17 DEF AnswerRight
  <2>1. CASE m \in ToSet(cq[x]["INIT"])
    BY <1>16, <2>1 DEF AnswerRight
  <2>2. CASE m \notin ToSet(cq[x]["INIT"])
    <3>1. x = c /\ feedback.type = "INIT" /\ m = feedback
      BY <1>8, <1>9, <1>11, <2>2, TypesAre
    <3>2. server = "sending" /\ feedback.sender_id = i
      BY <1>2, <1>6, <3>1, NoticesAreMessages DEF ServerRight
    <3> QED
      BY <1>3, <3>1, <3>2
  <2> QED
    BY <2>1, <2>2
<1>19. StopComes'
  <2> SUFFICES ASSUME server' \in {"closing", "closing_without", "down"}, IdsKnown'
               PROVE  \A x \in Clients :
                        /\ Staying(x) => client_id[x] \in to' \/ cq'[x]["STOP"] # <<>>
                        /\ Entering(x) => \A m \in ToSet(cq'[x]["INIT"]) :
                             m.sender_id \in to' \/ cq'[x]["STOP"] # <<>>
    BY <1>4, <1>17 DEF StopComes
  <2>1. /\ server \in {"closing", "closing_without"}
        /\ feedback = Nothing /\ feedback.type = "STOP"
    BY <1>5, <1>6, NoticesAreMessages DEF ServerRight
  <2>2. cq'[c]["STOP"] # <<>>
    <3>1. PICK s \in Seq(Msg) : s = cq[c]["STOP"]
      BY <1>7, TypesAre DEF Queues
    <3>2. Append(s, feedback) # <<>>
      <4>1. Len(Append(s, feedback)) = Len(s) + 1 /\ Len(s) \in Nat
        BY <1>7, <3>1, AppendSet
      <4> QED
        BY <4>1
    <3> QED
      BY <1>8, <1>11, <2>1, <3>1, <3>2
  <2>3. \A x \in Clients : cq[x]["STOP"] # <<>> => cq'[x]["STOP"] # <<>>
    BY <1>11, <2>2
  <2>4. \A x \in Clients : cq'[x]["INIT"] = cq[x]["INIT"]
    BY <1>9, <1>11, <2>1, TypesAre
  <2>5. \A j \in to : j # i => j \in to'
    BY <1>4
  <2>6. ASSUME NEW x \in Clients, Staying(x)
        PROVE  client_id[x] \in to' \/ cq'[x]["STOP"] # <<>>
    <3>1. clients[client_id[x]] = x
      BY <1>16, <2>6 DEF SendersRight, Staying, Active
    <3>2. client_id[x] \in to \/ cq[x]["STOP"] # <<>>
      BY <1>16, <2>1, <2>6 DEF StopComes
    <3> QED
      BY <1>3, <2>2, <2>3, <2>5, <3>1, <3>2
  <2>7. ASSUME NEW x \in Clients, Entering(x), NEW m \in ToSet(cq[x]["INIT"])
        PROVE  m.sender_id \in to' \/ cq'[x]["STOP"] # <<>>
    <3>1. clients[m.sender_id] = x
      BY <1>16, <2>7 DEF AnswerRight
    <3>2. m.sender_id \in to \/ cq[x]["STOP"] # <<>>
      BY <1>16, <2>1, <2>7 DEF StopComes
    <3> QED
      BY <1>3, <2>2, <2>3, <2>5, <3>1, <3>2
  <2> QED
    BY <2>4, <2>6, <2>7
<1> QED
  BY <1>12, <1>13, <1>14, <1>15, <1>18, <1>19

\* When only the server moves, what is said of queues and clients stays.
LEMMA RestStays ==
  ASSUME IInv, UNCHANGED <<sq, clients, cq, client, client_id, outbox, accidents>>
  PROVE  /\ QueuesRight' /\ OutboxRight' /\ StopsLast' /\ SendersRight' /\ AnswerRight'
         /\ IdsInside'
<1> USE DEF IInv
<1>1. QueuesRight'
  BY DEF QueuesRight, Length
<1>2. OutboxRight' /\ StopsLast'
  BY DEF OutboxRight, StopsLast
<1>3. Messages(sq)' = Messages(sq) /\ (IdsKnown' <=> IdsKnown)
  BY DEF Messages, IdsKnown
<1>4. \A x \in Clients : (Active(x)' <=> Active(x)) /\ (Entering(x)' <=> Entering(x))
  BY DEF Active, Entering
<1>5. SendersRight' /\ AnswerRight'
  BY <1>3, <1>4 DEF SendersRight, AnswerRight
<1>6. IdsInside'
  BY DEF IdsInside, AnswersRight
<1> QED
  BY <1>1, <1>2, <1>5, <1>6

\* The server is interrupted.
LEMMA InterruptKeeps ==
  ASSUME IInv, sigint_handler
  PROVE  IInv'
<1> USE DEF IInv
<1>1. Exits /\ UNCHANGED <<sq, clients, cq, client, client_id, outbox, accidents>>
  BY DEF sigint_handler
<1>2. Typed'
  BY <1>1, NoticesAreMessages DEF Typed, Exits, Registered
<1> QED
  BY <1>1, <1>2, RestStays, ExitsReachAll

\* The server is down.
LEMMA UnlinkServerQueueKeeps ==
  ASSUME IInv, UnlinkServerQueue
  PROVE  IInv'
<1> USE DEF IInv
<1>1. /\ server \in {"closing", "closing_without"} /\ to = {} /\ server' = "down"
      /\ UNCHANGED <<feedback, to>>
      /\ UNCHANGED <<sq, clients, cq, client, client_id, outbox, accidents>>
  BY DEF UnlinkServerQueue
<1>2. Typed'
  BY <1>1 DEF Typed
<1>3. ServerRight' /\ StopComes'
  BY <1>1 DEF ServerRight, Registered, StopComes, Staying, Entering, IdsKnown
<1> QED
  BY <1>1, <1>2, <1>3, RestStays

-----------------------------------------------------------------------------
(* The clients. *)

\* A client goes to another place, with m to send and q for its queue.
Becomes(c, at, m, q) ==
  /\ client' = [client EXCEPT ![c] = at]
  /\ outbox' = [outbox EXCEPT ![c] = m]
  /\ cq' = [cq EXCEPT ![c] = q]
  /\ UNCHANGED <<sq, clients, server, feedback, to, client_id>>

\* A client that sends nothing, and whose id stays, keeps the invariant if it becomes
\* neither active nor staying nor entering, and loses no STOP while it stays.
LEMMA ClientMoves ==
  ASSUME IInv, NEW c \in Clients, NEW m \in Msg, NEW q \in Queues,
         NEW at \in {"starting", "initializing", "looping", "listing", "submitting",
                     "exiting", "gone"},
         Becomes(c, at, m, q),
         \A u \in Types : ToSet(q[u]) \subseteq ToSet(cq[c][u]),
         Length(q) <= QueueMax,
         client[c] \in {"exiting", "gone"} => at \in {"exiting", "gone"},
         at = "submitting" => m.by = c /\ (m.type # "INIT" => m.sender_id = client_id[c]),
         IdsKnown' => IdsKnown, AnswersRight' => AnswersRight,
         IdsKnown' /\ Active(c)' => Active(c),
         IdsKnown' /\ Staying(c)' => Staying(c) /\ (cq[c]["STOP"] # <<>> => q["STOP"] # <<>>),
         IdsKnown' /\ Entering(c)' => Entering(c) /\ q = cq[c]
  PROVE  IInv'
<1> USE DEF IInv
<1>1. /\ \A x \in Clients : client'[x] = IF x = c THEN at ELSE client[x]
      /\ \A x \in Clients : outbox'[x] = IF x = c THEN m ELSE outbox[x]
      /\ \A x \in Clients : cq'[x] = IF x = c THEN q ELSE cq[x]
      /\ UNCHANGED <<sq, clients, server, feedback, to, client_id>>
  BY DEF Becomes, Typed
<1>2. Typed'
  <2>1. client' = [client EXCEPT ![c] = at] /\ outbox' = [outbox EXCEPT ![c] = m]
        /\ cq' = [cq EXCEPT ![c] = q]
    BY DEF Becomes
  <2> QED
    BY <1>1, <2>1 DEF Typed
<1>3. QueuesRight'
  <2>1. \A t \in Types : \A n \in ToSet(sq'[t]) : n.type = t /\ n.by \in Clients
    BY <1>1 DEF QueuesRight
  <2>2. \A x \in Clients : \A t \in Types : \A n \in ToSet(cq'[x][t]) : n.type = t
    BY <1>1 DEF QueuesRight
  <2>3. Length(sq)' = Length(sq) /\ \A x \in Clients : Length(cq[x])' = Length(cq'[x])
    BY <1>1 DEF Length
  <2>4. \A x \in Clients : Length(cq'[x]) <= QueueMax
    BY <1>1 DEF QueuesRight
  <2> QED
    BY <2>1, <2>2, <2>3, <2>4 DEF QueuesRight
<1>4. ServerRight'
  BY <1>1 DEF ServerRight, Registered
<1>5. OutboxRight'
  BY <1>1 DEF OutboxRight
<1>6. StopsLast'
  <2>1. \A n \in ToSet(sq["STOP"]) : n.by \in Clients
    BY TypesAre DEF QueuesRight
  <2> QED
    BY <1>1, <2>1 DEF StopsLast
<1>7. \A x \in Clients \ {c} : /\ Active(x)' <=> Active(x)
                               /\ Entering(x)' <=> Entering(x)
                               /\ Staying(x)' <=> Staying(x)
  BY <1>1 DEF Active, Entering, Staying
<1>8. SendersRight'
  <2>1. Messages(sq)' = Messages(sq)
    BY <1>1 DEF Messages
  <2> QED
    BY <1>1, <1>7, <2>1 DEF SendersRight
<1>9. AnswerRight'
  BY <1>1, <1>7 DEF AnswerRight
<1>10. StopComes'
  <2> SUFFICES ASSUME server \in {"closing", "closing_without", "down"}, IdsKnown', NEW x \in Clients
               PROVE  /\ Staying(x)' => client_id[x] \in to \/ cq'[x]["STOP"] # <<>>
                      /\ Entering(x)' => \A n \in ToSet(cq'[x]["INIT"]) :
                           n.sender_id \in to \/ cq'[x]["STOP"] # <<>>
    BY <1>1 DEF StopComes
  <2>1. Staying(x)' => client_id[x] \in to \/ cq'[x]["STOP"] # <<>>
    BY <1>1, <1>7 DEF StopComes
  <2>2. Entering(x)' => \A n \in ToSet(cq'[x]["INIT"]) :
                          n.sender_id \in to \/ cq'[x]["STOP"] # <<>>
    BY <1>1, <1>7 DEF StopComes
  <2> QED
    BY <2>1, <2>2
<1>11. IdsInside'
  BY <1>1 DEF IdsInside
<1> QED
  BY <1>2, <1>3, <1>4, <1>5, <1>6, <1>8, <1>9, <1>10, <1>11

\* The same for a client that reads nothing.
LEMMA ClientMovesOnly ==
  ASSUME IInv, NEW c \in Clients, NEW m \in Msg,
         NEW at \in {"starting", "initializing", "looping", "listing", "submitting",
                     "exiting", "gone"},
         Becomes(c, at, m, cq[c]),
         client[c] \in {"exiting", "gone"} => at \in {"exiting", "gone"},
         at = "submitting" => m.by = c /\ (m.type # "INIT" => m.sender_id = client_id[c]),
         IdsKnown' => IdsKnown, AnswersRight' => AnswersRight,
         IdsKnown' /\ Active(c)' => Active(c),
         IdsKnown' /\ Staying(c)' => Staying(c),
         IdsKnown' /\ Entering(c)' => Entering(c)
  PROVE  IInv'
<1>1. cq[c] \in Queues /\ Length(cq[c]) <= QueueMax
  BY DEF IInv, Typed, QueuesRight
<1> QED
  BY <1>1, ClientMoves

\* A client of which the queue stays as it is.
LEMMA Stands ==
  ASSUME IInv, NEW c \in Clients, NEW at, NEW m,
         client' = [client EXCEPT ![c] = at], outbox' = [outbox EXCEPT ![c] = m],
         UNCHANGED <<sq, clients, server, feedback, to, cq, client_id>>
  PROVE  /\ Becomes(c, at, m, cq[c])
         /\ client'[c] = at /\ outbox'[c] = m
         /\ (\E n \in ToSet(sq'["STOP"]) : n.by = c) <=> (\E n \in ToSet(sq["STOP"]) : n.by = c)
<1>1. cq' = [cq EXCEPT ![c] = cq[c]]
  BY DEF IInv, Typed
<1> QED
  BY <1>1 DEF IInv, Typed, Becomes

\* A client names its queue and has its INIT to send.
LEMMA StartKeeps ==
  ASSUME IInv, NEW c \in Clients, Start(c)
  PROVE  IInv'
<1>1. PICK m : m = Message("INIT", 0, 0, c)
  OBVIOUS
<1>2. m \in Msg /\ m.type = "INIT" /\ m.by = c
  BY <1>1, TypesAre, NoticesAreMessages DEF Message
<1>3. /\ client[c] = "starting"
      /\ client' = [client EXCEPT ![c] = "submitting"] /\ outbox' = [outbox EXCEPT ![c] = m]
      /\ UNCHANGED <<sq, clients, server, feedback, to, cq, client_id, accidents>>
  BY <1>1 DEF Start, Submits, ClientGoes, serverVars
<1>4. /\ Becomes(c, "submitting", m, cq[c])
      /\ client'[c] = "submitting" /\ outbox'[c] = m
      /\ (\E n \in ToSet(sq'["STOP"]) : n.by = c) <=> (\E n \in ToSet(sq["STOP"]) : n.by = c)
  BY <1>3, Stands
<1>5. Active(c)' => Active(c)
  BY <1>2, <1>4 DEF Active
<1>6. ~Staying(c)' /\ Entering(c)
  BY <1>2, <1>3, <1>4 DEF Staying, Entering
<1>7. (IdsKnown' => IdsKnown) /\ (AnswersRight' => AnswersRight)
  BY <1>3 DEF IdsKnown, AnswersRight
<1> QED
  BY <1>2, <1>3, <1>4, <1>5, <1>6, <1>7, ClientMovesOnly

\* A client unlinks its queue: nobody else notices.
LEMMA UnlinkQueueKeeps ==
  ASSUME IInv, NEW c \in Clients, UnlinkQueue(c)
  PROVE  IInv'
<1>1. PICK m : m = outbox[c]
  OBVIOUS
<1>2. m \in Msg /\ outbox' = [outbox EXCEPT ![c] = m]
  BY <1>1 DEF IInv, Typed, UnlinkQueue
<1>3. /\ client[c] = "exiting"
      /\ client' = [client EXCEPT ![c] = "gone"]
      /\ UNCHANGED <<sq, clients, server, feedback, to, cq, client_id, accidents>>
  BY DEF UnlinkQueue, ClientGoes, serverVars
<1>4. /\ Becomes(c, "gone", m, cq[c])
      /\ client'[c] = "gone" /\ outbox'[c] = m
      /\ (\E n \in ToSet(sq'["STOP"]) : n.by = c) <=> (\E n \in ToSet(sq["STOP"]) : n.by = c)
  BY <1>2, <1>3, Stands
<1>5. (Active(c)' => Active(c)) /\ ~Staying(c)' /\ ~Entering(c)'
  BY <1>4 DEF Active, Staying, Entering
<1>6. (IdsKnown' => IdsKnown) /\ (AnswersRight' => AnswersRight)
  BY <1>3 DEF IdsKnown, AnswersRight
<1> QED
  BY <1>2, <1>4, <1>5, <1>6, ClientMovesOnly

\* A user enters a line: what it asks for goes out under the client's id.
LEMMA CommandKeeps ==
  ASSUME IInv, NEW c \in Clients, Command(c)
  PROVE  IInv'
<1>1. client_id[c] \in Ids
  BY DEF IInv, Typed
<1>2. /\ client[c] = "looping"
      /\ UNCHANGED <<sq, clients, server, feedback, to, cq, client_id, accidents>>
  BY DEF Command, Idle, serverVars
<1>3. PICK m : /\ Submits(c, m) /\ m \in Msg /\ m.type \in {"LIST", "TOALL", "TOONE"}
               /\ m.by = c /\ m.sender_id = client_id[c]
  <2>1. \A type \in {"LIST", "TOALL", "TOONE"}, i \in Slots :
          LET m == Message(type, client_id[c], i, c) IN
            /\ m \in Msg /\ m.type \in {"LIST", "TOALL", "TOONE"}
            /\ m.by = c /\ m.sender_id = client_id[c]
    BY <1>1, TypesAre, NoticesAreMessages DEF Message
  <2>2. PICK type \in {"LIST", "TOALL", "TOONE"}, i \in Slots :
          Submits(c, Message(type, client_id[c], i, c))
    BY NoticesAreMessages DEF Command
  <2> QED
    BY <2>1, <2>2
<1>4. client' = [client EXCEPT ![c] = "submitting"] /\ outbox' = [outbox EXCEPT ![c] = m]
  BY <1>3 DEF Submits, ClientGoes
<1>5. /\ Becomes(c, "submitting", m, cq[c])
      /\ client'[c] = "submitting" /\ outbox'[c] = m
  BY <1>2, <1>4, Stands
<1>6. Active(c) /\ Staying(c) /\ ~Entering(c)'
  BY <1>2, <1>3, <1>5 DEF Active, Staying, Entering
<1>7. (IdsKnown' => IdsKnown) /\ (AnswersRight' => AnswersRight)
  BY <1>2 DEF IdsKnown, AnswersRight
<1> QED
  BY <1>2, <1>3, <1>5, <1>6, <1>7, ClientMovesOnly

\* A client is going to leave: the server is told under the id it has.
LEMMA StopKeeps ==
  ASSUME IInv, NEW c \in Clients, Stop(c)
  PROVE  IInv'
<1>1. client_id[c] \in Ids
  BY DEF IInv, Typed
<1>2. PICK m : m = Message("STOP", client_id[c], 0, c)
  OBVIOUS
<1>3. m \in Msg /\ m.type = "STOP" /\ m.by = c /\ m.sender_id = client_id[c]
  BY <1>1, <1>2, TypesAre, NoticesAreMessages DEF Message
<1>4. /\ Staying(c)
      /\ client' = [client EXCEPT ![c] = "submitting"] /\ outbox' = [outbox EXCEPT ![c] = m]
      /\ UNCHANGED <<sq, clients, server, feedback, to, cq, client_id, accidents>>
  BY <1>2 DEF Stop, Staying, send_stop, Submits, ClientGoes, serverVars
<1>5. /\ Becomes(c, "submitting", m, cq[c])
      /\ client'[c] = "submitting" /\ outbox'[c] = m
  BY <1>4, Stands
<1>6. Active(c) /\ ~Staying(c)' /\ ~Entering(c)' /\ client[c] \notin {"exiting", "gone"}
  BY <1>3, <1>4, <1>5 DEF Active, Staying, Entering
<1>7. (IdsKnown' => IdsKnown) /\ (AnswersRight' => AnswersRight)
  BY <1>4 DEF IdsKnown, AnswersRight
<1> QED
  BY <1>3, <1>4, <1>5, <1>6, <1>7, ClientMovesOnly

\* A client is interrupted that has no id yet.
LEMMA SigintEarlyKeeps ==
  ASSUME IInv, NEW c \in Clients, SigintEarly(c)
  PROVE  IInv'
<1>1. client_id[c] \in Ids
  BY DEF IInv, Typed
<1>2. PICK m : m = Message("STOP", client_id[c], 0, c)
  OBVIOUS
<1>3. m \in Msg /\ m.type = "STOP" /\ m.by = c /\ m.sender_id = client_id[c]
  BY <1>1, <1>2, TypesAre, NoticesAreMessages DEF Message
<1>4. /\ client[c] \in {"initializing", "submitting"}
      /\ client' = [client EXCEPT ![c] = "submitting"] /\ outbox' = [outbox EXCEPT ![c] = m]
      /\ UNCHANGED <<sq, clients, server, feedback, to, cq, client_id>>
      /\ "sigint_initialize" \in accidents' /\ accidents \subseteq accidents'
  BY <1>2 DEF SigintEarly, send_stop, Submits, ClientGoes, serverVars, Happens
<1>5. /\ Becomes(c, "submitting", m, cq[c])
      /\ client'[c] = "submitting" /\ outbox'[c] = m
  BY <1>4, Stands
<1>6. ~IdsKnown' /\ (AnswersRight' => AnswersRight)
  BY <1>4 DEF IdsKnown, AnswersRight
<1> QED
  BY <1>3, <1>4, <1>5, <1>6, ClientMovesOnly

\* A client finds the end of its input: it leaves its slot behind.
LEMMA EndOfInputKeeps ==
  ASSUME IInv, NEW c \in Clients, EndOfInput(c)
  PROVE  IInv'
<1>1. PICK m : m = outbox[c]
  OBVIOUS
<1>2. m \in Msg /\ outbox' = [outbox EXCEPT ![c] = m]
  BY <1>1 DEF IInv, Typed, EndOfInput
<1>3. /\ client[c] = "looping"
      /\ client' = [client EXCEPT ![c] = "exiting"]
      /\ UNCHANGED <<sq, clients, server, feedback, to, cq, client_id>>
      /\ accidents \subseteq accidents'
  BY DEF EndOfInput, Idle, ClientGoes, serverVars, Happens
<1>4. /\ Becomes(c, "exiting", m, cq[c])
      /\ client'[c] = "exiting" /\ outbox'[c] = m
  BY <1>2, <1>3, Stands
<1>5. Active(c) /\ ~Staying(c)' /\ ~Entering(c)'
  BY <1>3, <1>4 DEF Active, Staying, Entering
<1>6. (IdsKnown' => IdsKnown) /\ (AnswersRight' => AnswersRight)
  BY <1>3 DEF IdsKnown, AnswersRight
<1> QED
  BY <1>2, <1>4, <1>5, <1>6, ClientMovesOnly

\* What mq_receive leaves in a client's queue.
LEMMA Taking ==
  ASSUME IInv, NEW c \in Clients, NEW m \in Messages(cq[c]), Takes(c, m)
  PROVE  \E q \in Queues :
           /\ m \in Msg /\ m.type \in Types /\ m \in ToSet(cq[c][m.type])
           /\ cq' = [cq EXCEPT ![c] = q]
           /\ Length(q) <= QueueMax
           /\ \A u \in Types : ToSet(q[u]) \subseteq ToSet(cq[c][u])
           /\ \A u \in Types \ {m.type} : q[u] = cq[c][u]
           /\ \A u \in Types : Priority[u] > Priority[m.type] => cq[c][u] = <<>>
<1> USE DEF IInv
<1>1. PICK p : p = cq[c]
  OBVIOUS
<1>2. p \in Queues /\ Length(p) <= QueueMax
  BY <1>1 DEF Typed, QueuesRight
<1>3. PICK t \in Types : m \in ToSet(p[t])
  BY <1>1, InMessages
<1>4. t = m.type
  BY <1>1, <1>3 DEF QueuesRight
<1>5. p[t] # <<>> /\ \A u \in Types : Priority[u] > Priority[m.type] => cq[c][u] = <<>>
  BY <1>1, <1>4 DEF Takes, Foremost
<1>6. /\ Taken(p, t) \in Queues
      /\ \A u \in Types \ {t} : Taken(p, t)[u] = p[u]
  BY <1>2, <1>5, TakenEffect
<1>7. \A u \in Types : ToSet(Taken(p, t)[u]) \subseteq ToSet(p[u])
  BY <1>2, <1>5, TakenEffect
<1>8. Length(p) \in Nat /\ Length(Taken(p, t)) = Length(p) - 1
  BY <1>2, <1>5, TakenEffect
<1>9. m \in Msg
  BY <1>2, <1>3, MembersTyped
<1>10. cq' = [cq EXCEPT ![c] = Taken(p, t)]
  BY <1>1, <1>4 DEF Takes, Taken, Typed
<1>11. Length(Taken(p, t)) <= QueueMax
  BY <1>2, <1>8
<1> QED
  BY <1>1, <1>3, <1>4, <1>5, <1>6, <1>7, <1>9, <1>10, <1>11, ZenonT(60)

\* A client that asked for the list takes a message for it.
LEMMA ListedKeeps ==
  ASSUME IInv, NEW c \in Clients, Listed(c)
  PROVE  IInv'
<1>1. PICK m \in Messages(cq[c]) :
        /\ Takes(c, m)
        /\ \/ m.type = "LIST" /\ UNCHANGED accidents
           \/ m.type # "LIST" /\ Misreads
  BY DEF Listed
<1>2. PICK q \in Queues :
        /\ m \in Msg /\ m.type \in Types /\ m \in ToSet(cq[c][m.type])
        /\ cq' = [cq EXCEPT ![c] = q]
        /\ Length(q) <= QueueMax
        /\ \A u \in Types : ToSet(q[u]) \subseteq ToSet(cq[c][u])
        /\ \A u \in Types \ {m.type} : q[u] = cq[c][u]
        /\ \A u \in Types : Priority[u] > Priority[m.type] => cq[c][u] = <<>>
  BY <1>1, Taking
<1>3. /\ client[c] = "listing" /\ client' = [client EXCEPT ![c] = "looping"]
      /\ UNCHANGED <<sq, clients, server, feedback, to, client_id, outbox>>
  BY DEF Listed, ClientGoes, serverVars
<1>4. PICK n : n = outbox[c]
  OBVIOUS
<1>5. n \in Msg /\ outbox' = [outbox EXCEPT ![c] = n]
  BY <1>3, <1>4 DEF IInv, Typed
<1>6. Becomes(c, "looping", n, q)
  BY <1>2, <1>3, <1>5 DEF Becomes
<1>7. client'[c] = "looping"
  BY <1>3 DEF IInv, Typed
<1>8. Active(c) /\ Staying(c) /\ ~Entering(c)'
  BY <1>3, <1>7 DEF Active, Staying, Entering
<1>9. /\ IdsKnown' => IdsKnown /\ m.type = "LIST"
      /\ AnswersRight' => AnswersRight
  BY <1>1 DEF IdsKnown, Misreads, AnswersRight
<1>10. IdsKnown' => q["STOP"] = cq[c]["STOP"]
  BY <1>2, <1>9, TypesAre
<1>11. Length(q) <= QueueMax /\ \A u \in Types : ToSet(q[u]) \subseteq ToSet(cq[c][u])
  BY <1>2
<1>12. client[c] \notin {"exiting", "gone"}
  BY <1>3
<1> QED
  BY <1>5, <1>6, <1>8, <1>9, <1>10, <1>11, <1>12, ClientMoves

\* A client finds a message in its loop; after a STOP it is going to leave.
LEMMA ReadKeeps ==
  ASSUME IInv, NEW c \in Clients, Read(c)
  PROVE  IInv'
<1>1. PICK m \in Messages(cq[c]) :
        /\ Takes(c, m)
        /\ \/ m.type = "STOP" /\ send_stop(c)
           \/ m.type # "STOP" /\ UNCHANGED <<client, outbox>>
  BY DEF Read
<1>2. PICK q \in Queues :
        /\ m \in Msg /\ m.type \in Types /\ m \in ToSet(cq[c][m.type])
        /\ cq' = [cq EXCEPT ![c] = q]
        /\ Length(q) <= QueueMax
        /\ \A u \in Types : ToSet(q[u]) \subseteq ToSet(cq[c][u])
        /\ \A u \in Types \ {m.type} : q[u] = cq[c][u]
        /\ \A u \in Types : Priority[u] > Priority[m.type] => cq[c][u] = <<>>
  BY <1>1, Taking
<1>3. /\ client[c] = "looping"
      /\ UNCHANGED <<sq, clients, server, feedback, to, client_id, accidents>>
  BY DEF Read, serverVars
<1>4. /\ Active(c) /\ Staying(c) /\ (IdsKnown' => IdsKnown) /\ client[c] \notin {"exiting", "gone"}
      /\ (AnswersRight' => AnswersRight)
  BY <1>3 DEF Active, Staying, IdsKnown, AnswersRight
<1>5. Length(q) <= QueueMax /\ \A u \in Types : ToSet(q[u]) \subseteq ToSet(cq[c][u])
  BY <1>2
<1>6. CASE m.type = "STOP" /\ send_stop(c)
  <2>1. PICK n : n = Message("STOP", client_id[c], 0, c)
    OBVIOUS
  <2>2. client_id[c] \in Ids
    BY DEF IInv, Typed
  <2>3. n \in Msg /\ n.type = "STOP" /\ n.by = c /\ n.sender_id = client_id[c]
    BY <2>1, <2>2, TypesAre, NoticesAreMessages DEF Message
  <2>4. client' = [client EXCEPT ![c] = "submitting"] /\ outbox' = [outbox EXCEPT ![c] = n]
    BY <1>6, <2>1 DEF send_stop, Submits, ClientGoes
  <2>5. Becomes(c, "submitting", n, q)
    BY <1>2, <1>3, <2>4 DEF Becomes
  <2>6. client'[c] = "submitting" /\ outbox'[c] = n
    BY <2>4 DEF IInv, Typed
  <2>7. ~Staying(c)' /\ ~Entering(c)'
    BY <2>3, <2>6 DEF Staying, Entering
  <2> QED
    BY <1>4, <1>5, <2>3, <2>5, <2>7, ClientMoves
<1>7. CASE m.type # "STOP" /\ UNCHANGED <<client, outbox>>
  <2>1. PICK n : n = outbox[c]
    OBVIOUS
  <2>2. /\ n \in Msg /\ outbox' = [outbox EXCEPT ![c] = n]
        /\ client' = [client EXCEPT ![c] = "looping"]
    BY <1>3, <1>7, <2>1 DEF IInv, Typed
  <2>3. Becomes(c, "looping", n, q)
    BY <1>2, <1>3, <2>2 DEF Becomes
  <2>4. client'[c] = "looping"
    BY <1>3, <1>7
  <2>5. ~Entering(c)' /\ q["STOP"] = cq[c]["STOP"]
    BY <1>2, <1>7, <2>4, TypesAre DEF Entering
  <2>6. n \in Msg
    BY <2>2
  <2> QED
    BY <1>4, <1>5, <2>6, <2>3, <2>5, ClientMoves
<1> QED
  BY <1>1, <1>6, <1>7

\* A client takes the first message for the answer to its INIT.  No STOP being there,
\* the server is still going to send one, if it ends.
LEMMA InitializedKeeps ==
  ASSUME IInv, NEW c \in Clients, Initialized(c)
  PROVE  IInv'
<1> USE DEF IInv
<1>1. PICK m \in Messages(cq[c]) :
        /\ Takes(c, m)
        /\ \E id \in Ids :
             /\ m.type # "STOP" => id = m.sender_id
             /\ client_id' = [client_id EXCEPT ![c] = id]
        /\ \/ m.type = "INIT" /\ UNCHANGED accidents
           \/ m.type # "INIT" /\ Misreads
  BY DEF Initialized
<1>2. PICK id \in Ids : /\ m.type # "STOP" => id = m.sender_id
                        /\ client_id' = [client_id EXCEPT ![c] = id]
  BY <1>1
<1>3. PICK q \in Queues :
        /\ m \in Msg /\ m.type \in Types /\ m \in ToSet(cq[c][m.type])
        /\ cq' = [cq EXCEPT ![c] = q]
        /\ Length(q) <= QueueMax
        /\ \A u \in Types : ToSet(q[u]) \subseteq ToSet(cq[c][u])
        /\ \A u \in Types \ {m.type} : q[u] = cq[c][u]
        /\ \A u \in Types : Priority[u] > Priority[m.type] => cq[c][u] = <<>>
  BY <1>1, Taking
<1>4. /\ client[c] = "initializing" /\ client' = [client EXCEPT ![c] = "looping"]
      /\ UNCHANGED <<sq, clients, server, feedback, to, outbox>>
  BY DEF Initialized, ClientGoes, serverVars
<1>5. /\ \A x \in Clients : client'[x] = IF x = c THEN "looping" ELSE client[x]
      /\ \A x \in Clients : client_id'[x] = IF x = c THEN id ELSE client_id[x]
      /\ \A x \in Clients : cq'[x] = IF x = c THEN q ELSE cq[x]
  <2>1. client' = [client EXCEPT ![c] = "looping"]
    BY <1>4
  <2>2. client_id' = [client_id EXCEPT ![c] = id]
    BY <1>2
  <2>3. cq' = [cq EXCEPT ![c] = q]
    BY <1>3
  <2> QED
    BY <2>1, <2>2, <2>3 DEF Typed
<1>6. Entering(c)
  BY <1>4 DEF Entering
<1>7. IdsKnown' => IdsKnown /\ m.type = "INIT"
  BY <1>1 DEF IdsKnown, Misreads
<1>8. IdsKnown' => m \in ToSet(cq[c]["INIT"]) /\ clients[id] = c /\ id = m.sender_id
  BY <1>2, <1>3, <1>6, <1>7 DEF AnswerRight
<1>9. Typed'
  <2>1. client' = [client EXCEPT ![c] = "looping"]
    BY <1>4
  <2>2. client_id' = [client_id EXCEPT ![c] = id]
    BY <1>2
  <2>3. cq' = [cq EXCEPT ![c] = q]
    BY <1>3
  <2> QED
    BY <1>4, <2>1, <2>2, <2>3 DEF Typed
<1>10. QueuesRight'
  <2>1. \A t \in Types : \A n \in ToSet(sq'[t]) : n.type = t /\ n.by \in Clients
    BY <1>4 DEF QueuesRight
  <2>2. \A u \in Types : ToSet(q[u]) \subseteq ToSet(cq[c][u])
    BY <1>3
  <2>3. \A x \in Clients : \A t \in Types : \A n \in ToSet(cq'[x][t]) : n.type = t
    BY <1>5, <2>2 DEF QueuesRight
  <2>4. Length(sq)' = Length(sq) /\ \A x \in Clients : Length(cq[x])' = Length(cq'[x])
    BY <1>4 DEF Length
  <2>5. Length(q) <= QueueMax
    BY <1>3
  <2>6. \A x \in Clients : Length(cq'[x]) <= QueueMax
    BY <1>5, <2>5 DEF QueuesRight
  <2> QED
    BY <2>1, <2>3, <2>4, <2>6 DEF QueuesRight
<1>11. ServerRight'
  BY <1>4 DEF ServerRight, Registered
<1>12. OutboxRight'
  BY <1>4, <1>5 DEF OutboxRight
<1>13. StopsLast'
  <2>1. \A n \in ToSet(sq["STOP"]) : n.by \in Clients
    BY TypesAre DEF QueuesRight
  <2> QED
    BY <1>4, <1>5, <2>1 DEF StopsLast
<1>14. \A x \in Clients \ {c} : /\ Active(x)' <=> Active(x)
                                /\ Entering(x)' <=> Entering(x)
                                /\ Staying(x)' <=> Staying(x)
  BY <1>4, <1>5 DEF Active, Entering, Staying
<1>15. SendersRight'
  <2>1. Messages(sq)' = Messages(sq)
    BY <1>4 DEF Messages
  <2>2. ASSUME IdsKnown', NEW x \in Clients, Active(x)' PROVE clients'[client_id'[x]] = x
    BY <1>4, <1>5, <1>7, <1>8, <1>14, <2>2 DEF SendersRight
  <2>3. IdsKnown' => \A n \in Messages(sq) : n.type # "INIT" =>
          clients[n.sender_id] \in {n.by, NoQueue}
    BY <1>7 DEF SendersRight
  <2> QED
    BY <1>4, <2>1, <2>2, <2>3 DEF SendersRight
<1>16. ~Entering(c)'
  BY <1>5 DEF Entering
<1>17. AnswerRight'
  BY <1>4, <1>5, <1>7, <1>14, <1>16 DEF AnswerRight
<1>18. StopComes'
  <2> SUFFICES ASSUME server \in {"closing", "closing_without", "down"}, IdsKnown', NEW x \in Clients
               PROVE  /\ Staying(x)' => client_id'[x] \in to \/ cq'[x]["STOP"] # <<>>
                      /\ Entering(x)' => \A n \in ToSet(cq'[x]["INIT"]) :
                           n.sender_id \in to \/ cq'[x]["STOP"] # <<>>
    BY <1>4 DEF StopComes
  <2>1. CASE x # c
    <3>1. Staying(x)' => client_id'[x] \in to \/ cq'[x]["STOP"] # <<>>
      BY <1>5, <1>7, <1>14, <2>1 DEF StopComes
    <3>2. Entering(x)' => \A n \in ToSet(cq'[x]["INIT"]) :
                            n.sender_id \in to \/ cq'[x]["STOP"] # <<>>
      BY <1>5, <1>7, <1>14, <2>1 DEF StopComes
    <3> QED
      BY <3>1, <3>2
  <2>2. CASE x = c
    <3>1. cq[c]["STOP"] = <<>>
      BY <1>3, <1>7, TypesAre
    <3>2. m.sender_id \in to
      BY <1>6, <1>7, <1>8, <3>1 DEF StopComes
    <3> QED
      BY <1>5, <1>8, <1>16, <2>2, <3>2
  <2> QED
    BY <2>1, <2>2
<1>19. IdsInside'
  <2>1. AnswersRight' => AnswersRight /\ m.type = "INIT"
    BY <1>1 DEF AnswersRight, Misreads
  <2>2. m.type = "INIT" => id \in Slots
    BY <1>2, <1>3 DEF Msg
  <2> QED
    BY <1>4, <1>5, <2>1, <2>2 DEF IdsInside
<1> QED
  BY <1>9, <1>10, <1>11, <1>12, <1>13, <1>15, <1>17, <1>18, <1>19

\* A client's message gets into the server's queue.
LEMMA MqSendKeeps ==
  ASSUME IInv, NEW c \in Clients, MqSend(c)
  PROVE  IInv'
<1> USE DEF IInv
<1>1. PICK m : m = outbox[c]
  OBVIOUS
<1>2. m \in Msg /\ m.type \in Types /\ m.by = c /\ client[c] = "submitting"
      /\ (m.type # "INIT" => m.sender_id = client_id[c])
  BY <1>1 DEF Typed, OutboxRight, MqSend, Msg
<1>3. PICK at : at = CASE m.type = "INIT" -> "initializing"
                       [] m.type = "LIST" -> "listing"
                       [] m.type = "STOP" -> "exiting"
                       [] OTHER -> "looping"
  OBVIOUS
<1>4. /\ m.type = "INIT" => at = "initializing"
      /\ m.type = "LIST" => at = "listing"
      /\ m.type = "STOP" => at = "exiting"
      /\ m.type \in {"TOALL", "TOONE"} => at = "looping"
  BY <1>3
<1>5. at \in {"initializing", "listing", "exiting", "looping"}
  BY <1>2, <1>4, TypesAre
<1>6. /\ Length(sq) < QueueMax
      /\ sq' = Sent(sq, m)
      /\ outbox' = [outbox EXCEPT ![c] = Nothing]
      /\ client' = [client EXCEPT ![c] = at]
      /\ UNCHANGED <<clients, server, feedback, to, cq, client_id, accidents>>
  BY <1>1, <1>3 DEF MqSend, ClientGoes, serverVars
<1>7. /\ \A x \in Clients : client'[x] = IF x = c THEN at ELSE client[x]
      /\ \A x \in Clients : outbox'[x] = IF x = c THEN Nothing ELSE outbox[x]
  BY <1>6 DEF Typed
<1>8. sq \in Queues
  BY DEF Typed
<1>9. /\ sq' \in Queues
      /\ ToSet(sq'[m.type]) = ToSet(sq[m.type]) \union {m}
      /\ sq'[m.type] = Append(sq[m.type], m)
  BY <1>2, <1>6, <1>8, SentEffect
<1>10. \A u \in Types \ {m.type} : sq'[u] = sq[u]
  BY <1>2, <1>6, <1>8, SentEffect
<1>11. Length(sq) \in Nat /\ Length(sq)' = Length(sq) + 1
  <2>1. Length(sq)' = Length(sq')
    BY DEF Length
  <2> QED
    BY <1>2, <1>6, <1>8, <2>1, SentEffect
<1>12. \A u \in Types : \A n \in ToSet(sq'[u]) : n \in ToSet(sq[u]) \/ (n = m /\ u = m.type)
  <2> SUFFICES ASSUME NEW u \in Types, NEW n \in ToSet(sq'[u])
               PROVE  n \in ToSet(sq[u]) \/ (n = m /\ u = m.type)
    OBVIOUS
  <2>1. CASE u = m.type
    BY <1>9, <2>1
  <2>2. CASE u # m.type
    BY <1>10, <2>2
  <2> QED
    BY <2>1, <2>2
<1>13. \A n \in ToSet(sq["STOP"]) : n.by \in Clients \ {c}
  BY <1>2, TypesAre DEF QueuesRight, StopsLast
<1>14. Typed'
  <2>1. outbox' \in [Clients -> Msg]
    BY <1>6, NoticesAreMessages DEF Typed
  <2>2. client' \in [Clients -> {"starting", "initializing", "looping", "listing",
                                 "submitting", "exiting", "gone"}]
    BY <1>5, <1>6 DEF Typed
  <2> QED
    BY <1>6, <1>9, <2>1, <2>2 DEF Typed
<1>15. QueuesRight'
  <2>1. \A t \in Types : \A n \in ToSet(sq'[t]) : n.type = t /\ n.by \in Clients
    BY <1>2, <1>12 DEF QueuesRight
  <2>2. \A x \in Clients : \A t \in Types : \A n \in ToSet(cq'[x][t]) : n.type = t
    BY <1>6 DEF QueuesRight
  <2>3. Length(sq)' <= QueueMax
    BY <1>6, <1>11
  <2>4. \A x \in Clients : Length(cq[x])' = Length(cq[x])
    BY <1>6 DEF Length
  <2> QED
    BY <2>1, <2>2, <2>3, <2>4 DEF QueuesRight
<1>16. ServerRight'
  BY <1>6 DEF ServerRight, Registered
<1>17. OutboxRight'
  BY <1>5, <1>6, <1>7 DEF OutboxRight
<1>18. StopsLast'
  <2>1. CASE m.type # "STOP"
    <3>1. sq'["STOP"] = sq["STOP"]
      BY <1>10, <2>1, TypesAre
    <3> QED
      BY <1>7, <1>13, <3>1 DEF StopsLast
  <2>2. CASE m.type = "STOP"
    <3>1. \A n \in ToSet(sq'["STOP"]) : client'[n.by] \in {"exiting", "gone"}
      BY <1>2, <1>4, <1>7, <1>9, <1>13, <2>2 DEF StopsLast
    <3>2. PICK s : s = sq["STOP"]
      OBVIOUS
    <3>3. s \in Seq(Msg)
      BY <1>8, <3>2, TypesAre DEF Queues
    <3>4. \A i, j \in DOMAIN s : s[i].by = s[j].by => i = j
      BY <3>2 DEF StopsLast
    <3>5. \A i \in DOMAIN s : s[i].by # c
      BY <1>13, <3>2 DEF ToSet
    <3>6. PICK r : r = Append(s, m)
      OBVIOUS
    <3>7. /\ DOMAIN r = DOMAIN s \union {Len(s) + 1}
          /\ \A i \in DOMAIN s : r[i] = s[i] /\ i # Len(s) + 1
          /\ r[Len(s) + 1] = m
      BY <1>2, <3>3, <3>6
    <3>8. PICK k : k = Len(s) + 1
      OBVIOUS
    <3>9. \A i, j \in DOMAIN r : r[i].by = r[j].by => i = j
      <4>1. /\ DOMAIN r = DOMAIN s \union {k}
            /\ \A i \in DOMAIN s : r[i] = s[i] /\ i # k
            /\ r[k] = m
        BY <3>7, <3>8
      <4> QED
        BY <1>2, <3>4, <3>5, <4>1
    <3>10. sq'["STOP"] = r
      BY <1>9, <2>2, <3>2, <3>6
    <3>11. \A i, j \in DOMAIN sq'["STOP"] : sq'["STOP"][i].by = sq'["STOP"][j].by => i = j
      BY <3>9, <3>10
    <3> QED
      BY <3>1, <3>11 DEF StopsLast
  <2> QED
    BY <2>1, <2>2
<1>19. IdsKnown' <=> IdsKnown
  BY <1>6 DEF IdsKnown
<1>20. \A x \in Clients : (Entering(x)' => Entering(x)) /\ (Staying(x)' => Staying(x))
  BY <1>1, <1>2, <1>4, <1>5, <1>7, TypesAre DEF Entering, Staying
<1>21. Active(c) <=> m.type # "INIT"
  BY <1>1, <1>2, <1>13 DEF Active
<1>22. \A x \in Clients : Active(x)' => Active(x)
  <2>1. ASSUME NEW x \in Clients, x # c, Active(x)' PROVE Active(x)
    <3>1. \A n \in ToSet(sq'["STOP"]) : n.by = x => n \in ToSet(sq["STOP"])
      BY <1>2, <1>12, <2>1, TypesAre
    <3> QED
      BY <1>7, <2>1, <3>1 DEF Active
  <2>2. ASSUME Active(c)' PROVE m.type # "INIT"
    <3>1. CASE m.type = "INIT"
      <4>1. client'[c] = "initializing" /\ ToSet(sq'["STOP"]) = ToSet(sq["STOP"])
        BY <1>4, <1>7, <1>10, <3>1, TypesAre
      <4> QED
        BY <1>13, <2>2, <4>1 DEF Active
    <3> QED
      BY <3>1
  <2> QED
    BY <1>21, <2>1, <2>2
<1>23. SendersRight'
  <2>1. ASSUME IdsKnown, NEW x \in Clients, Active(x)' PROVE clients'[client_id'[x]] = x
    BY <1>6, <1>22, <2>1 DEF SendersRight
  <2>2. ASSUME IdsKnown, NEW n \in Messages(sq'), n.type # "INIT"
        PROVE  clients'[n.sender_id] \in {n.by, NoQueue}
    <3>1. n \in Messages(sq) \/ n = m
      BY <1>12, <2>2, InMessages
    <3>2. CASE n \in Messages(sq)
      BY <1>6, <2>2, <3>2 DEF SendersRight
    <3>3. CASE n = m
      BY <1>2, <1>6, <1>21, <2>2, <3>3 DEF SendersRight
    <3> QED
      BY <3>1, <3>2, <3>3
  <2>3. Messages(sq)' = Messages(sq')
    BY DEF Messages, ToSet
  <2> QED
    BY <1>19, <2>1, <2>2, <2>3 DEF SendersRight
<1>24. AnswerRight'
  BY <1>6, <1>19, <1>20 DEF AnswerRight
<1>25. StopComes'
  <2> SUFFICES ASSUME server \in {"closing", "closing_without", "down"}, IdsKnown, NEW x \in Clients
               PROVE  /\ Staying(x)' => client_id[x] \in to \/ cq[x]["STOP"] # <<>>
                      /\ Entering(x)' => \A n \in ToSet(cq[x]["INIT"]) :
                           n.sender_id \in to \/ cq[x]["STOP"] # <<>>
    BY <1>6, <1>19 DEF StopComes
  <2> QED
    BY <1>20 DEF StopComes
<1>26. IdsInside'
  <2>1. ASSUME AnswersRight PROVE m.sender_id \in Slots
    BY <1>2, <2>1 DEF IdsInside, Msg
  <2>2. AnswersRight' <=> AnswersRight
    BY <1>6 DEF AnswersRight
  <2> QED
    BY <1>6, <1>12, <2>1, <2>2 DEF IdsInside
<1> QED
  BY <1>14, <1>15, <1>16, <1>17, <1>18, <1>23, <1>24, <1>25, <1>26

-----------------------------------------------------------------------------
(* The theorems. *)

\* It holds when the server has started and no client has ...
LEMMA InitIInv == Init => IInv
<1> SUFFICES ASSUME Init PROVE IInv
  OBVIOUS
<1>1. Empty \in Queues /\ \A t \in Types : Empty[t] = <<>> /\ ToSet(Empty[t]) = {}
  BY DEF Empty, Queues, ToSet
<1>2. Length(Empty) = 0
  <2>1. /\ Len(Empty["STOP"]) = 0 /\ Len(Empty["LIST"]) = 0 /\ Len(Empty["TOALL"]) = 0
        /\ Len(Empty["TOONE"]) = 0 /\ Len(Empty["INIT"]) = 0
    BY <1>1, TypesAre
  <2> QED
    BY <2>1 DEF Length
<1>3. sq = Empty /\ (\A c \in Clients : cq[c] = Empty)
  BY DEF Init
<1>4. Messages(sq) = {}
  BY <1>1, <1>3, InMessages
<1>5. Typed
  <2>1. sq \in Queues /\ cq \in [Clients -> Queues]
    BY <1>1 DEF Init
  <2>2. /\ clients \in [Slots -> Clients \union {NoQueue}]
        /\ client \in [Clients -> {"starting", "initializing", "looping", "listing",
                                   "submitting", "exiting", "gone"}]
        /\ client_id \in [Clients -> Ids]
        /\ outbox \in [Clients -> Msg]
    BY NoticesAreMessages DEF Init
  <2>3. server = "receiving" /\ feedback \in Msg /\ to = {}
    BY NoticesAreMessages DEF Init
  <2> QED
    BY <2>1, <2>2, <2>3 DEF Typed
<1>6. QueuesRight
  <2>1. QueueMax \in Nat /\ 0 <= QueueMax
    OBVIOUS
  <2>2. Length(sq) <= QueueMax /\ \A c \in Clients : Length(cq[c]) <= QueueMax
    BY <1>2, <1>3, <2>1
  <2>3. \A t \in Types : ToSet(sq[t]) = {}
    BY <1>1, <1>3
  <2>4. \A c \in Clients : \A t \in Types : ToSet(cq[c][t]) = {}
    BY <1>1, <1>3
  <2> QED
    BY <2>2, <2>3, <2>4 DEF QueuesRight
<1>7. ServerRight /\ OutboxRight
  BY DEF Init, ServerRight, OutboxRight
<1>8. StopsLast
  <2>1. ToSet(sq["STOP"]) = {} /\ DOMAIN sq["STOP"] = {}
    BY <1>1, <1>3, TypesAre
  <2> QED
    BY <2>1 DEF StopsLast
<1>9. AnswerRight /\ StopComes
  BY <1>1, <1>3, TypesAre DEF Init, AnswerRight, StopComes
<1>10. SendersRight
  <2>1. \A c \in Clients : ~Active(c)
    BY <1>1, <1>3, TypesAre DEF Init, Active
  <2> QED
    BY <1>4, <2>1 DEF SendersRight
<1>11. IdsInside
  <2>1. \A t \in Types : ToSet(sq[t]) = {}
    BY <1>1, <1>3
  <2> QED
    BY <2>1, NoticesAreMessages DEF Init, IdsInside
<1> QED
  BY <1>5, <1>6, <1>7, <1>8, <1>9, <1>10, <1>11 DEF IInv

\* ... and every step keeps it.
LEMMA NextIInv == IInv /\ [Next]_vars => IInv'
<1> SUFFICES ASSUME IInv, [Next]_vars PROVE IInv'
  OBVIOUS
<1>1. CASE ServerStep \/ sigint_handler
  BY <1>1, ReceiveKeeps, SendOneKeeps, UnlinkServerQueueKeeps, InterruptKeeps DEF ServerStep
<1>2. ASSUME NEW c \in Clients, ClientStep(c)
      PROVE  IInv'
  BY <1>2, StartKeeps, MqSendKeeps, InitializedKeeps, ListedKeeps, ReadKeeps,
     UnlinkQueueKeeps DEF ClientStep
<1>3. ASSUME NEW c \in Clients, Command(c) \/ Stop(c) \/ SigintEarly(c) \/ EndOfInput(c)
      PROVE  IInv'
  BY <1>3, CommandKeeps, StopKeeps, SigintEarlyKeeps, EndOfInputKeeps
<1>4. CASE UNCHANGED vars
  <2>1. /\ UNCHANGED <<sq, clients, cq, client, client_id, outbox, accidents>>
        /\ UNCHANGED <<server, feedback, to>>
    BY <1>4 DEF vars, serverVars
  <2>2. Typed' /\ ServerRight' /\ StopComes'
    BY <2>1 DEF IInv, Typed, ServerRight, Registered, StopComes, Staying, Entering, IdsKnown
  <2> QED
    BY <2>1, <2>2, RestStays DEF IInv
<1> QED
  BY <1>1, <1>2, <1>3, <1>4 DEF Next

\* The invariant of server.c and client.c together: whatever the order in which the
\* queues give their messages out.
THEOREM Invariance == Spec => []IInv
BY InitIInv, NextIInv, PTL DEF Spec

\* Every queue stays within mq_maxmsg, the server sends only to queues it has, and no
\* id is outside the server's array unless a client took another message for its answer.
THEOREM TypeCorrect == Spec => []TypeOK
<1>1. IInv => TypeOK
  <2> SUFFICES ASSUME IInv PROVE TypeOK
    OBVIOUS
  <2>1. \A t \in Types : \A m \in ToSet(sq[t]) : m.type = t /\ m.sender_id \in Ids
    BY MembersTyped DEF IInv, Typed, QueuesRight
  <2>2. AnswersRight => /\ \A c \in Clients : client_id[c] \in Slots
                        /\ \A m \in Messages(sq) : m.sender_id \in Slots
    BY InMessages DEF IInv, IdsInside
  <2> QED
    BY <2>1, <2>2 DEF IInv, Typed, QueuesRight, ServerRight, TypeOK
<1> QED
  BY <1>1, Invariance, PTL

\* Unless a client has taken another message for its id or been interrupted before it
\* had one, the id in a message is that of the client that sent it, or of nobody.
THEOREM SendersAreRight == Spec => []SendersRight
<1>1. IInv => SendersRight
  BY DEF IInv
<1> QED
  BY <1>1, Invariance, PTL

\* The STOP of a server that has ended is in the queue of every client in its loop.
THEOREM StopsWait == Spec => []StopWaits
<1>1. IInv => StopWaits
  BY DEF IInv, ServerRight, StopComes, Staying, StopWaits
<1> QED
  BY <1>1, Invariance, PTL

=============================================================================
