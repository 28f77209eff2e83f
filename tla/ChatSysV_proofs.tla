-------------------------- MODULE ChatSysV_proofs ----------------------------
(****************************************************************************)
(* Theorems about the chat of cw06/zad1, for any clients, any number of     *)
(* slots, any size of the queues, any number of lines and any accidents.    *)
(****************************************************************************)
EXTENDS ChatSysV, WellFoundedInduction, TLAPS

USE ChatAssumption

-----------------------------------------------------------------------------
(****************************************************************************)
(* The inductive invariant.  Base is about slots, ids and those who leave:  *)
(* slots are given away only when nothing but INIT waits, INIT is the first *)
(* thing a client sends, and STOP the last.  Order is about the lines: all  *)
(* that somebody has of a user's lines is older than any 2ALL line of that  *)
(* user that is still on its way.                                           *)
(****************************************************************************)

\* The messages, and the places where a client can be.
Msg ==
  [type : Types, sender_id : Slots, receiver_id : Slots, by : Clients \union {NoQueue},
   kind : Types, line : Nat]

Places ==
  {"starting", "initializing", "looping", "listing", "submitting", "exiting", "gone"}

Typed ==
  /\ sq \in [Types -> Seq(Msg)] /\ sq_exists \in BOOLEAN
  /\ clients \in [Slots -> Clients \union {NoQueue, BadQueue}]
  /\ server \in {"receiving", "sending", "closing", "down"}
  /\ feedback \in Msg /\ to \subseteq Slots
  /\ cq \in [Clients -> Seq(Msg)] /\ cq_exists \in [Clients -> BOOLEAN]
  /\ client \in [Clients -> Places]
  /\ client_id \in [Clients -> Slots]
  /\ outbox \in [Clients -> Msg]

\* A line that is passed on says whose it is.
Signed(m) == "TOALL" \in {m.type, m.kind} => m.by \in Clients

\* Each message of the server's is among those of its type, and a queue holds no
\* more than it can.
QueuesRight ==
  /\ \A t \in Types : \A m \in ToSet(sq[t]) :
       m.type = t /\ m.kind = t /\ m.by \in Clients
  /\ \A c \in Clients : \A m \in ToSet(cq[c]) : Signed(m)
  /\ SqLength <= QueueMax
  /\ \A c \in Clients : Len(cq[c]) <= QueueMax

\* An id goes to the client that has just got it, a line to clients there are, and
\* nobody is left when the server has sent all.
ServerRight ==
  /\ Signed(feedback)
  /\ server # "sending" => feedback = Nothing
  /\ server \in {"receiving", "down"} => to = {}
  /\ feedback.type = "INIT" => to = {feedback.receiver_id}
  /\ feedback.kind = "TOALL" => to \subseteq Registered

\* A client writes its own name and its id into what it sends.
OutboxRight ==
  \A c \in Clients : client[c] = "submitting" =>
    /\ outbox[c].by = c /\ outbox[c].kind = outbox[c].type
    /\ outbox[c].type # "INIT" => outbox[c].sender_id = client_id[c]

IdsKnown == "sigint_initialize" \notin accidents

\* No client has two messages in s.
OneEach(s) == \A i, j \in DOMAIN s : s[i].by = s[j].by => i = j

\* A STOP is the last thing a client sends, and it sends one, under its id.
StopsLast ==
  /\ \A m \in ToSet(sq["STOP"]) :
       /\ client[m.by] \in {"exiting", "gone"}
       /\ IdsKnown => m.sender_id = client_id[m.by]
  /\ OneEach(sq["STOP"])

\* The clients that have not asked for an id, and those that have none.
Outside(c) ==
  client[c] = "starting" \/ (client[c] = "submitting" /\ outbox[c].type = "INIT")
Entering(c) == client[c] = "initializing" \/ Outside(c)

\* An INIT is the first thing a client sends, and it sends one: until the server
\* takes it, the client has no slot.
InitsFirst ==
  /\ \A c \in Clients : Outside(c) =>
       /\ \A i \in Slots : clients[i] # c
       /\ \A m \in ToSet(sq["INIT"]) : m.by # c
  /\ \A m \in ToSet(sq["INIT"]) :
       /\ \A i \in Slots : clients[i] # m.by
       /\ IdsKnown => client[m.by] = "initializing"
  /\ OneEach(sq["INIT"])

\* No queue is in two slots; an entry is bad only when the server ends, because of
\* a client that asked for an id and was interrupted.
SlotsRight ==
  /\ \A i, j \in Slots : clients[i] = clients[j] /\ clients[i] # NoQueue => i = j
  /\ \A i \in Slots : clients[i] = BadQueue => ~IdsKnown /\ server \in {"closing", "down"}

\* Each client that is active has the slot of its id.
IdsRight == IdsKnown => \A c \in Clients : Active(c) => clients[client_id[c]] = c

\* The id a client finds in its queue is that of its own slot.
AnswerRight == IdsKnown =>
  \A c \in Clients : Entering(c) =>
    \A m \in ToSet(cq[c]) : m.type = "INIT" => clients[m.receiver_id] = c

\* A client that runs has its queue.
QueuesThere ==
  \A c \in Clients : client[c] \notin {"starting", "gone"} => cq_exists[c]

\* A client that leaves has told the server, or has no slot any more.
Leaving(c) == client[c] = "exiting" \/ (client[c] = "gone" /\ ~cq_exists[c])
Harmless == accidents \subseteq {"sigint_list", "blank"} /\ sq_exists
LeaversTell == Harmless =>
  \A c \in Clients : Leaving(c) => Announced(c) \/ \A i \in Slots : clients[i] # c

Base ==
  /\ Typed /\ QueuesRight /\ ServerRight /\ OutboxRight /\ StopsLast /\ InitsFirst
  /\ SlotsRight /\ IdsRight /\ SenderRight /\ AnswerRight /\ QueuesThere /\ LeaversTell

\* The number of the next line a client sends.
Written(c) == client[c] = "submitting" /\ outbox[c].type \in {"LIST", "TOALL", "TOONE"}
NextLine(c) == IF Written(c) THEN lines[c] ELSE lines[c] + 1

\* Of what d wrote, all that client c has is older than line n: s says what it has
\* shown, and q is its queue.
Older(s, q, d, n) ==
  /\ s[d] < n
  /\ \A i \in DOMAIN q : q[i].by = d => q[i].line < n

\* The 2ALL lines in q are new, and come in the order they were written.
InOrder(s, q) == \A j \in DOMAIN q : q[j].kind = "TOALL" =>
  /\ q[j].line > s[q[j].by]
  /\ \A i \in 1 .. j - 1 : q[i].by = q[j].by => q[i].line < q[j].line

Increasing(q) ==
  \A i, j \in DOMAIN q : i < j /\ q[i].by = q[j].by => q[i].line < q[j].line

LinesTyped == lines \in [Clients -> Nat] /\ shown \in [Clients -> [Clients -> Nat]]

\* Whatever has been sent is older than the next line ...
NextIsNew == \A d \in Clients :
  /\ Written(d) => outbox[d].line = lines[d]
  /\ \A t \in {"TOALL", "TOONE"} : \A m \in ToSet(sq[t]) : m.by = d => m.line < NextLine(d)
  /\ \A c \in Clients : Older(shown[c], cq[c], d, NextLine(d))

\* ... and than the 2ALL lines that wait: these come in the order they were written.
AllInOrder ==
  /\ Increasing(sq["TOALL"])
  /\ \A m \in ToSet(sq["TOALL"]) : \A c \in Clients : Older(shown[c], cq[c], m.by, m.line)

\* The line being sent is older than both, and new to those who have yet to get it.
FeedbackIsNew == feedback.by \in Clients =>
  /\ feedback.line < NextLine(feedback.by)
  /\ \A m \in ToSet(sq["TOALL"]) : m.by = feedback.by => feedback.line < m.line
  /\ feedback.kind = "TOALL" =>
       \A i \in to : Older(shown[clients[i]], cq[clients[i]], feedback.by, feedback.line)

Order == LinesTyped /\ NextIsNew /\ AllInOrder /\ FeedbackIsNew /\ OrderKept

IInv == Base /\ Order

-----------------------------------------------------------------------------
(* Sequences, queues and slots. *)

\* What is received before what: INIT comes after everything else, 2ONE after 2ALL.
LEMMA TypesAre ==
  /\ \A t \in {"STOP", "LIST", "TOALL", "TOONE", "INIT"} : t \in Types
  /\ \A t \in Types : t \in {"STOP", "LIST", "TOALL", "TOONE", "INIT"}
  /\ Lower["INIT"] = Types \ {"INIT"} /\ "TOALL" \in Lower["TOONE"]
BY DEF Types, Lower

\* The least member of a set of naturals is in it: find_free, and the order of sending.
LEMMA MinMember ==
  ASSUME NEW S \in SUBSET Nat, S # {}
  PROVE  Min(S) \in S
<1> DEFINE Less == {ss \in Nat \X Nat : ss[1] < ss[2]}
<1>1. IsWellFoundedOn(Less, Nat)
  BY NatLessThanWellFounded DEF OpToRel
<1>2. PICK x \in S : \A y \in S : ~ (<<y, x>> \in Less)
  <2> HIDE DEF Less
  <2> QED BY <1>1, WFMin
<1>3. ASSUME NEW y \in S, y < x PROVE FALSE
  <2>1. <<y, x>> \in Less
    BY <1>3
  <2> QED BY <2>1, <1>2
<1>4. \A y \in S : x =< y
  BY <1>3
<1> QED
  BY <1>4 DEF Min

\* Sending a message appends it ...
LEMMA AppendSet ==
  ASSUME NEW X, NEW s \in Seq(X), NEW x \in X
  PROVE  /\ Append(s, x) \in Seq(X) /\ Len(Append(s, x)) = Len(s) + 1
         /\ ToSet(Append(s, x)) = ToSet(s) \union {x}
         /\ DOMAIN Append(s, x) = DOMAIN s \union {Len(s) + 1}
         /\ DOMAIN s = 1 .. Len(s) /\ Len(s) \in Nat
         /\ \A i \in DOMAIN s : Append(s, x)[i] = s[i]
         /\ Append(s, x)[Len(s) + 1] = x
<1>1. /\ Append(s, x) \in Seq(X) /\ Len(Append(s, x)) = Len(s) + 1
      /\ \A i \in 1 .. Len(s) : Append(s, x)[i] = s[i]
      /\ Append(s, x)[Len(s) + 1] = x
  OBVIOUS
<1>2. DOMAIN s = 1 .. Len(s) /\ DOMAIN Append(s, x) = 1 .. Len(s) + 1 /\ Len(s) \in Nat
  OBVIOUS
<1>3. DOMAIN Append(s, x) = DOMAIN s \union {Len(s) + 1}
  BY <1>2
<1>4. ToSet(Append(s, x)) = ToSet(s) \union {x}
  BY <1>1, <1>2, <1>3 DEF ToSet
<1> QED
  BY <1>1, <1>2, <1>3, <1>4

\* ... and receiving one takes one out, and leaves the others in their order.
Kept(s, r) ==
  \E f \in [DOMAIN r -> DOMAIN s] :
    /\ \A i \in DOMAIN r : r[i] = s[f[i]]
    /\ \A i, j \in DOMAIN r : i < j => f[i] < f[j]

\* Taking the head of a queue: what remains is in the same order.
LEMMA TailKept ==
  ASSUME NEW X, NEW s \in Seq(X), s # <<>>
  PROVE  /\ Head(s) \in X /\ Head(s) \in ToSet(s) /\ Head(s) = s[1] /\ 1 \in DOMAIN s
         /\ Tail(s) \in Seq(X) /\ Len(Tail(s)) = Len(s) - 1 /\ Len(s) \in Nat
         /\ ToSet(Tail(s)) \subseteq ToSet(s)
         /\ \A i \in DOMAIN Tail(s) : i + 1 \in DOMAIN s /\ Tail(s)[i] = s[i + 1] /\ 1 < i + 1
         /\ Kept(s, Tail(s))
<1>1. /\ Head(s) \in X /\ Head(s) = s[1] /\ 1 \in DOMAIN s
      /\ Tail(s) \in Seq(X) /\ Len(Tail(s)) = Len(s) - 1 /\ Len(s) \in Nat
  OBVIOUS
<1>2. \A i \in DOMAIN Tail(s) : i + 1 \in DOMAIN s /\ Tail(s)[i] = s[i + 1] /\ 1 < i + 1
  OBVIOUS
<1>3. Kept(s, Tail(s))
  <2> DEFINE f == [i \in DOMAIN Tail(s) |-> i + 1]
  <2>1. f \in [DOMAIN Tail(s) -> DOMAIN s]
    BY <1>2
  <2>2. \A i \in DOMAIN Tail(s) : Tail(s)[i] = s[f[i]]
    BY <1>2
  <2>3. DOMAIN Tail(s) \subseteq Nat
    BY <1>1
  <2>4. \A i, j \in DOMAIN Tail(s) : i < j => f[i] < f[j]
    BY <2>3
  <2> HIDE DEF f
  <2> QED
    BY <2>1, <2>2, <2>4 DEF Kept
<1>4. ToSet(Tail(s)) \subseteq ToSet(s)
  BY <1>2 DEF ToSet
<1>5. Head(s) \in ToSet(s)
  BY <1>1 DEF ToSet
<1> QED
  BY <1>1, <1>2, <1>3, <1>4, <1>5

\* Removing an element anywhere: what remains is in the same order.
LEMMA RemoveKept ==
  ASSUME NEW X, NEW s \in Seq(X), NEW i \in DOMAIN s
  PROVE  /\ RemoveAt(s, i) \in Seq(X) /\ Len(RemoveAt(s, i)) <= Len(s)
         /\ Kept(s, RemoveAt(s, i))
<1>1. i \in 1 .. Len(s) /\ Len(s) \in Nat
  OBVIOUS
<1> DEFINE r == RemoveAt(s, i)
           f == [k \in DOMAIN r |-> IF k < i THEN k ELSE k + 1]
<1>2. /\ r \in Seq(X) /\ Len(r) = Len(s) - 1
      /\ \A k \in 1 .. Len(s) - 1 : r[k] = IF k < i THEN s[k] ELSE s[k + 1]
  <2>1. /\ SubSeq(s, 1, i - 1) \in Seq(X) /\ Len(SubSeq(s, 1, i - 1)) = i - 1
        /\ \A k \in 1 .. i - 1 : SubSeq(s, 1, i - 1)[k] = s[k]
    BY <1>1
  <2>2. /\ SubSeq(s, i + 1, Len(s)) \in Seq(X) /\ Len(SubSeq(s, i + 1, Len(s))) = Len(s) - i
        /\ \A k \in 1 .. Len(s) - i : SubSeq(s, i + 1, Len(s))[k] = s[k + i]
    BY <1>1
  <2> DEFINE a == SubSeq(s, 1, i - 1)
             b == SubSeq(s, i + 1, Len(s))
  <2> HIDE DEF a, b
  <2>3. /\ a \in Seq(X) /\ b \in Seq(X) /\ Len(a) = i - 1 /\ Len(b) = Len(s) - i
        /\ \A k \in 1 .. i - 1 : a[k] = s[k]
        /\ \A k \in 1 .. Len(s) - i : b[k] = s[k + i]
    BY <2>1, <2>2 DEF a, b
  <2>4. a \o b \in Seq(X) /\ Len(a \o b) = Len(a) + Len(b)
    BY <2>3
  <2>5. \A k \in 1 .. Len(a) + Len(b) : (a \o b)[k] = IF k <= Len(a) THEN a[k] ELSE b[k - Len(a)]
    BY <2>3, SMTT(60)
  <2>6. r = a \o b
    BY DEF RemoveAt, a, b
  <2> HIDE DEF r
  <2>7. /\ r \in Seq(X) /\ Len(r) = Len(s) - 1
        /\ \A k \in 1 .. Len(s) - 1 : r[k] = IF k <= i - 1 THEN a[k] ELSE b[k - (i - 1)]
    <3>1. Len(a) + Len(b) = Len(s) - 1
      BY <1>1, <2>3
    <3>2. \A k \in 1 .. Len(s) - 1 : r[k] = IF k <= Len(a) THEN a[k] ELSE b[k - Len(a)]
      BY <2>5, <2>6, <3>1
    <3>3. Len(a) = i - 1
      BY <2>3
    <3>4. r \in Seq(X) /\ Len(r) = Len(s) - 1
      BY <2>4, <2>6, <3>1
    <3>5. \A k \in 1 .. Len(s) - 1 : r[k] = IF k <= i - 1 THEN a[k] ELSE b[k - (i - 1)]
      BY <3>2, <3>3
    <3> QED
      BY <3>4, <3>5
  <2>8. ASSUME NEW k \in 1 .. Len(s) - 1 PROVE r[k] = IF k < i THEN s[k] ELSE s[k + 1]
    <3>1. CASE k < i
      <4>1. k \in 1 .. i - 1 /\ k <= i - 1
        BY <1>1, <3>1
      <4>2. r[k] = a[k]
        BY <2>7, <4>1
      <4>3. a[k] = s[k]
        BY <2>3, <4>1
      <4> QED
        BY <3>1, <4>2, <4>3
    <3>2. CASE ~ (k < i)
      <4>1. k - (i - 1) \in 1 .. Len(s) - i /\ (k - (i - 1)) + i = k + 1
        BY <1>1, <3>2
      <4>2. ~ (k <= i - 1)
        BY <1>1, <3>2
      <4>3. r[k] = b[k - (i - 1)]
        BY <2>7, <4>2
      <4>4. b[k - (i - 1)] = s[(k - (i - 1)) + i]
        BY <2>3, <4>1
      <4> QED
        BY <3>2, <4>1, <4>3, <4>4
    <3> QED
      BY <3>1, <3>2
  <2> QED
    BY <2>7, <2>8
<1> HIDE DEF r
<1>3. DOMAIN r = 1 .. Len(s) - 1 /\ DOMAIN s = 1 .. Len(s)
  BY <1>2
<1>4. f \in [DOMAIN r -> DOMAIN s]
  BY <1>1, <1>3
<1>5. \A k \in DOMAIN r : r[k] = s[f[k]]
  BY <1>2, <1>3
<1>6. \A k, l \in DOMAIN r : k < l => f[k] < f[l]
  BY <1>1, <1>3
<1> HIDE DEF f
<1>7. Kept(s, r)
  BY <1>4, <1>5, <1>6 DEF Kept
<1> QED
  BY <1>1, <1>2, <1>7 DEF r

\* What is kept was there.
LEMMA KeptSet ==
  ASSUME NEW s, NEW r, Kept(s, r)
  PROVE  ToSet(r) \subseteq ToSet(s)
BY DEF Kept, ToSet

\* The length of the server's queue, when one message comes or goes.
Total(q) ==
  Len(q["STOP"]) + Len(q["LIST"]) + Len(q["TOALL"]) + Len(q["TOONE"]) + Len(q["INIT"])

\* The length of the server's queue when one of its parts changes by one message.
LEMMA TotalChanges ==
  ASSUME NEW q \in [Types -> Seq(Msg)], NEW r \in [Types -> Seq(Msg)], NEW t \in Types,
         \A u \in Types \ {t} : r[u] = q[u], NEW d \in {1, -1}, Len(r[t]) = Len(q[t]) + d
  PROVE  Total(q) \in Nat /\ Total(r) = Total(q) + d
<1> DEFINE n(u) == Len(q[u])
           k(u) == Len(r[u])
<1>1. \A u \in Types : n(u) \in Nat
  OBVIOUS
<1>2. \A u \in Types : k(u) = IF u = t THEN n(u) + d ELSE n(u)
  OBVIOUS
<1>3. /\ Total(q) = n("STOP") + n("LIST") + n("TOALL") + n("TOONE") + n("INIT")
      /\ Total(r) = k("STOP") + k("LIST") + k("TOALL") + k("TOONE") + k("INIT")
  BY DEF Total
<1> HIDE DEF n, k
<1>4. t \in {"STOP", "LIST", "TOALL", "TOONE", "INIT"}
  BY TypesAre
<1>5. /\ n("STOP") \in Nat /\ n("LIST") \in Nat /\ n("TOALL") \in Nat
      /\ n("TOONE") \in Nat /\ n("INIT") \in Nat
  BY <1>1, TypesAre
<1>6. \A u \in {"STOP", "LIST", "TOALL", "TOONE", "INIT"} :
        k(u) = IF u = t THEN n(u) + d ELSE n(u)
  BY <1>2, TypesAre
<1>7. d \in Int
  OBVIOUS
<1>8. PICK v \in Nat, w \in Nat, x \in Nat, y \in Nat, z \in Nat :
        /\ v = n("STOP") /\ w = n("LIST") /\ x = n("TOALL") /\ y = n("TOONE")
        /\ z = n("INIT")
  BY <1>5
<1>9. Total(q) = v + w + x + y + z /\ Total(q) \in Nat
  <2>1. Total(q) = v + w + x + y + z
    BY <1>3, <1>8
  <2> QED
    BY <2>1
<1>10. CASE t = "STOP"
  <2>1. Total(r) = (v + d) + w + x + y + z
    BY <1>3, <1>6, <1>8, <1>10
  <2> QED
    BY <1>7, <1>9, <2>1
<1>11. CASE t = "LIST"
  <2>1. Total(r) = v + (w + d) + x + y + z
    BY <1>3, <1>6, <1>8, <1>11
  <2> QED
    BY <1>7, <1>9, <2>1
<1>12. CASE t = "TOALL"
  <2>1. Total(r) = v + w + (x + d) + y + z
    BY <1>3, <1>6, <1>8, <1>12
  <2> QED
    BY <1>7, <1>9, <2>1
<1>13. CASE t = "TOONE"
  <2>1. Total(r) = v + w + x + (y + d) + z
    BY <1>3, <1>6, <1>8, <1>13
  <2> QED
    BY <1>7, <1>9, <2>1
<1>14. CASE t = "INIT"
  <2>1. Total(r) = v + w + x + y + (z + d)
    BY <1>3, <1>6, <1>8, <1>14
  <2> QED
    BY <1>7, <1>9, <2>1
<1> QED
  BY <1>4, <1>10, <1>11, <1>12, <1>13, <1>14

\* The messages of the server's queue are those of each type.
LEMMA PendingAre ==
  \A m : m \in Pending <=> \E t \in Types : m \in ToSet(sq[t])
BY DEF Pending

\* The messages that server and clients make up.
LEMMA MessagesTyped ==
  /\ \A t \in Types, i \in Slots :
       /\ Notice(t, i) \in Msg /\ Notice(t, i).type = t /\ Notice(t, i).kind = t
       /\ Notice(t, i).by = NoQueue /\ Notice(t, i).receiver_id = i
  /\ \A t \in Types, i, j \in Slots, c \in Clients, n \in Nat :
       LET m == Message(t, i, j, c, n) IN
       /\ m \in Msg /\ m.type = t /\ m.kind = t /\ m.by = c
       /\ m.sender_id = i /\ m.receiver_id = j /\ m.line = n
  /\ 0 \in Slots /\ Slots \subseteq Nat /\ NoQueue \notin Clients /\ BadQueue \notin Clients
BY DEF Notice, Message, Msg, Slots

\* Nothing stands for no message: a STOP of no queue.
LEMMA NothingIs ==
  /\ Nothing \in Msg /\ Nothing = Notice("STOP", 0) /\ Nothing.type = "STOP"
  /\ Nothing.kind = "STOP" /\ Nothing.by = NoQueue
BY TypesAre, MessagesTyped DEF Nothing

\* The fields of a message.
LEMMA MsgFields ==
  ASSUME NEW m \in Msg
  PROVE  /\ m.type \in Types /\ m.kind \in Types /\ m.sender_id \in Slots
         /\ m.receiver_id \in Slots /\ m.line \in Nat
BY DEF Msg

\* What is in a queue is a message.
LEMMA MembersTyped ==
  ASSUME NEW s \in Seq(Msg), NEW m \in ToSet(s)
  PROVE  m \in Msg
BY DEF ToSet

\* A client with one message in a queue has none when it is taken ...
LEMMA OneEachTail ==
  ASSUME NEW s \in Seq(Msg), s # <<>>, OneEach(s)
  PROVE  OneEach(Tail(s)) /\ \A m \in ToSet(Tail(s)) : m.by # Head(s).by
<1> DEFINE r == Tail(s)
           h == Head(s)
<1>1. /\ h = s[1] /\ 1 \in DOMAIN s
      /\ \A i \in DOMAIN r : i + 1 \in DOMAIN s /\ r[i] = s[i + 1] /\ 1 < i + 1
  BY TailKept
<1>2. DOMAIN r \subseteq Nat
  OBVIOUS
<1> HIDE DEF r, h
<1>3. \A i, j \in DOMAIN r : i + 1 = j + 1 => i = j
  BY <1>2
<1>4. \A i \in DOMAIN r : i + 1 # 1
  BY <1>2
<1>5. OneEach(r)
  BY <1>1, <1>3 DEF OneEach
<1>6. \A i \in DOMAIN r : r[i].by # h.by
  BY <1>1, <1>4 DEF OneEach
<1>7. \A m \in ToSet(r) : m.by # h.by
  BY <1>6 DEF ToSet
<1> QED
  BY <1>5, <1>7 DEF r, h

\* ... and one when it sends its first.
LEMMA OneEachAppend ==
  ASSUME NEW s \in Seq(Msg), NEW m \in Msg, OneEach(s), \A n \in ToSet(s) : n.by # m.by
  PROVE  OneEach(Append(s, m))
<1> DEFINE r == Append(s, m)
           k == Len(s) + 1
<1>1. /\ DOMAIN r = DOMAIN s \union {k} /\ DOMAIN s = 1 .. Len(s) /\ Len(s) \in Nat
      /\ \A i \in DOMAIN s : r[i] = s[i]
      /\ r[k] = m
  BY AppendSet
<1>2. \A i \in DOMAIN s : s[i].by # m.by
  BY DEF ToSet
<1> HIDE DEF r, k
<1>3. \A i, j \in DOMAIN r : r[i].by = r[j].by => i = j
  BY <1>1, <1>2 DEF OneEach
<1> QED
  BY <1>3 DEF OneEach, r

\* Who has announced that it leaves, now and after a step.
LEMMA AnnouncedIs ==
  ASSUME QueuesRight
  PROVE  \A x : Announced(x) <=> \E m \in ToSet(sq["STOP"]) : m.by = x
BY TypesAre, PendingAre DEF Announced, QueuesRight

\* What is pending after a step.
LEMMA PendingThen ==
  \A m : m \in Pending' <=> \E t \in Types : m \in ToSet(sq'[t])
<1>1. Pending' = UNION {ToSet(sq'[t]) : t \in Types}
  BY DEF Pending, ToSet
<1> QED
  BY <1>1

\* Who is announced after a step: the queues of the pending STOPs.
LEMMA AnnouncedThen ==
  ASSUME QueuesRight'
  PROVE  \A x : Announced(x)' <=> \E m \in ToSet(sq'["STOP"]) : m.by = x
<1>1. \A t \in Types : \A m \in ToSet(sq'[t]) : m.type = t
  BY DEF QueuesRight, ToSet
<1>2. \A x : Announced(x)' <=> \E m \in Pending' : m.type = "STOP" /\ m.by = x
  BY DEF Announced
<1> QED
  BY <1>1, <1>2, TypesAre, PendingThen

-----------------------------------------------------------------------------
(* The server, and the slots. *)

\* What Receive takes off the queue, and what stays there.
Taken(t) ==
  /\ sq[t] # <<>> /\ \A u \in Lower[t] : sq[u] = <<>>
  /\ sq' = [sq EXCEPT ![t] = Tail(@)]

\* What msgrcv gives the server, and what it leaves.
LEMMA Received ==
  ASSUME Base, NEW t \in Types, Taken(t)
  PROVE  /\ Head(sq[t]) \in ToSet(sq[t]) /\ Head(sq[t]) \in Msg
         /\ Head(sq[t]).type = t /\ Head(sq[t]).kind = t /\ Head(sq[t]).by \in Clients
         /\ sq' \in [Types -> Seq(Msg)] /\ sq'[t] = Tail(sq[t])
         /\ \A u \in Types \ {t} : sq'[u] = sq[u]
         /\ \A u \in Types : ToSet(sq'[u]) \subseteq ToSet(sq[u])
         /\ SqLength' <= QueueMax
         /\ OneEach(sq'["STOP"]) /\ OneEach(sq'["INIT"])
         /\ t \in {"STOP", "INIT"} => \A m \in ToSet(sq'[t]) : m.by # Head(sq[t]).by
<1> USE DEF Base
<1>1. sq \in [Types -> Seq(Msg)] /\ sq[t] \in Seq(Msg) /\ sq[t] # <<>>
  BY DEF Typed, Taken
<1>2. /\ Head(sq[t]) \in Msg /\ Head(sq[t]) \in ToSet(sq[t])
      /\ Tail(sq[t]) \in Seq(Msg) /\ Len(Tail(sq[t])) = Len(sq[t]) - 1
      /\ ToSet(Tail(sq[t])) \subseteq ToSet(sq[t])
  BY <1>1, TailKept
<1>3. sq' \in [Types -> Seq(Msg)] /\ sq'[t] = Tail(sq[t])
  BY <1>1, <1>2 DEF Taken
<1>4. \A u \in Types \ {t} : sq'[u] = sq[u]
  BY <1>1 DEF Taken
<1>5. \A u \in Types : ToSet(sq'[u]) \subseteq ToSet(sq[u])
  BY <1>2, <1>3, <1>4
<1>6. SqLength' <= QueueMax
  <2>1. SqLength = Total(sq) /\ SqLength' = Total(sq')
    BY DEF SqLength, Total
  <2>2. PICK q \in [Types -> Seq(Msg)], r \in [Types -> Seq(Msg)] : q = sq /\ r = sq'
    BY <1>1, <1>3
  <2>3. \A u \in Types \ {t} : r[u] = q[u]
    BY <1>4, <2>2
  <2>4. Len(r[t]) = Len(q[t]) + (-1)
    BY <1>1, <1>2, <1>3, <2>2
  <2>5. Total(q) \in Nat /\ Total(r) = Total(q) + (-1)
    BY <2>3, <2>4, TotalChanges
  <2>6. Total(q) <= QueueMax
    BY <2>1, <2>2 DEF QueuesRight
  <2> QED
    BY <2>1, <2>2, <2>5, <2>6
<1>7. ASSUME OneEach(sq[t])
      PROVE  OneEach(sq'[t]) /\ \A m \in ToSet(sq'[t]) : m.by # Head(sq[t]).by
  BY <1>1, <1>3, <1>7, OneEachTail
<1>8. OneEach(sq["STOP"]) /\ OneEach(sq["INIT"])
  BY DEF StopsLast, InitsFirst
<1>9. OneEach(sq'["STOP"]) /\ OneEach(sq'["INIT"])
  BY <1>4, <1>7, <1>8, TypesAre
<1>10. t \in {"STOP", "INIT"} => \A m \in ToSet(sq'[t]) : m.by # Head(sq[t]).by
  BY <1>7, <1>8
<1>11. Head(sq[t]).type = t /\ Head(sq[t]).kind = t /\ Head(sq[t]).by \in Clients
  BY <1>2 DEF QueuesRight
<1> QED
  BY <1>2, <1>3, <1>4, <1>5, <1>6, <1>9, <1>10, <1>11

\* What a handler may do to the array clients, m being what it handles: it frees the
\* slot that a STOP names, or fills one that is free with whoever sent an INIT, or
\* with a bad queue when it is going to end the server.
TableChanges(t, m) ==
  \/ clients' = clients /\ (t = "STOP" => clients[m.sender_id] = NoQueue)
  \/ /\ t = "STOP" /\ clients[m.sender_id] # NoQueue
     /\ clients' = [clients EXCEPT ![m.sender_id] = NoQueue]
  \/ /\ t = "INIT"
     /\ \E i \in Slots :
          /\ clients[i] = NoQueue
          /\ \/ clients' = [clients EXCEPT ![i] = m.by]
             \/ /\ clients' = [clients EXCEPT ![i] = BadQueue]
                /\ ~IdsKnown /\ server' = "closing"

\* Who sent a STOP that is received has the slot it names, if the ids are known.
LEMMA StopKnown ==
  ASSUME Base, IdsKnown, NEW m \in ToSet(sq["STOP"])
  PROVE  /\ clients[m.sender_id] = m.by /\ m.sender_id \in Slots /\ m.by \in Clients
         /\ client[m.by] \in {"exiting", "gone"}
<1> USE DEF Base
<1>1. m.by \in Clients /\ m.sender_id = client_id[m.by] /\ client[m.by] \in {"exiting", "gone"}
  BY TypesAre DEF QueuesRight, StopsLast
<1>2. Active(m.by)
  BY <1>1, AnnouncedIs DEF Active
<1> QED
  BY <1>1, <1>2 DEF IdsRight, Typed

\* What is said of queues and of who has sent what stays true.
LEMMA ReceiveQueues ==
  ASSUME Base, NEW t \in Types, Taken(t), TableChanges(t, Head(sq[t])),
         UNCHANGED <<sq_exists, cq, cq_exists, client, client_id, outbox, accidents>>
  PROVE  QueuesRight' /\ OutboxRight' /\ StopsLast' /\ QueuesThere'
<1> USE DEF Base
<1>1. \A u \in Types : ToSet(sq'[u]) \subseteq ToSet(sq[u])
  BY Received
<1>2. SqLength' <= QueueMax /\ OneEach(sq'["STOP"])
  BY Received
<1>3. QueuesRight'
  BY <1>1, <1>2 DEF QueuesRight
<1>4. OutboxRight' /\ QueuesThere'
  BY DEF OutboxRight, QueuesThere
<1>5. StopsLast'
  BY <1>1, <1>2, TypesAre DEF StopsLast, IdsKnown
<1> QED
  BY <1>3, <1>4, <1>5

\* What is said of slots stays true.
LEMMA ReceiveSlots ==
  ASSUME Base, NEW t \in Types, Taken(t), server = "receiving",
         NEW m, m = Head(sq[t]), TableChanges(t, m),
         UNCHANGED <<sq_exists, cq, cq_exists, client, client_id, outbox, accidents>>
  PROVE  /\ InitsFirst' /\ SlotsRight' /\ IdsRight' /\ SenderRight' /\ AnswerRight'
         /\ LeaversTell'
<1> USE DEF Base
<1>1. /\ m \in ToSet(sq[t]) /\ m \in Msg /\ m.by \in Clients /\ m.type = t
      /\ m.sender_id \in Slots
  BY Received, MsgFields
<1>2. \A u \in Types : ToSet(sq'[u]) \subseteq ToSet(sq[u])
  BY Received
<1>3. \A u \in Types \ {t} : sq'[u] = sq[u]
  BY Received
<1>4. OneEach(sq'["INIT"])
  BY Received
<1>5. t \in {"STOP", "INIT"} => \A n \in ToSet(sq'[t]) : n.by # m.by
  BY Received
<1>6. QueuesRight'
  BY ReceiveQueues
<1>7. (IdsKnown' <=> IdsKnown) /\ (Harmless' <=> Harmless) /\ (Harmless => IdsKnown)
  BY DEF IdsKnown, Harmless
<1>8. \A n \in Pending' : n \in Pending /\ \E u \in Types : n \in ToSet(sq[u])
  BY <1>2, PendingAre, PendingThen
<1>9. \A x \in Clients : Announced(x)' => Announced(x)
  BY <1>2, <1>6, AnnouncedIs, AnnouncedThen, TypesAre
<1>10. \A x \in Clients : Announced(x) /\ (t = "STOP" => x # m.by) => Announced(x)'
  <2>1. ASSUME NEW x \in Clients, t = "STOP", x # m.by, NEW n \in ToSet(sq["STOP"]), n.by = x
        PROVE  n \in ToSet(sq'["STOP"])
    <3>1. PICK s \in Seq(Msg) : s = sq["STOP"]
      BY TypesAre DEF Typed
    <3>2. s # <<>> /\ m = Head(s) /\ sq'["STOP"] = Tail(s)
      BY <2>1, <3>1, Received DEF Taken
    <3>3. PICK i \in DOMAIN s : n = s[i]
      BY <2>1, <3>1 DEF ToSet
    <3>4. i # 1
      BY <2>1, <3>2, <3>3, TailKept
    <3>5. i - 1 \in DOMAIN Tail(s) /\ Tail(s)[i - 1] = s[i]
      BY <3>2, <3>4
    <3> QED
      BY <3>2, <3>3, <3>5 DEF ToSet
  <2>2. ASSUME t # "STOP" PROVE sq'["STOP"] = sq["STOP"]
    BY <1>3, <2>2, TypesAre
  <2>3. ASSUME NEW x \in Clients, Announced(x), t = "STOP", x # m.by PROVE Announced(x)'
    BY <1>6, <2>1, <2>3, AnnouncedIs, AnnouncedThen
  <2>4. ASSUME NEW x \in Clients, Announced(x), t # "STOP" PROVE Announced(x)'
    BY <1>6, <2>2, <2>4, AnnouncedIs, AnnouncedThen
  <2> QED
    BY <2>3, <2>4
<1>11. \A x \in Clients : /\ Active(x)' => Active(x)
                          /\ Entering(x)' <=> Entering(x)
                          /\ Outside(x)' <=> Outside(x)
                          /\ Leaving(x)' <=> Leaving(x)
  BY <1>9 DEF Active, Entering, Outside, Leaving
<1>12. \A i \in Slots : clients[i] # BadQueue
  BY DEF SlotsRight
<1>13. \A x \in Clients : client_id[x] \in Slots
  BY DEF Typed
<1>14. \A x \in Clients : \A n \in ToSet(cq[x]) : n.receiver_id \in Slots
  BY MembersTyped, MsgFields DEF Typed
<1>15. \A x \in Clients : x # NoQueue /\ x # BadQueue
  OBVIOUS
<1>16. \A n \in ToSet(sq["INIT"]) : n.by \in Clients
  BY TypesAre DEF QueuesRight
<1>17. CASE clients' = clients /\ (t = "STOP" => clients[m.sender_id] = NoQueue)
  <2>1. InitsFirst'
    BY <1>2, <1>4, <1>7, <1>11, <1>17, TypesAre DEF InitsFirst
  <2>2. SlotsRight'
    BY <1>12, <1>17 DEF SlotsRight
  <2>3. IdsRight'
    BY <1>7, <1>11, <1>17 DEF IdsRight
  <2>4. SenderRight'
    BY <1>7, <1>8, <1>17 DEF SenderRight, IdsKnown
  <2>5. AnswerRight'
    BY <1>7, <1>11, <1>17 DEF AnswerRight
  <2>6. LeaversTell'
    <3>1. Harmless => t # "STOP"
      BY <1>1, <1>7, <1>15, <1>17, StopKnown
    <3> QED
      BY <1>7, <1>10, <1>11, <1>17, <3>1 DEF LeaversTell
  <2> QED
    BY <2>1, <2>2, <2>3, <2>4, <2>5, <2>6
<1>18. CASE /\ t = "STOP" /\ clients[m.sender_id] # NoQueue
            /\ clients' = [clients EXCEPT ![m.sender_id] = NoQueue]
  <2>1. \A j \in Slots : clients'[j] = IF j = m.sender_id THEN NoQueue ELSE clients[j]
    BY <1>18 DEF Typed
  <2>2. IdsKnown => clients[m.sender_id] = m.by /\ client[m.by] \in {"exiting", "gone"}
    BY <1>1, <1>18, StopKnown
  <2>3. IdsKnown => ~Active(m.by)'
    <3>1. ~Announced(m.by)'
      BY <1>5, <1>6, <1>18, AnnouncedThen
    <3> QED
      BY <2>2, <3>1 DEF Active
  <2>4. InitsFirst'
    <3>1. \A x \in Clients : Outside(x)' =>
            /\ \A j \in Slots : clients'[j] # x
            /\ \A n \in ToSet(sq'["INIT"]) : n.by # x
      BY <1>2, <1>11, <1>15, <2>1, TypesAre DEF InitsFirst
    <3>2. \A n \in ToSet(sq'["INIT"]) :
            /\ \A j \in Slots : clients'[j] # n.by
            /\ IdsKnown => client'[n.by] = "initializing"
      BY <1>2, <1>15, <1>16, <2>1, TypesAre DEF InitsFirst
    <3> QED
      BY <1>4, <1>7, <3>1, <3>2 DEF InitsFirst
  <2>5. SlotsRight'
    BY <1>12, <2>1 DEF SlotsRight
  <2>6. IdsRight'
    BY <1>7, <1>11, <1>13, <2>1, <2>2, <2>3 DEF IdsRight
  <2>7. SenderRight'
    <3> SUFFICES ASSUME IdsKnown, NEW n \in Pending', n.type # "INIT"
                 PROVE  clients'[n.sender_id] \in {n.by, NoQueue}
      BY <1>7 DEF SenderRight, IdsKnown
    <3>1. n.sender_id \in Slots
      BY <1>8, MembersTyped, MsgFields DEF Typed
    <3> QED
      BY <1>8, <2>1, <3>1 DEF SenderRight, IdsKnown
  <2>8. AnswerRight'
    <3> SUFFICES ASSUME IdsKnown, NEW x \in Clients, Entering(x),
                        NEW n \in ToSet(cq[x]), n.type = "INIT"
                 PROVE  clients'[n.receiver_id] = x
      BY <1>7, <1>11 DEF AnswerRight
    <3>1. x # m.by
      BY <2>2 DEF Entering, Outside
    <3>2. clients[n.receiver_id] = x
      BY DEF AnswerRight
    <3> QED
      BY <1>14, <2>1, <2>2, <3>1, <3>2
  <2>9. LeaversTell'
    <3> SUFFICES ASSUME Harmless, NEW x \in Clients, Leaving(x)
                 PROVE  Announced(x)' \/ \A j \in Slots : clients'[j] # x
      BY <1>7, <1>11 DEF LeaversTell
    <3>1. CASE x = m.by
      <4>1. \A j \in Slots : clients[j] = m.by => j = m.sender_id
        BY <1>1, <1>7, <1>15, <2>2 DEF SlotsRight
      <4> QED
        BY <1>15, <2>1, <3>1, <4>1
    <3>2. CASE x # m.by
      BY <1>10, <1>15, <2>1, <3>2 DEF LeaversTell
    <3> QED
      BY <3>1, <3>2
  <2> QED
    BY <2>4, <2>5, <2>6, <2>7, <2>8, <2>9
<1>19. ASSUME t = "INIT", NEW i \in Slots, clients[i] = NoQueue, NEW b,
              clients' = [clients EXCEPT ![i] = b],
              b = m.by \/ (b = BadQueue /\ ~IdsKnown /\ server' = "closing")
       PROVE  InitsFirst' /\ SlotsRight' /\ IdsRight' /\ SenderRight' /\ AnswerRight' /\ LeaversTell'
  <2>1. \A j \in Slots : clients'[j] = IF j = i THEN b ELSE clients[j]
    BY <1>19 DEF Typed
  <2>2. /\ \A j \in Slots : clients[j] # m.by
        /\ IdsKnown => client[m.by] = "initializing"
        /\ ~Outside(m.by)
    BY <1>1, <1>19 DEF InitsFirst
  <2>3. InitsFirst'
    <3>1. \A x \in Clients : Outside(x)' =>
            /\ \A j \in Slots : clients'[j] # x
            /\ \A n \in ToSet(sq'["INIT"]) : n.by # x
      BY <1>2, <1>11, <1>15, <1>19, <2>1, <2>2, TypesAre DEF InitsFirst
    <3>2. \A n \in ToSet(sq'["INIT"]) :
            /\ \A j \in Slots : clients'[j] # n.by
            /\ IdsKnown => client'[n.by] = "initializing"
      BY <1>2, <1>5, <1>15, <1>16, <1>19, <2>1, TypesAre DEF InitsFirst
    <3> QED
      BY <1>4, <1>7, <3>1, <3>2 DEF InitsFirst
  <2>4. SlotsRight'
    <3>1. \A j \in Slots : clients[j] # b
      BY <1>12, <1>19, <2>2
    <3>2. \A j, k \in Slots : clients'[j] = clients'[k] /\ clients'[j] # NoQueue => j = k
      BY <2>1, <3>1 DEF SlotsRight
    <3>3. \A j \in Slots : clients'[j] = BadQueue => ~IdsKnown' /\ server' = "closing"
      BY <1>1, <1>7, <1>12, <1>15, <1>19, <2>1
    <3> QED
      BY <3>2, <3>3 DEF SlotsRight
  <2>5. IdsRight'
    BY <1>7, <1>11, <1>13, <1>15, <1>19, <2>1 DEF IdsRight
  <2>6. \A n \in Pending' : n.type = "INIT"
    <3>1. \A u \in Types \ {"INIT"} : sq[u] = <<>>
      BY <1>19, TypesAre DEF Taken
    <3>2. \A u \in Types \ {"INIT"} : ToSet(sq[u]) = {}
      BY <3>1 DEF ToSet
    <3> QED
      BY <1>8, <3>2 DEF QueuesRight
  <2>7. SenderRight'
    BY <2>6 DEF SenderRight
  <2>8. AnswerRight'
    BY <1>7, <1>11, <1>14, <1>15, <1>19, <2>1 DEF AnswerRight
  <2>9. LeaversTell'
    <3> SUFFICES ASSUME Harmless, NEW x \in Clients, Leaving(x)
                 PROVE  Announced(x)' \/ \A j \in Slots : clients'[j] # x
      BY <1>7, <1>11 DEF LeaversTell
    <3>1. x # m.by
      BY <1>7, <2>2 DEF Leaving
    <3>2. Announced(x) => Announced(x)'
      BY <1>10, <1>19
    <3> QED
      BY <1>15, <1>19, <2>1, <3>1, <3>2 DEF LeaversTell
  <2> QED
    BY <2>3, <2>4, <2>5, <2>7, <2>8, <2>9
<1>20. CASE /\ t = "INIT"
            /\ \E i \in Slots :
                 /\ clients[i] = NoQueue
                 /\ \/ clients' = [clients EXCEPT ![i] = m.by]
                    \/ /\ clients' = [clients EXCEPT ![i] = BadQueue]
                       /\ ~IdsKnown /\ server' = "closing"
  BY <1>19, <1>20
<1> QED
  BY <1>17, <1>18, <1>20 DEF TableChanges

\* What a handler comes to: the server ends, is through, or has an answer to send: an
\* id, the list, a 2ALL line for all there are or a 2ONE line.
Outcome(t, m) ==
  \/ server' = "closing" /\ feedback' = Nothing /\ to' \subseteq Slots
  \/ server' = "receiving" /\ feedback' = Nothing /\ to' = {}
  \/ /\ server' = "sending" /\ to' \subseteq Slots
     /\ \/ \E i \in Slots : feedback' = Notice("INIT", i) /\ to' = {i}
        \/ feedback' = Notice("LIST", 0)
        \/ t = "TOALL" /\ feedback' = m /\ to' = Registered /\ clients' = clients
        \/ t = "TOONE" /\ feedback' = [m EXCEPT !.type = "TOALL"]

\* The handlers do nothing else.
LEMMA Handled ==
  ASSUME Base, Receive
  PROVE  \E t \in Types :
           /\ Taken(t)
           /\ TableChanges(t, Head(sq[t])) /\ Outcome(t, Head(sq[t]))
<1> USE DEF Base
<1>1. server = "receiving" /\ to = {} /\ feedback = Nothing
  BY DEF Receive, ServerRight
<1>2. PICK t \in Types :
        /\ Taken(t)
        /\ \/ t = "STOP" /\ handle_stop(Head(sq[t]))
           \/ t = "LIST" /\ handle_list(Head(sq[t]))
           \/ t = "TOALL" /\ handle_toall(Head(sq[t]))
           \/ t = "TOONE" /\ handle_toone(Head(sq[t]))
           \/ t = "INIT" /\ handle_init(Head(sq[t]))
  BY DEF Receive, Taken
<1>3. PICK m : m = Head(sq[t])
  OBVIOUS
<1>4. /\ m \in Msg /\ m \in ToSet(sq[t]) /\ m.type = t /\ m.kind = t /\ m.by \in Clients
  BY <1>2, <1>3, Received
<1>5. m.sender_id \in Slots /\ m.receiver_id \in Slots
  BY <1>4, MsgFields
<1>6. Returns => server' = "receiving" /\ feedback' = Nothing /\ to' = {}
  BY <1>1 DEF Returns
<1>7. \A table : Exits(table) => server' = "closing" /\ feedback' = Nothing /\ to' \subseteq Slots
  BY NothingIs DEF Exits
<1>8. Registered \subseteq Slots
  BY DEF Registered
<1>9. ASSUME t = "STOP", handle_stop(m) PROVE TableChanges(t, m) /\ Outcome(t, m)
  <2>1. CASE /\ clients[m.sender_id] # NoQueue
             /\ clients' = [clients EXCEPT ![m.sender_id] = NoQueue] /\ Returns
    BY <1>6, <1>9, <2>1 DEF TableChanges, Outcome
  <2>2. CASE clients[m.sender_id] = NoQueue /\ Exits(clients) /\ UNCHANGED clients
    BY <1>7, <2>2 DEF TableChanges, Outcome
  <2> QED
    BY <1>9, <2>1, <2>2 DEF handle_stop
<1>10. ASSUME t = "LIST", handle_list(m) PROVE TableChanges(t, m) /\ Outcome(t, m)
  <2>1. /\ clients' = clients /\ server' = "sending" /\ feedback' = Notice("LIST", 0)
        /\ to' = {m.sender_id}
    BY <1>10 DEF handle_list, Sends
  <2> QED
    BY <1>5, <1>10, <2>1 DEF TableChanges, Outcome
<1>11. ASSUME t = "TOALL", handle_toall(m) PROVE TableChanges(t, m) /\ Outcome(t, m)
  <2>1. clients' = clients /\ to' = Registered
    BY <1>11 DEF handle_toall, Sends
  <2>2. \/ server' = "receiving" /\ feedback' = Nothing /\ to' = {}
        \/ server' = "sending" /\ feedback' = m
    BY <1>11 DEF handle_toall, Sends
  <2> QED
    BY <1>8, <1>11, <2>1, <2>2 DEF TableChanges, Outcome
<1>12. ASSUME t = "TOONE", handle_toone(m) PROVE TableChanges(t, m) /\ Outcome(t, m)
  <2>1. clients' = clients
    BY <1>12 DEF handle_toone
  <2>2. \/ Returns
        \/ /\ server' = "sending" /\ feedback' = [m EXCEPT !.type = "TOALL"]
           /\ to' = {m.receiver_id}
    BY <1>12 DEF handle_toone, Sends
  <2> QED
    BY <1>5, <1>6, <1>12, <2>1, <2>2 DEF TableChanges, Outcome
<1>13. ASSUME t = "INIT", handle_init(m) PROVE TableChanges(t, m) /\ Outcome(t, m)
  <2>1. CASE Returns /\ UNCHANGED clients
    BY <1>6, <1>13, <2>1 DEF TableChanges, Outcome
  <2>2. ASSUME find_free # {}, NEW i, i = Min(find_free)
        PROVE  i \in Slots /\ clients[i] = NoQueue
    <3>1. find_free \in SUBSET Nat
      BY DEF find_free, Slots
    <3> QED
      BY <2>2, <3>1, MinMember DEF find_free
  <2>3. ASSUME find_free # {}, NEW i, i = Min(find_free),
               clients' = [clients EXCEPT ![i] = m.by], Sends(Notice("INIT", i), {i})
        PROVE  TableChanges(t, m) /\ Outcome(t, m)
    <3>1. i \in Slots /\ clients[i] = NoQueue
      BY <2>2, <2>3
    <3>2. server' = "sending" /\ feedback' = Notice("INIT", i) /\ to' = {i}
      BY <2>3 DEF Sends
    <3> QED
      BY <1>13, <2>3, <3>1, <3>2 DEF TableChanges, Outcome
  <2>4. ASSUME find_free # {}, ~cq_exists[m.by], NEW i, i = Min(find_free),
               clients' = [clients EXCEPT ![i] = BadQueue], Exits(clients')
        PROVE  TableChanges(t, m) /\ Outcome(t, m)
    <3>1. i \in Slots /\ clients[i] = NoQueue
      BY <2>2, <2>4
    <3>2. ~IdsKnown
      BY <1>4, <1>13, <2>4 DEF InitsFirst, QueuesThere
    <3>3. server' = "closing" /\ feedback' = Nothing /\ to' \subseteq Slots
      BY <2>4, NothingIs DEF Exits
    <3> QED
      BY <1>13, <2>4, <3>1, <3>2, <3>3 DEF TableChanges, Outcome
  <2> QED
    BY <1>13, <2>1, <2>3, <2>4 DEF handle_init
<1> QED
  BY <1>2, <1>3, <1>9, <1>10, <1>11, <1>12, <1>13

\* The server takes a message and does what it asks for.
LEMMA ReceiveBase ==
  ASSUME Base, Receive
  PROVE  Base'
<1> USE DEF Base
<1>1. /\ UNCHANGED <<sq_exists, cq, cq_exists, client, client_id, outbox, accidents>>
      /\ server = "receiving"
  BY DEF Receive, clientVars
<1>2. PICK t \in Types : /\ Taken(t)
                         /\ TableChanges(t, Head(sq[t])) /\ Outcome(t, Head(sq[t]))
  BY Handled
<1>3. PICK m : m = Head(sq[t])
  OBVIOUS
<1>4. m \in Msg /\ m.by \in Clients /\ m.type = t /\ m.kind = t
  BY <1>2, <1>3, Received
<1>5. QueuesRight' /\ OutboxRight' /\ StopsLast' /\ QueuesThere'
  BY <1>1, <1>2, ReceiveQueues
<1>6. InitsFirst' /\ SlotsRight' /\ IdsRight' /\ SenderRight' /\ AnswerRight' /\ LeaversTell'
  BY <1>1, <1>2, ReceiveSlots
<1>7. clients' \in [Slots -> Clients \union {NoQueue, BadQueue}]
  BY <1>2, <1>3, <1>4 DEF Typed, TableChanges
<1>8. PICK e : e = [m EXCEPT !.type = "TOALL"]
  OBVIOUS
<1>9. e \in Msg /\ e.type = "TOALL" /\ e.kind = t /\ e.by \in Clients
  BY <1>4, <1>8, TypesAre DEF Msg
<1>10. /\ server' \in {"closing", "receiving", "sending"} /\ feedback' \in Msg
       /\ to' \subseteq Slots
  BY <1>2, <1>3, <1>4, <1>8, <1>9, NothingIs, MessagesTyped, TypesAre DEF Outcome, Registered
<1>11. Typed'
  <2>1. sq' \in [Types -> Seq(Msg)]
    BY <1>2, Received
  <2> QED
    BY <1>1, <1>7, <1>10, <2>1 DEF Typed
<1>12. ServerRight'
  <2>1. CASE server' = "closing" /\ feedback' = Nothing /\ to' \subseteq Slots
    BY <2>1, NothingIs DEF ServerRight, Signed
  <2>2. CASE server' = "receiving" /\ feedback' = Nothing /\ to' = {}
    BY <2>2, NothingIs DEF ServerRight, Signed
  <2>3. ASSUME server' = "sending", NEW i \in Slots, feedback' = Notice("INIT", i), to' = {i}
        PROVE  ServerRight'
    BY <2>3, MessagesTyped, TypesAre DEF ServerRight, Signed
  <2>4. CASE server' = "sending" /\ feedback' = Notice("LIST", 0)
    BY <2>4, MessagesTyped, TypesAre DEF ServerRight, Signed
  <2>5. CASE /\ server' = "sending" /\ t = "TOALL" /\ feedback' = m /\ to' = Registered
             /\ clients' = clients
    BY <1>4, <2>5 DEF ServerRight, Signed, Registered
  <2>6. CASE server' = "sending" /\ t = "TOONE" /\ feedback' = e
    BY <1>9, <2>6 DEF ServerRight, Signed
  <2> QED
    BY <1>2, <1>3, <1>8, <2>1, <2>2, <2>3, <2>4, <2>5, <2>6 DEF Outcome
<1> QED
  BY <1>5, <1>6, <1>11, <1>12

\* When only the server moves, what is said of the others stays.
LEMMA RestStays ==
  ASSUME Base, UNCHANGED <<sq, sq_exists, clients, cq, cq_exists, client, client_id, outbox,
                           accidents>>,
         server' = server \/ server' \in {"closing", "down"}
                  \/ (server' = "receiving" /\ server = "sending")
  PROVE  /\ QueuesRight' /\ OutboxRight' /\ StopsLast' /\ InitsFirst' /\ SlotsRight' /\ IdsRight'
         /\ SenderRight' /\ AnswerRight' /\ QueuesThere' /\ LeaversTell'
<1> USE DEF Base
<1>1. QueuesRight' /\ OutboxRight' /\ QueuesThere'
  BY DEF QueuesRight, SqLength, OutboxRight, QueuesThere
<1>2. IdsKnown' <=> IdsKnown
  BY DEF IdsKnown
<1>3. StopsLast' /\ InitsFirst'
  BY <1>2 DEF StopsLast, InitsFirst, Outside
<1>4. SlotsRight'
  BY <1>2 DEF SlotsRight
<1>5. Pending' = Pending
  BY DEF Pending
<1>6. \A x \in Clients : /\ Active(x)' <=> Active(x)
                         /\ Entering(x)' <=> Entering(x)
                         /\ Leaving(x)' <=> Leaving(x)
                         /\ Announced(x)' <=> Announced(x)
  BY <1>5 DEF Active, Entering, Outside, Leaving, Announced
<1>7. IdsRight' /\ AnswerRight'
  BY <1>2, <1>6 DEF IdsRight, AnswerRight
<1>8. SenderRight'
  BY <1>5 DEF SenderRight
<1>9. LeaversTell'
  BY <1>6 DEF LeaversTell, Harmless
<1> QED
  BY <1>1, <1>3, <1>4, <1>7, <1>8, <1>9

\* The server is interrupted, or a msgsnd of its fails: it begins to end, or is down.
LEMMA EndsBase ==
  ASSUME Base, SendFails \/ sigint_handler
  PROVE  Base'
<1>1. /\ UNCHANGED <<sq, sq_exists, clients, cq, cq_exists, client, client_id, outbox, accidents>>
      /\ server' \in {"closing", "down"} /\ feedback' = Nothing /\ to' \subseteq Slots
      /\ server' = "down" => to' = {}
  <2>1. CASE SendFails
    BY <2>1, NothingIs DEF SendFails, Exits, clientVars, Base, ServerRight
  <2>2. CASE sigint_handler
    BY <2>2, NothingIs DEF sigint_handler, Exits, clientVars
  <2> QED
    BY <2>1, <2>2
<1>2. Typed'
  BY <1>1, NothingIs DEF Base, Typed
<1>3. ServerRight'
  BY <1>1, NothingIs DEF ServerRight, Signed
<1> QED
  BY <1>1, <1>2, <1>3, RestStays DEF Base

\* The server's queue is removed, with all that is in it.
LEMMA RemoveServerQueueBase ==
  ASSUME Base, RemoveServerQueue
  PROVE  Base'
<1> USE DEF Base
<1>1. /\ server = "closing" /\ to = {} /\ server' = "down" /\ sq_exists' = FALSE
      /\ sq' = [t \in Types |-> <<>>]
      /\ UNCHANGED <<clients, feedback, to, cq, cq_exists, client, client_id, outbox, accidents>>
  BY DEF RemoveServerQueue, clientVars
<1>2. \A t \in Types : sq'[t] = <<>> /\ ToSet(sq'[t]) = {} /\ OneEach(sq'[t])
  BY <1>1 DEF ToSet, OneEach
<1>3. \A m : m \notin Pending'
  BY <1>2, PendingThen
<1>4. Typed'
  <2>1. sq' \in [Types -> Seq(Msg)]
    BY <1>1
  <2>2. sq_exists' \in BOOLEAN
    BY <1>1
  <2> QED
    BY <1>1, <2>1, <2>2 DEF Typed
<1>5. QueuesRight'
  <2>1. SqLength' = Total(sq')
    BY DEF SqLength, Total
  <2>2. PICK q : q = sq'
    OBVIOUS
  <2>3. /\ Len(q["STOP"]) = 0 /\ Len(q["LIST"]) = 0 /\ Len(q["TOALL"]) = 0
        /\ Len(q["TOONE"]) = 0 /\ Len(q["INIT"]) = 0
    BY <1>2, <2>2, TypesAre
  <2>4. Total(q) = 0
    BY <2>3 DEF Total
  <2>5. SqLength' <= QueueMax
    BY <2>1, <2>2, <2>4
  <2> QED
    BY <1>1, <1>2, <2>5 DEF QueuesRight
<1>6. ServerRight'
  BY <1>1 DEF ServerRight, Registered
<1>7. OutboxRight' /\ QueuesThere'
  BY <1>1 DEF OutboxRight, QueuesThere
<1>8. StopsLast' /\ InitsFirst'
  BY <1>1, <1>2, TypesAre DEF StopsLast, InitsFirst, Outside
<1>9. SlotsRight'
  BY <1>1 DEF SlotsRight, IdsKnown
<1>10. IdsRight'
  <2>1. \A x \in Clients : Active(x)' => Active(x)
    BY <1>1, <1>3 DEF Active, Announced
  <2> QED
    BY <1>1, <2>1 DEF IdsRight, IdsKnown
<1>11. SenderRight'
  BY <1>3 DEF SenderRight
<1>12. AnswerRight'
  BY <1>1 DEF AnswerRight, IdsKnown, Entering, Outside
<1>13. LeaversTell'
  BY <1>1 DEF LeaversTell, Harmless
<1> QED
  BY <1>4, <1>5, <1>6, <1>7, <1>8, <1>9, <1>10, <1>11, <1>12, <1>13

\* What one msgsnd of the server does: the client of the next slot gets the message.
LEMMA OneSent ==
  ASSUME Base, SendOne
  PROVE  \E i \in to, c \in Clients :
           /\ i \in Slots /\ clients[i] = c
           /\ Len(cq[c]) < QueueMax
           /\ cq' = [cq EXCEPT ![c] = Append(@, feedback)]
           /\ to' = to \ {i}
<1>1. PICK i : i = Min(to)
  OBVIOUS
<1>2. i \in to /\ i \in Slots
  <2>1. to \in SUBSET Nat /\ to # {}
    BY DEF SendOne, Base, Typed, Slots
  <2> QED
    BY <1>1, <2>1, MinMember DEF Base, Typed
<1>3. /\ clients[i] \in Clients /\ Len(cq[clients[i]]) < QueueMax
      /\ cq' = [cq EXCEPT ![clients[i]] = Append(@, feedback)]
      /\ to' = to \ {i}
  BY <1>1 DEF SendOne, Reachable
<1> QED
  BY <1>2, <1>3

\* The server sends its line to one of those who have yet to get it.
LEMMA SendOneBase ==
  ASSUME Base, SendOne
  PROVE  Base'
<1> USE DEF Base
<1>1. PICK i \in to, c \in Clients :
        /\ i \in Slots /\ clients[i] = c
        /\ Len(cq[c]) < QueueMax
        /\ cq' = [cq EXCEPT ![c] = Append(@, feedback)]
        /\ to' = to \ {i}
  BY OneSent
<1>2. /\ UNCHANGED <<sq, sq_exists, clients, cq_exists, client, client_id, outbox, accidents>>
      /\ \/ server = "sending" /\ to' = {} /\ server' = "receiving" /\ feedback' = Nothing
         \/ ~ (server = "sending" /\ to' = {}) /\ server' = server /\ feedback' = feedback
  BY DEF SendOne, clientVars
<1>3. feedback \in Msg /\ cq[c] \in Seq(Msg)
  BY DEF Typed
<1>4. PICK q : q = Append(cq[c], feedback)
  OBVIOUS
<1>5. q \in Seq(Msg) /\ Len(q) = Len(cq[c]) + 1 /\ ToSet(q) = ToSet(cq[c]) \union {feedback}
  BY <1>3, <1>4, AppendSet
<1>6. Len(cq[c]) \in Nat
  BY <1>3
<1>7. \A x \in Clients : cq'[x] = IF x = c THEN q ELSE cq[x]
  BY <1>1, <1>4 DEF Typed
<1>8. IdsKnown' <=> IdsKnown
  BY <1>2 DEF IdsKnown
<1>9. Typed'
  <2>1. cq' \in [Clients -> Seq(Msg)]
    BY <1>1, <1>4, <1>5 DEF Typed
  <2>2. feedback' \in Msg /\ server' \in {"receiving", "sending", "closing", "down"}
    BY <1>2, NothingIs DEF Typed
  <2>3. to' \subseteq Slots
    BY <1>1 DEF Typed
  <2> QED
    BY <1>2, <2>1, <2>2, <2>3 DEF Typed
<1>10. QueuesRight'
  <2>1. \A t \in Types : \A m \in ToSet(sq'[t]) : m.type = t /\ m.kind = t /\ m.by \in Clients
    BY <1>2 DEF QueuesRight
  <2>2. \A m \in ToSet(q) : Signed(m)
    BY <1>5 DEF QueuesRight, ServerRight
  <2>3. \A x \in Clients : \A m \in ToSet(cq'[x]) : Signed(m)
    BY <1>7, <2>2 DEF QueuesRight
  <2>4. SqLength' <= QueueMax
    BY <1>2 DEF SqLength, QueuesRight
  <2>5. Len(q) <= QueueMax
    BY <1>1, <1>5, <1>6
  <2>6. \A x \in Clients : Len(cq'[x]) <= QueueMax
    BY <1>7, <2>5 DEF QueuesRight
  <2> QED
    BY <2>1, <2>3, <2>4, <2>6 DEF QueuesRight
<1>11. ServerRight'
  <2>1. CASE server' = "receiving" /\ feedback' = Nothing /\ to' = {}
    BY <2>1, NothingIs DEF ServerRight, Signed
  <2>2. CASE ~ (server = "sending" /\ to' = {}) /\ server' = server /\ feedback' = feedback
    <3>1. feedback.type # "INIT"
      BY <1>1, <2>2, NothingIs DEF ServerRight, Typed
    <3> QED
      BY <1>1, <1>2, <2>2, <3>1 DEF ServerRight, Signed, Registered
  <2> QED
    BY <1>2, <2>1, <2>2
<1>12. OutboxRight' /\ QueuesThere'
  BY <1>2 DEF OutboxRight, QueuesThere
<1>13. StopsLast' /\ InitsFirst'
  BY <1>2 DEF StopsLast, InitsFirst, Outside, IdsKnown
<1>14. SlotsRight'
  BY <1>2, <1>8 DEF SlotsRight
<1>15. Pending' = Pending
  BY <1>2 DEF Pending
<1>16. IdsRight' /\ SenderRight' /\ LeaversTell'
  <2>1. \A x \in Clients : /\ Active(x)' <=> Active(x)
                           /\ Leaving(x)' <=> Leaving(x)
                           /\ Announced(x)' <=> Announced(x)
    BY <1>2, <1>15 DEF Active, Leaving, Announced
  <2>2. IdsRight'
    BY <1>2, <1>8, <2>1 DEF IdsRight
  <2>3. SenderRight'
    BY <1>2, <1>15 DEF SenderRight
  <2>4. LeaversTell'
    BY <1>2, <2>1 DEF LeaversTell, Harmless
  <2> QED
    BY <2>2, <2>3, <2>4
<1>17. AnswerRight'
  <2> SUFFICES ASSUME IdsKnown, NEW x \in Clients, Entering(x),
                      NEW m \in ToSet(cq'[x]), m.type = "INIT"
               PROVE  clients[m.receiver_id] = x
    BY <1>2, <1>8 DEF AnswerRight, Entering, Outside
  <2>1. CASE m \in ToSet(cq[x])
    BY <2>1 DEF AnswerRight
  <2>2. CASE m \notin ToSet(cq[x])
    <3>1. x = c /\ m = feedback
      BY <1>5, <1>7, <2>2
    <3> QED
      BY <1>1, <3>1 DEF ServerRight
  <2> QED
    BY <2>1, <2>2
<1> QED
  BY <1>9, <1>10, <1>11, <1>12, <1>13, <1>14, <1>16, <1>17

-----------------------------------------------------------------------------
(* The clients, and the slots. *)

\* A client goes to another place, with m to send, q for its queue, e if that exists.
Becomes(c, at, m, q, e) ==
  /\ client' = [client EXCEPT ![c] = at]
  /\ outbox' = [outbox EXCEPT ![c] = m]
  /\ cq' = [cq EXCEPT ![c] = q]
  /\ cq_exists' = [cq_exists EXCEPT ![c] = e]
  /\ UNCHANGED <<sq, sq_exists, clients, server, feedback, to, client_id>>

\* A client that sends nothing, and whose id stays, keeps Base if it becomes neither
\* active nor new, and leaves only where nobody cares.
LEMMA ClientMoves ==
  ASSUME Base, NEW c \in Clients, NEW at \in Places \ {"initializing"}, NEW m \in Msg,
         NEW q \in Seq(Msg), NEW e \in BOOLEAN,
         Becomes(c, at, m, q, e),
         ToSet(q) \subseteq ToSet(cq[c]), Len(q) <= QueueMax,
         accidents \subseteq accidents',
         client[c] \in {"exiting", "gone"} => at \in {"exiting", "gone"},
         at = "submitting" =>
           m.by = c /\ m.kind = m.type /\ (m.type # "INIT" => m.sender_id = client_id[c]),
         IdsKnown' => client[c] # "initializing",
         IdsKnown' /\ Active(c)' => Active(c),
         Outside(c)' => Outside(c),
         at \notin {"starting", "gone"} => e,
         Harmless' /\ Leaving(c)' => Leaving(c)
  PROVE  Base'
<1> USE DEF Base
<1>1. /\ \A x \in Clients : client'[x] = IF x = c THEN at ELSE client[x]
      /\ \A x \in Clients : outbox'[x] = IF x = c THEN m ELSE outbox[x]
      /\ \A x \in Clients : cq'[x] = IF x = c THEN q ELSE cq[x]
      /\ \A x \in Clients : cq_exists'[x] = IF x = c THEN e ELSE cq_exists[x]
      /\ UNCHANGED <<sq, sq_exists, clients, server, feedback, to, client_id>>
  BY DEF Becomes, Typed
<1>2. (IdsKnown' => IdsKnown) /\ (Harmless' => Harmless)
  BY <1>1 DEF IdsKnown, Harmless
<1>3. Typed'
  <2>1. client' = [client EXCEPT ![c] = at] /\ outbox' = [outbox EXCEPT ![c] = m]
    BY DEF Becomes
  <2>2. cq' = [cq EXCEPT ![c] = q] /\ cq_exists' = [cq_exists EXCEPT ![c] = e]
    BY DEF Becomes
  <2>3. client' \in [Clients -> Places] /\ outbox' \in [Clients -> Msg]
    BY <2>1 DEF Typed
  <2>4. cq' \in [Clients -> Seq(Msg)]
    BY <2>2 DEF Typed
  <2>5. cq_exists' \in [Clients -> BOOLEAN]
    BY <2>2 DEF Typed
  <2> QED
    BY <1>1, <2>3, <2>4, <2>5 DEF Typed
<1>4. QueuesRight'
  <2>1. \A t \in Types : \A n \in ToSet(sq'[t]) : n.type = t /\ n.kind = t /\ n.by \in Clients
    BY <1>1 DEF QueuesRight
  <2>2. \A x \in Clients : \A n \in ToSet(cq'[x]) : Signed(n)
    BY <1>1 DEF QueuesRight
  <2>3. SqLength' <= QueueMax
    BY <1>1 DEF SqLength, QueuesRight
  <2>4. \A x \in Clients : Len(cq'[x]) <= QueueMax
    BY <1>1 DEF QueuesRight
  <2> QED
    BY <2>1, <2>2, <2>3, <2>4 DEF QueuesRight
<1>5. ServerRight'
  BY <1>1 DEF ServerRight, Registered
<1>6. OutboxRight'
  BY <1>1 DEF OutboxRight
<1>7. \A t \in Types : \A n \in ToSet(sq[t]) : n.by \in Clients
  BY DEF QueuesRight
<1>8. StopsLast'
  BY <1>1, <1>2, <1>7, TypesAre DEF StopsLast
<1>9. \A x \in Clients \ {c} : /\ Active(x)' <=> Active(x)
                               /\ Outside(x)' <=> Outside(x)
                               /\ Entering(x)' <=> Entering(x)
                               /\ Leaving(x)' <=> Leaving(x)
  BY <1>1 DEF Active, Announced, Pending, Outside, Entering, Leaving
<1>10. Entering(c)' => Entering(c)
  BY <1>1 DEF Entering
<1>11. Pending' = Pending /\ (\A x : Announced(x)' <=> Announced(x))
  BY <1>1 DEF Pending, Announced
<1>12. InitsFirst'
  <2>1. \A x \in Clients : Outside(x)' =>
          /\ \A i \in Slots : clients'[i] # x
          /\ \A n \in ToSet(sq'["INIT"]) : n.by # x
    BY <1>1, <1>9 DEF InitsFirst
  <2>2. \A n \in ToSet(sq'["INIT"]) :
          /\ \A i \in Slots : clients'[i] # n.by
          /\ IdsKnown' => client'[n.by] = "initializing"
    BY <1>1, <1>2, <1>7, TypesAre DEF InitsFirst
  <2> QED
    BY <1>1, <2>1, <2>2 DEF InitsFirst
<1>13. SlotsRight'
  BY <1>1, <1>2 DEF SlotsRight
<1>14. IdsRight'
  BY <1>1, <1>2, <1>9 DEF IdsRight
<1>15. SenderRight'
  BY <1>1, <1>2, <1>11 DEF SenderRight, IdsKnown
<1>16. AnswerRight'
  BY <1>1, <1>2, <1>9, <1>10 DEF AnswerRight
<1>17. QueuesThere'
  BY <1>1 DEF QueuesThere
<1>18. LeaversTell'
  BY <1>1, <1>2, <1>9, <1>11 DEF LeaversTell
<1> QED
  BY <1>3, <1>4, <1>5, <1>6, <1>8, <1>12, <1>13, <1>14, <1>15, <1>16, <1>17, <1>18

\* The same for a client of which the queue stays.
LEMMA ClientStands ==
  ASSUME Base, NEW c \in Clients, NEW at \in Places \ {"starting", "initializing"},
         NEW m \in Msg,
         client' = [client EXCEPT ![c] = at], outbox' = [outbox EXCEPT ![c] = m],
         UNCHANGED <<sq, sq_exists, clients, server, feedback, to, cq, cq_exists, client_id>>
  PROVE  /\ client'[c] = at /\ outbox'[c] = m /\ cq[c] \in Seq(Msg) /\ Len(cq[c]) <= QueueMax
         /\ Becomes(c, at, m, cq[c], cq_exists[c]) /\ cq_exists[c] \in BOOLEAN
         /\ Announced(c)' <=> Announced(c)
<1>1. cq' = [cq EXCEPT ![c] = cq[c]] /\ cq_exists' = [cq_exists EXCEPT ![c] = cq_exists[c]]
  BY DEF Base, Typed
<1>2. cq_exists[c] \in BOOLEAN
  BY DEF Base, Typed
<1>3. Announced(c)' <=> Announced(c)
  BY DEF Announced, Pending
<1>4. Becomes(c, at, m, cq[c], cq_exists[c])
  BY <1>1 DEF Becomes
<1>5. client'[c] = at /\ outbox'[c] = m /\ cq[c] \in Seq(Msg) /\ Len(cq[c]) <= QueueMax
  BY DEF Base, Typed, QueuesRight
<1> QED
  BY <1>2, <1>3, <1>4, <1>5

\* What send_stop prepares.
LEMMA StopPrepared ==
  ASSUME Base, NEW c \in Clients, send_stop(c)
  PROVE  \E m \in Msg :
           /\ m.type = "STOP" /\ m.kind = m.type /\ m.by = c /\ m.sender_id = client_id[c]
           /\ client' = [client EXCEPT ![c] = "submitting"]
           /\ outbox' = [outbox EXCEPT ![c] = m]
<1>1. PICK i \in Slots : i = client_id[c]
  BY DEF Base, Typed
<1>2. PICK m : m = Message("STOP", i, 0, c, 0)
  OBVIOUS
<1>3. m \in Msg /\ m.type = "STOP" /\ m.kind = m.type /\ m.by = c /\ m.sender_id = client_id[c]
  BY <1>1, <1>2, TypesAre, MessagesTyped
<1>4. client' = [client EXCEPT ![c] = "submitting"] /\ outbox' = [outbox EXCEPT ![c] = m]
  BY <1>1, <1>2 DEF send_stop, Submits, ClientGoes
<1> QED
  BY <1>3, <1>4

\* A client names its queue and has its INIT to send.
LEMMA StartBase ==
  ASSUME Base, NEW c \in Clients, Start(c)
  PROVE  Base'
<1>1. PICK m : m = Message("INIT", 0, 0, c, 0)
  OBVIOUS
<1>2. m \in Msg /\ m.type = "INIT" /\ m.kind = m.type /\ m.by = c
  BY <1>1, TypesAre, MessagesTyped
<1>3. /\ client[c] = "starting" /\ cq_exists' = [cq_exists EXCEPT ![c] = TRUE]
      /\ client' = [client EXCEPT ![c] = "submitting"] /\ outbox' = [outbox EXCEPT ![c] = m]
      /\ UNCHANGED <<sq, sq_exists, clients, server, feedback, to, cq, client_id, accidents>>
  BY <1>1 DEF Start, Submits, ClientGoes, serverVars
<1>4. cq' = [cq EXCEPT ![c] = cq[c]] /\ cq[c] \in Seq(Msg) /\ Len(cq[c]) <= QueueMax
  BY <1>3 DEF Base, Typed, QueuesRight
<1>5. Becomes(c, "submitting", m, cq[c], TRUE)
  BY <1>3, <1>4 DEF Becomes
<1>6. client'[c] = "submitting" /\ outbox'[c] = m
  BY <1>3 DEF Base, Typed
<1>7. Announced(c)' <=> Announced(c)
  BY <1>3 DEF Announced, Pending
<1>8. (Active(c)' => Active(c)) /\ Outside(c) /\ ~Leaving(c)'
  BY <1>2, <1>3, <1>6, <1>7 DEF Active, Outside, Leaving
<1>9. "submitting" \in Places \ {"initializing"}
  BY DEF Places
<1> QED
  BY <1>2, <1>3, <1>4, <1>5, <1>8, <1>9, ClientMoves

\* A client that goes somewhere, its queue staying as it is.
LEMMA StandingBase ==
  ASSUME Base, NEW c \in Clients, NEW at \in Places \ {"starting", "initializing"},
         NEW m \in Msg,
         client' = [client EXCEPT ![c] = at], outbox' = [outbox EXCEPT ![c] = m],
         UNCHANGED <<sq, sq_exists, clients, server, feedback, to, cq, cq_exists, client_id>>,
         accidents \subseteq accidents',
         client[c] \notin {"starting", "exiting", "gone"},
         IdsKnown' => client[c] # "initializing",
         at \in {"submitting", "exiting", "gone"},
         IdsKnown' /\ at = "submitting" => ~Outside(c),
         at = "submitting" => m.type # "INIT" /\ m.kind = m.type /\ m.by = c
                              /\ m.sender_id = client_id[c],
         at = "exiting" => ~Harmless'
  PROVE  Base'
<1>1. /\ client'[c] = at /\ outbox'[c] = m /\ cq[c] \in Seq(Msg) /\ Len(cq[c]) <= QueueMax
      /\ Becomes(c, at, m, cq[c], cq_exists[c]) /\ cq_exists[c] \in BOOLEAN
  BY ClientStands, ZenonT(60)
<1>2. cq_exists[c] = TRUE /\ cq_exists'[c] = cq_exists[c]
  BY <1>1 DEF Base, QueuesThere
<1>3. IdsKnown' /\ Active(c)' => Active(c)
  <2>1. client[c] \in Places
    BY DEF Base, Typed
  <2>2. client[c] = "submitting" => outbox[c].kind = outbox[c].type
    BY DEF Base, OutboxRight
  <2>3. IdsKnown' /\ at = "submitting" => Active(c)
    BY <2>1, <2>2 DEF Places, Active, Outside
  <2>4. at # "submitting" => (Active(c)' <=> Announced(c)')
    BY <1>1 DEF Active
  <2>5. Announced(c)' <=> Announced(c)
    BY DEF Announced, Pending
  <2> QED
    BY <2>3, <2>4, <2>5 DEF Active
<1>4. ~Outside(c)'
  BY <1>1 DEF Outside
<1>5. Harmless' => ~Leaving(c)'
  BY <1>1, <1>2 DEF Leaving
<1> QED
  BY <1>1, <1>2, <1>3, <1>4, <1>5, ClientMoves

\* A user enters a line: what it asks for goes out under the client's id.
LEMMA Commanded ==
  ASSUME Base, NEW c \in Clients, lines[c] \in Nat, Command(c)
  PROVE  \E m \in Msg :
           /\ m.type \in {"LIST", "TOALL", "TOONE"} /\ m.kind = m.type /\ m.by = c
           /\ m.sender_id = client_id[c] /\ m.line = lines'[c]
           /\ client[c] = "looping"
           /\ client' = [client EXCEPT ![c] = "submitting"]
           /\ outbox' = [outbox EXCEPT ![c] = m]
           /\ lines' = [lines EXCEPT ![c] = lines[c] + 1]
           /\ UNCHANGED <<sq, sq_exists, clients, server, feedback, to, cq, cq_exists, client_id,
                          shown, accidents>>
<1>1. /\ Idle(c) /\ lines' = [lines EXCEPT ![c] = lines[c] + 1]
      /\ \/ \E type \in {"LIST", "TOALL"} :
              Submits(c, Message(type, client_id[c], 0, c, lines'[c]))
         \/ \E i \in Slots : Submits(c, Message("TOONE", client_id[c], i, c, lines'[c]))
      /\ UNCHANGED <<sq, sq_exists, serverVars, cq, cq_exists, client_id, shown, accidents>>
  BY DEF Command
<1>2. /\ client_id[c] \in Slots /\ 0 \in Slots /\ lines'[c] \in Nat
      /\ {"LIST", "TOALL", "TOONE"} \subseteq Types
  <2>1. lines'[c] \in Nat
    BY <1>1
  <2> QED
    BY <2>1, TypesAre, MessagesTyped DEF Base, Typed
<1>3. PICK type \in {"LIST", "TOALL", "TOONE"}, i \in Slots :
        Submits(c, Message(type, client_id[c], i, c, lines'[c]))
  BY <1>1, <1>2
<1>4. PICK n \in Nat : n = lines'[c]
  BY <1>2
<1>5. PICK j \in Slots : j = client_id[c]
  BY <1>2
<1>6. Message(type, j, i, c, n) \in Msg
  <2>1. type \in Types
    BY <1>2
  <2> QED
    BY <2>1, MessagesTyped
<1>7. PICK m \in Msg : m = Message(type, j, i, c, n)
  BY <1>6
<1>8. /\ m.type \in {"LIST", "TOALL", "TOONE"} /\ m.kind = m.type /\ m.by = c
      /\ m.sender_id = client_id[c] /\ m.line = n
  BY <1>2, <1>5, <1>7, MessagesTyped
<1>9. client' = [client EXCEPT ![c] = "submitting"] /\ outbox' = [outbox EXCEPT ![c] = m]
  BY <1>3, <1>4, <1>5, <1>7 DEF Submits, ClientGoes
<1> QED
  BY <1>1, <1>4, <1>8, <1>9 DEF Idle, serverVars

\* A client reads LIST, 2ALL or 2ONE from its input.
LEMMA CommandBase ==
  ASSUME Base, NEW c \in Clients, lines[c] \in Nat, Command(c)
  PROVE  Base'
<1>1. PICK m \in Msg :
        /\ m.type \in {"LIST", "TOALL", "TOONE"} /\ m.kind = m.type /\ m.by = c
        /\ m.sender_id = client_id[c] /\ m.line = lines'[c]
        /\ client[c] = "looping"
        /\ client' = [client EXCEPT ![c] = "submitting"]
        /\ outbox' = [outbox EXCEPT ![c] = m]
        /\ lines' = [lines EXCEPT ![c] = lines[c] + 1]
        /\ UNCHANGED <<sq, sq_exists, clients, server, feedback, to, cq, cq_exists, client_id,
                       shown, accidents>>
  BY Commanded
<1>2. ~Outside(c) /\ "submitting" \in Places
  BY <1>1 DEF Outside, Places
<1> QED
  BY <1>1, <1>2, StandingBase

\* A client is going to leave, whether it has an id or not.
LEMMA StopBase ==
  ASSUME Base, NEW c \in Clients, Stop(c) \/ SigintEarly(c) \/ SigintListing(c)
  PROVE  Base'
<1>1. /\ send_stop(c) /\ accidents \subseteq accidents'
      /\ UNCHANGED <<sq, sq_exists, clients, server, feedback, to, cq, cq_exists, client_id>>
  BY DEF Stop, SigintEarly, SigintListing, Happens, serverVars
<1>2. PICK m \in Msg :
        /\ m.type = "STOP" /\ m.kind = m.type /\ m.by = c /\ m.sender_id = client_id[c]
        /\ client' = [client EXCEPT ![c] = "submitting"]
        /\ outbox' = [outbox EXCEPT ![c] = m]
  BY <1>1, StopPrepared
<1>3. client[c] \in {"initializing", "looping", "listing", "submitting"}
  BY DEF Stop, SigintEarly, SigintListing
<1>4. IdsKnown' => client[c] # "initializing" /\ ~Outside(c)
  <2>1. CASE Stop(c)
    BY <2>1 DEF Stop, Base, OutboxRight, Outside
  <2>2. CASE SigintEarly(c)
    BY <2>2 DEF SigintEarly, Happens, IdsKnown
  <2>3. CASE SigintListing(c)
    BY <2>3 DEF SigintListing, Outside
  <2> QED
    BY <2>1, <2>2, <2>3
<1>5. "submitting" \in Places
  BY DEF Places
<1> QED
  BY <1>1, <1>2, <1>3, <1>4, <1>5, StandingBase

\* A client ends without a STOP: its input is at an end, it crashes, or its msgsnd fails.
LEMMA LeavesBase ==
  ASSUME Base, NEW c \in Clients, EndOfInput(c) \/ BlankLine(c) \/ MsgsndFails(c)
  PROVE  Base'
<1>1. /\ accidents \subseteq accidents'
      /\ UNCHANGED <<sq, sq_exists, clients, server, feedback, to, cq, cq_exists, client_id>>
  BY DEF EndOfInput, BlankLine, MsgsndFails, Happens, serverVars
<1>2. PICK at \in {"exiting", "gone"} :
        /\ client' = [client EXCEPT ![c] = at]
        /\ at = "exiting" => ~Harmless'
        /\ client[c] \in {"looping", "submitting"}
  <2>1. CASE EndOfInput(c)
    BY <2>1 DEF EndOfInput, Idle, Happens, ClientGoes, Harmless
  <2>2. CASE BlankLine(c)
    BY <2>2 DEF BlankLine, Idle, ClientGoes
  <2>3. CASE MsgsndFails(c)
    BY <2>3 DEF MsgsndFails, ClientGoes, Harmless
  <2> QED
    BY <2>1, <2>2, <2>3
<1>3. PICK m \in Msg : outbox' = [outbox EXCEPT ![c] = m]
  <2>1. outbox[c] \in Msg /\ outbox = [outbox EXCEPT ![c] = outbox[c]]
    BY DEF Base, Typed
  <2> QED
    BY <2>1, NothingIs DEF EndOfInput, BlankLine, MsgsndFails
<1>4. at \in Places \ {"starting", "initializing"}
  BY DEF Places
<1> QED
  BY <1>1, <1>2, <1>3, <1>4, StandingBase

\* What a client takes out of its queue: the others stay, in their order.
LEMMA Taking ==
  ASSUME Base, NEW c \in Clients, NEW type, NEW m, Takes(c, type, m)
  PROVE  \E q \in Seq(Msg) :
           /\ cq' = [cq EXCEPT ![c] = q] /\ m \in ToSet(cq[c]) /\ m \in Msg /\ m.type = type
           /\ Kept(cq[c], q) /\ ToSet(q) \subseteq ToSet(cq[c]) /\ Len(q) <= QueueMax
<1>1. PICK i \in DOMAIN cq[c] :
        /\ cq[c][i] = m /\ m.type = type
        /\ cq' = [cq EXCEPT ![c] = RemoveAt(@, i)]
  BY DEF Takes
<1>2. cq[c] \in Seq(Msg) /\ Len(cq[c]) \in Nat /\ Len(cq[c]) <= QueueMax
  BY DEF Base, Typed, QueuesRight
<1>3. PICK q : q = RemoveAt(cq[c], i)
  OBVIOUS
<1>4. q \in Seq(Msg) /\ Len(q) <= Len(cq[c]) /\ Kept(cq[c], q)
  BY <1>2, <1>3, RemoveKept
<1>5. ToSet(q) \subseteq ToSet(cq[c])
  BY <1>4, KeptSet
<1>6. m \in ToSet(cq[c]) /\ m \in Msg
  BY <1>1, <1>2 DEF ToSet
<1>7. Len(q) \in Nat /\ Len(q) <= QueueMax
  BY <1>2, <1>4
<1> QED
  BY <1>1, <1>3, <1>4, <1>5, <1>6, <1>7

\* A client that asked for the list takes it.
LEMMA ListedBase ==
  ASSUME Base, NEW c \in Clients, Listed(c)
  PROVE  Base'
<1>1. PICK q \in Seq(Msg) :
        /\ cq' = [cq EXCEPT ![c] = q]
        /\ ToSet(q) \subseteq ToSet(cq[c]) /\ Len(q) <= QueueMax
  BY Taking DEF Listed
<1>2. /\ client[c] = "listing" /\ client' = [client EXCEPT ![c] = "looping"]
      /\ UNCHANGED <<sq, sq_exists, clients, server, feedback, to, cq_exists, client_id, outbox,
                     accidents>>
  BY DEF Listed, ClientGoes, serverVars
<1>3. PICK m \in Msg, e \in BOOLEAN : m = outbox[c] /\ e = cq_exists[c]
  BY DEF Base, Typed
<1>4. Becomes(c, "looping", m, q, e)
  BY <1>1, <1>2, <1>3 DEF Becomes, Base, Typed
<1>5. client'[c] = "looping"
  BY <1>2 DEF Base, Typed
<1>6. e
  BY <1>2, <1>3 DEF Base, QueuesThere
<1>7. Active(c) /\ ~Outside(c)' /\ ~Leaving(c)'
  BY <1>2, <1>5 DEF Active, Outside, Leaving
<1>8. "looping" \in Places \ {"initializing"}
  BY DEF Places
<1> QED
  BY <1>1, <1>2, <1>4, <1>6, <1>7, <1>8, ClientMoves

\* A client finds a message in its loop; after a STOP it is going to leave.
LEMMA ReadBase ==
  ASSUME Base, NEW c \in Clients, Read(c)
  PROVE  Base'
<1>1. PICK q : q = Tail(cq[c])
  OBVIOUS
<1>2. cq[c] # <<>> /\ cq' = [cq EXCEPT ![c] = q]
  BY <1>1 DEF Read
<1>3. cq[c] \in Seq(Msg) /\ Len(cq[c]) <= QueueMax
  BY DEF Base, Typed, QueuesRight
<1>4. /\ q \in Seq(Msg) /\ ToSet(q) \subseteq ToSet(cq[c]) /\ Len(q) = Len(cq[c]) - 1
      /\ Len(cq[c]) \in Nat
  BY <1>1, <1>2, <1>3, TailKept
<1>5. Len(q) <= QueueMax
  BY <1>3, <1>4
<1>6. /\ client[c] = "looping"
      /\ UNCHANGED <<sq, sq_exists, clients, server, feedback, to, cq_exists, client_id, accidents>>
      /\ send_stop(c) \/ UNCHANGED <<client, outbox>>
  BY DEF Read, serverVars
<1>7. PICK e \in BOOLEAN : e = cq_exists[c]
  BY DEF Base, Typed
<1>8. e
  BY <1>6, <1>7 DEF Base, QueuesThere
<1>9. Active(c)
  BY <1>6 DEF Active
<1>10. {"looping", "submitting"} \subseteq Places \ {"initializing"}
  BY DEF Places
<1>11. CASE send_stop(c)
  <2>1. PICK m \in Msg :
          /\ m.type = "STOP" /\ m.kind = m.type /\ m.by = c /\ m.sender_id = client_id[c]
          /\ client' = [client EXCEPT ![c] = "submitting"]
          /\ outbox' = [outbox EXCEPT ![c] = m]
    BY <1>11, StopPrepared
  <2>2. Becomes(c, "submitting", m, q, e)
    BY <1>2, <1>6, <1>7, <2>1 DEF Becomes, Base, Typed
  <2>3. client'[c] = "submitting" /\ outbox'[c] = m
    BY <2>1 DEF Base, Typed
  <2>4. ~Outside(c)' /\ ~Leaving(c)'
    BY <2>1, <2>3 DEF Outside, Leaving
  <2> QED
    BY <1>4, <1>5, <1>6, <1>8, <1>9, <1>10, <2>1, <2>2, <2>4, ClientMoves
<1>12. CASE UNCHANGED <<client, outbox>>
  <2>1. PICK m \in Msg : m = outbox[c]
    BY DEF Base, Typed
  <2>2. Becomes(c, "looping", m, q, e)
    BY <1>2, <1>6, <1>7, <1>12, <2>1 DEF Becomes, Base, Typed
  <2>3. ~Outside(c)' /\ ~Leaving(c)'
    BY <1>6, <1>12 DEF Outside, Leaving
  <2> QED
    BY <1>4, <1>5, <1>6, <1>8, <1>9, <1>10, <2>1, <2>2, <2>3, ClientMoves
<1> QED
  BY <1>6, <1>11, <1>12

\* A client removes its queue, with all that is in it.
LEMMA RemoveQueueBase ==
  ASSUME Base, NEW c \in Clients, RemoveQueue(c)
  PROVE  Base'
<1>1. /\ client[c] = "exiting" /\ client' = [client EXCEPT ![c] = "gone"]
      /\ cq_exists' = [cq_exists EXCEPT ![c] = FALSE]
      /\ cq' = [cq EXCEPT ![c] = <<>>]
      /\ UNCHANGED <<sq, sq_exists, clients, server, feedback, to, client_id, outbox, accidents>>
  BY DEF RemoveQueue, ClientGoes, serverVars
<1>2. PICK m \in Msg : m = outbox[c]
  BY DEF Base, Typed
<1>3. PICK q \in Seq(Msg) : q = <<>>
  <2>1. <<>> \in Seq(Msg)
    OBVIOUS
  <2> QED
    BY <2>1
<1>4. ToSet(q) \subseteq ToSet(cq[c]) /\ Len(q) <= QueueMax
  <2>1. Len(q) = 0 /\ ToSet(q) = {}
    BY <1>3 DEF ToSet
  <2> QED
    BY <2>1, ChatAssumption
<1>5. Becomes(c, "gone", m, q, FALSE)
  BY <1>1, <1>2, <1>3 DEF Becomes, Base, Typed
<1>6. client'[c] = "gone" /\ (Announced(c)' <=> Announced(c))
  BY <1>1 DEF Base, Typed, Announced, Pending
<1>7. /\ (Active(c)' => Active(c)) /\ ~Outside(c)' /\ Leaving(c)
      /\ "gone" \in Places \ {"initializing"}
  BY <1>1, <1>6 DEF Active, Outside, Leaving, Places
<1> QED
  BY <1>1, <1>4, <1>5, <1>7, ClientMoves


\* A client that has got its id has the slot of that number.
LEMMA InitializedBase ==
  ASSUME Base, NEW c \in Clients, Initialized(c)
  PROVE  Base'
<1> USE DEF Base
<1>1. PICK m : /\ Takes(c, "INIT", m)
               /\ client_id' = [client_id EXCEPT ![c] = m.receiver_id]
  BY DEF Initialized
<1>2. PICK q \in Seq(Msg) :
        /\ cq' = [cq EXCEPT ![c] = q] /\ m \in ToSet(cq[c]) /\ m \in Msg /\ m.type = "INIT"
        /\ ToSet(q) \subseteq ToSet(cq[c]) /\ Len(q) <= QueueMax
  BY <1>1, Taking
<1>3. PICK id \in Slots : id = m.receiver_id
  BY <1>2, MsgFields
<1>4. /\ client[c] = "initializing" /\ client' = [client EXCEPT ![c] = "looping"]
      /\ UNCHANGED <<sq, sq_exists, clients, server, feedback, to, cq_exists, outbox, accidents>>
  BY DEF Initialized, ClientGoes, serverVars
<1>5. client_id' = [client_id EXCEPT ![c] = id]
  BY <1>1, <1>3
<1>6. /\ \A x \in Clients : client'[x] = IF x = c THEN "looping" ELSE client[x]
      /\ \A x \in Clients : client_id'[x] = IF x = c THEN id ELSE client_id[x]
      /\ \A x \in Clients : cq'[x] = IF x = c THEN q ELSE cq[x]
  BY <1>2, <1>4, <1>5 DEF Typed
<1>7. Entering(c) /\ ~Entering(c)' /\ ~Outside(c)' /\ ~Outside(c) /\ ~Leaving(c)'
  BY <1>4, <1>6 DEF Entering, Outside, Leaving
<1>8. (IdsKnown' <=> IdsKnown) /\ (Harmless' <=> Harmless)
  BY <1>4 DEF IdsKnown, Harmless
<1>9. IdsKnown => clients[id] = c
  BY <1>2, <1>3, <1>7 DEF AnswerRight
<1>10. Typed'
  <2>1. client' \in [Clients -> Places]
    BY <1>4 DEF Typed, Places
  <2>2. client_id' \in [Clients -> Slots]
    BY <1>5 DEF Typed
  <2>3. cq' \in [Clients -> Seq(Msg)]
    BY <1>2 DEF Typed
  <2> QED
    BY <1>4, <2>1, <2>2, <2>3 DEF Typed
<1>11. QueuesRight'
  <2>1. \A t \in Types : \A n \in ToSet(sq'[t]) : n.type = t /\ n.kind = t /\ n.by \in Clients
    BY <1>4 DEF QueuesRight
  <2>2. \A x \in Clients : \A n \in ToSet(cq'[x]) : Signed(n)
    BY <1>2, <1>6 DEF QueuesRight
  <2>3. SqLength' <= QueueMax
    BY <1>4 DEF SqLength, QueuesRight
  <2>4. \A x \in Clients : Len(cq'[x]) <= QueueMax
    BY <1>2, <1>6 DEF QueuesRight
  <2> QED
    BY <2>1, <2>2, <2>3, <2>4 DEF QueuesRight
<1>12. ServerRight' /\ OutboxRight' /\ QueuesThere'
  <2>1. ServerRight'
    BY <1>4 DEF ServerRight, Registered
  <2>2. OutboxRight'
    BY <1>4, <1>6 DEF OutboxRight
  <2>3. QueuesThere'
    BY <1>4, <1>6 DEF QueuesThere
  <2> QED
    BY <2>1, <2>2, <2>3
<1>13. \A t \in Types : \A n \in ToSet(sq[t]) : n.by \in Clients
  BY DEF QueuesRight
<1>14. StopsLast'
  BY <1>4, <1>6, <1>8, <1>13, TypesAre DEF StopsLast
<1>15. \A x \in Clients \ {c} : /\ Active(x)' <=> Active(x)
                                /\ Outside(x)' <=> Outside(x)
                                /\ Entering(x)' <=> Entering(x)
                                /\ Leaving(x)' <=> Leaving(x)
  BY <1>4, <1>6 DEF Active, Announced, Pending, Outside, Entering, Leaving
<1>16. Pending' = Pending /\ (\A x : Announced(x)' <=> Announced(x))
  BY <1>4 DEF Pending, Announced
<1>17. InitsFirst'
  <2>1. \A x \in Clients : Outside(x)' =>
          /\ \A i \in Slots : clients'[i] # x
          /\ \A n \in ToSet(sq'["INIT"]) : n.by # x
    BY <1>4, <1>7, <1>15 DEF InitsFirst
  <2>2. \A n \in ToSet(sq'["INIT"]) : \A i \in Slots : clients'[i] # n.by
    BY <1>4 DEF InitsFirst
  <2>3. \A n \in ToSet(sq'["INIT"]) : IdsKnown' => client'[n.by] = "initializing"
    <3>1. \A n \in ToSet(sq["INIT"]) : IdsKnown => n.by # c
      BY <1>9 DEF InitsFirst
    <3> QED
      BY <1>4, <1>6, <1>8, <1>13, <3>1, TypesAre DEF InitsFirst
  <2> QED
    BY <1>4, <2>1, <2>2, <2>3 DEF InitsFirst
<1>18. SlotsRight'
  BY <1>4, <1>8 DEF SlotsRight
<1>19. IdsRight'
  BY <1>4, <1>6, <1>8, <1>9, <1>15 DEF IdsRight
<1>20. SenderRight'
  BY <1>4, <1>8, <1>16 DEF SenderRight, IdsKnown
<1>21. AnswerRight'
  BY <1>4, <1>6, <1>7, <1>8, <1>15 DEF AnswerRight
<1>22. LeaversTell'
  BY <1>4, <1>7, <1>8, <1>15, <1>16 DEF LeaversTell
<1> QED
  BY <1>10, <1>11, <1>12, <1>14, <1>17, <1>18, <1>19, <1>20, <1>21, <1>22

\* What a client's msgsnd does.
LEMMA Submitted ==
  ASSUME Base, NEW c \in Clients, Msgsnd(c)
  PROVE  \E m \in Msg, at \in {"initializing", "listing", "exiting", "looping"} :
           /\ m = outbox[c] /\ m.by = c /\ m.kind = m.type /\ client[c] = "submitting"
           /\ m.type # "INIT" => m.sender_id = client_id[c]
           /\ m.type = "INIT" <=> at = "initializing"
           /\ m.type = "STOP" <=> at = "exiting"
           /\ Total(sq) < QueueMax
           /\ sq' = [sq EXCEPT ![m.type] = Append(@, m)]
           /\ outbox' = [outbox EXCEPT ![c] = Nothing]
           /\ client' = [client EXCEPT ![c] = at]
           /\ UNCHANGED <<sq_exists, clients, server, feedback, to, cq, cq_exists, client_id,
                          lines, shown, accidents>>
<1>1. PICK m \in Msg : m = outbox[c]
  BY DEF Base, Typed
<1>2. /\ m.type \in Types /\ m.by = c /\ m.kind = m.type /\ client[c] = "submitting"
      /\ (m.type # "INIT" => m.sender_id = client_id[c])
  BY <1>1 DEF Base, OutboxRight, Msgsnd, Msg
<1>3. PICK at : at = CASE m.type = "INIT" -> "initializing"
                       [] m.type = "LIST" -> "listing"
                       [] m.type = "STOP" -> "exiting"
                       [] OTHER -> "looping"
  OBVIOUS
<1>4. /\ m.type = "INIT" => at = "initializing"
      /\ m.type = "LIST" => at = "listing"
      /\ m.type = "STOP" => at = "exiting"
      /\ m.type \in {"TOALL", "TOONE"} => at = "looping"
  BY <1>3
<1>5. /\ at \in {"initializing", "listing", "exiting", "looping"}
      /\ m.type = "INIT" <=> at = "initializing"
      /\ m.type = "STOP" <=> at = "exiting"
  BY <1>2, <1>4, TypesAre
<1>6. /\ sq' = [sq EXCEPT ![m.type] = Append(@, m)]
      /\ outbox' = [outbox EXCEPT ![c] = Nothing]
      /\ client' = [client EXCEPT ![c] = at]
      /\ UNCHANGED <<sq_exists, clients, server, feedback, to, cq, cq_exists, client_id,
                     lines, shown, accidents>>
  BY <1>1, <1>3 DEF Msgsnd, ClientGoes, serverVars
<1>7. Total(sq) < QueueMax
  BY DEF Msgsnd, HasRoom, SqLength, Total
<1> QED
  BY <1>1, <1>2, <1>5, <1>6, <1>7

\* A client's message gets into the server's queue.
LEMMA MsgsndBase ==
  ASSUME Base, NEW c \in Clients, Msgsnd(c)
  PROVE  Base'
<1> USE DEF Base
<1>1. PICK m \in Msg, at \in {"initializing", "listing", "exiting", "looping"} :
        /\ m = outbox[c] /\ m.by = c /\ m.kind = m.type /\ client[c] = "submitting"
        /\ m.type # "INIT" => m.sender_id = client_id[c]
        /\ m.type = "INIT" <=> at = "initializing"
        /\ m.type = "STOP" <=> at = "exiting"
        /\ Total(sq) < QueueMax
        /\ sq' = [sq EXCEPT ![m.type] = Append(@, m)]
        /\ outbox' = [outbox EXCEPT ![c] = Nothing]
        /\ client' = [client EXCEPT ![c] = at]
        /\ UNCHANGED <<sq_exists, clients, server, feedback, to, cq, cq_exists, client_id,
                       lines, shown, accidents>>
  BY Submitted
<1>2. PICK t \in Types : t = m.type
  BY MsgFields
<1>3. PICK s \in Seq(Msg) : s = sq[t]
  BY <1>2 DEF Typed
<1>4. PICK r \in Seq(Msg) : /\ r = Append(s, m) /\ Len(r) = Len(s) + 1
                            /\ ToSet(r) = ToSet(s) \union {m}
  <2>1. PICK a : a = Append(s, m)
    OBVIOUS
  <2>2. a \in Seq(Msg) /\ Len(a) = Len(s) + 1 /\ ToSet(a) = ToSet(s) \union {m}
    BY <2>1, AppendSet
  <2> QED
    BY <2>1, <2>2
<1>5. /\ sq' \in [Types -> Seq(Msg)] /\ sq'[t] = r
      /\ \A u \in Types \ {t} : sq'[u] = sq[u]
  BY <1>1, <1>2, <1>3, <1>4 DEF Typed
<1>6. /\ \A x \in Clients : client'[x] = IF x = c THEN at ELSE client[x]
      /\ \A x \in Clients : outbox'[x] = IF x = c THEN Nothing ELSE outbox[x]
  BY <1>1 DEF Typed
<1>7. \A u \in Types : \A n \in ToSet(sq'[u]) : n \in ToSet(sq[u]) \/ (n = m /\ u = t)
  <2> SUFFICES ASSUME NEW u \in Types, NEW n \in ToSet(sq'[u])
               PROVE  n \in ToSet(sq[u]) \/ (n = m /\ u = t)
    OBVIOUS
  <2>1. CASE u = t
    BY <1>3, <1>4, <1>5, <2>1
  <2>2. CASE u # t
    BY <1>5, <2>2
  <2> QED
    BY <2>1, <2>2
<1>8. \A u \in Types : ToSet(sq[u]) \subseteq ToSet(sq'[u])
  <2> SUFFICES ASSUME NEW u \in Types PROVE ToSet(sq[u]) \subseteq ToSet(sq'[u])
    OBVIOUS
  <2>1. CASE u = t
    BY <1>3, <1>4, <1>5, <2>1
  <2>2. CASE u # t
    BY <1>5, <2>2
  <2> QED
    BY <2>1, <2>2
<1>9. \A n \in ToSet(sq["STOP"]) : n.by \in Clients \ {c}
  BY <1>1, TypesAre DEF QueuesRight, StopsLast
<1>10. (IdsKnown' <=> IdsKnown) /\ (Harmless' <=> Harmless)
  BY <1>1 DEF IdsKnown, Harmless
<1>11. Typed'
  <2>1. outbox' \in [Clients -> Msg]
    BY <1>1, NothingIs DEF Typed
  <2>2. client' \in [Clients -> Places]
    BY <1>1 DEF Typed, Places
  <2> QED
    BY <1>1, <1>5, <2>1, <2>2 DEF Typed
<1>12. QueuesRight'
  <2>1. \A u \in Types : \A n \in ToSet(sq'[u]) : n.type = u /\ n.kind = u /\ n.by \in Clients
    BY <1>1, <1>2, <1>7, SMTT(60) DEF QueuesRight
  <2>2. PICK p \in [Types -> Seq(Msg)], p2 \in [Types -> Seq(Msg)] : p = sq /\ p2 = sq'
    BY <1>5 DEF Typed
  <2>3. (\A u \in Types \ {t} : p2[u] = p[u]) /\ Len(p2[t]) = Len(p[t]) + 1
    BY <1>3, <1>4, <1>5, <2>2
  <2>4. Total(p) \in Nat /\ Total(p2) = Total(p) + 1
    BY <2>3, TotalChanges
  <2>5. SqLength' = Total(p2) /\ Total(p) < QueueMax
    BY <1>1, <2>2 DEF SqLength, Total
  <2>6. SqLength' <= QueueMax
    BY <2>4, <2>5, ChatAssumption
  <2> QED
    BY <1>1, <2>1, <2>6 DEF QueuesRight
<1>13. ServerRight'
  BY <1>1 DEF ServerRight, Registered
<1>14. OutboxRight' /\ QueuesThere'
  BY <1>1, <1>6 DEF OutboxRight, QueuesThere
<1>15. StopsLast'
  <2>1. CASE t # "STOP"
    <3>1. sq'["STOP"] = sq["STOP"]
      BY <1>5, <2>1, TypesAre
    <3> QED
      BY <1>1, <1>6, <1>9, <1>10, <3>1 DEF StopsLast
  <2>2. CASE t = "STOP"
    <3>1. ASSUME NEW n \in ToSet(sq'["STOP"])
          PROVE  /\ client'[n.by] \in {"exiting", "gone"}
                 /\ IdsKnown' => n.sender_id = client_id'[n.by]
      <4>1. n \in ToSet(sq["STOP"]) \/ n = m
        BY <1>7, <3>1, TypesAre
      <4>2. CASE n \in ToSet(sq["STOP"])
        BY <1>1, <1>6, <1>9, <1>10, <4>2 DEF StopsLast
      <4>3. CASE n = m
        BY <1>1, <1>2, <1>6, <2>2, <4>3
      <4> QED
        BY <4>1, <4>2, <4>3
    <3>2. OneEach(s) /\ \A n \in ToSet(s) : n.by # m.by
      BY <1>1, <1>3, <1>9, <2>2 DEF StopsLast
    <3>3. OneEach(r)
      BY <1>4, <3>2, OneEachAppend
    <3> QED
      BY <1>5, <2>2, <3>1, <3>3 DEF StopsLast
  <2> QED
    BY <2>1, <2>2
<1>16. Outside(c) <=> t = "INIT"
  BY <1>1, <1>2 DEF Outside
<1>17. \A x \in Clients : /\ Outside(x)' => x # c /\ Outside(x)
                          /\ Entering(x)' => Entering(x)
  BY <1>1, <1>2, <1>6, <1>16 DEF Outside, Entering
<1>18. InitsFirst'
  <2>1. ASSUME NEW x \in Clients, Outside(x)', NEW n \in ToSet(sq'["INIT"])
        PROVE  n.by # x
    <3>1. x # c /\ Outside(x)
      BY <1>17, <2>1
    <3>2. n \in ToSet(sq["INIT"]) \/ n = m
      BY <1>7, <2>1, TypesAre
    <3> QED
      BY <1>1, <3>1, <3>2 DEF InitsFirst
  <2>2. \A x \in Clients : Outside(x)' => \A i \in Slots : clients'[i] # x
    BY <1>1, <1>17 DEF InitsFirst
  <2>3. ASSUME NEW n \in ToSet(sq'["INIT"])
        PROVE  /\ \A i \in Slots : clients'[i] # n.by
               /\ IdsKnown' => client'[n.by] = "initializing"
    <3>1. n \in ToSet(sq["INIT"]) \/ (n = m /\ t = "INIT")
      BY <1>7, <2>3, TypesAre
    <3>2. CASE n \in ToSet(sq["INIT"])
      <4>1. \A i \in Slots : clients'[i] # n.by
        BY <1>1, <3>2 DEF InitsFirst
      <4>2. IdsKnown => client[n.by] = "initializing" /\ n.by \in Clients
        BY <3>2, TypesAre DEF InitsFirst, QueuesRight
      <4>3. IdsKnown => n.by # c
        BY <1>1, <4>2
      <4> QED
        BY <1>6, <1>10, <4>1, <4>2, <4>3
    <3>3. CASE n = m /\ t = "INIT"
      <4>1. Outside(c)
        BY <1>16, <3>3
      <4> QED
        BY <1>1, <1>2, <1>6, <3>3, <4>1 DEF InitsFirst
    <3> QED
      BY <3>1, <3>2, <3>3
  <2>4. OneEach(sq'["INIT"])
    <3>1. CASE t # "INIT"
      BY <1>5, <3>1, TypesAre DEF InitsFirst
    <3>2. CASE t = "INIT"
      <4>1. OneEach(s) /\ \A n \in ToSet(s) : n.by # m.by
        BY <1>1, <1>3, <1>16, <3>2 DEF InitsFirst
      <4>2. OneEach(r)
        BY <1>4, <4>1, OneEachAppend
      <4> QED
        BY <1>5, <3>2, <4>2
    <3> QED
      BY <3>1, <3>2
  <2> QED
    BY <2>1, <2>2, <2>3, <2>4 DEF InitsFirst
<1>19. SlotsRight'
  BY <1>1, <1>10 DEF SlotsRight
<1>20. Active(c) <=> t # "INIT"
  <2>1. ~Announced(c)
    BY <1>9, AnnouncedIs
  <2> QED
    BY <1>1, <1>2, <2>1 DEF Active
<1>21. /\ \A x : Announced(x) => Announced(x)'
       /\ \A x : Announced(x)' => Announced(x) \/ (x = c /\ t = "STOP")
       /\ t = "STOP" => Announced(c)'
  <2>1. \A x : Announced(x) <=> \E n \in ToSet(sq["STOP"]) : n.by = x
    BY AnnouncedIs
  <2>2. \A x : Announced(x)' <=> \E n \in ToSet(sq'["STOP"]) : n.by = x
    BY <1>12, AnnouncedThen
  <2>3. ToSet(sq["STOP"]) \subseteq ToSet(sq'["STOP"])
    BY <1>8, TypesAre
  <2>4. \A n \in ToSet(sq'["STOP"]) : n \in ToSet(sq["STOP"]) \/ (n = m /\ t = "STOP")
    BY <1>7, TypesAre
  <2>5. t = "STOP" => m \in ToSet(sq'["STOP"])
    BY <1>4, <1>5
  <2> QED
    BY <1>1, <2>1, <2>2, <2>3, <2>4, <2>5
<1>22. \A x \in Clients : Active(x)' => Active(x)
  <2>1. ASSUME NEW x \in Clients, x # c, Active(x)' PROVE Active(x)
    BY <1>6, <1>21, <2>1 DEF Active
  <2>2. ASSUME Active(c)' PROVE t # "INIT"
    <3>1. CASE t = "INIT"
      <4>1. client'[c] = "initializing" /\ ~Announced(c)'
        BY <1>1, <1>2, <1>6, <1>20, <1>21, <3>1 DEF Active
      <4> QED
        BY <2>2, <4>1 DEF Active
    <3> QED
      BY <3>1
  <2> QED
    BY <1>20, <2>1, <2>2
<1>23. IdsRight'
  BY <1>1, <1>10, <1>22 DEF IdsRight
<1>24. SenderRight'
  <2> SUFFICES ASSUME IdsKnown, NEW n \in Pending', n.type # "INIT"
               PROVE  clients[n.sender_id] \in {n.by, NoQueue}
    BY <1>1 DEF SenderRight, IdsKnown
  <2>1. n \in Pending \/ n = m
    BY <1>7, PendingAre, PendingThen
  <2>2. CASE n \in Pending
    BY <2>2 DEF SenderRight, IdsKnown
  <2>3. CASE n = m
    BY <1>1, <1>2, <1>20, <2>3 DEF IdsRight
  <2> QED
    BY <2>1, <2>2, <2>3
<1>25. AnswerRight'
  BY <1>1, <1>10, <1>17 DEF AnswerRight
<1>26. LeaversTell'
  <2>1. \A x \in Clients : Leaving(x)' => Leaving(x) \/ (x = c /\ t = "STOP")
    BY <1>1, <1>2, <1>6 DEF Leaving
  <2> QED
    BY <1>1, <1>10, <1>21, <2>1 DEF LeaversTell
<1> QED
  BY <1>11, <1>12, <1>13, <1>14, <1>15, <1>18, <1>19, <1>23, <1>24, <1>25, <1>26

-----------------------------------------------------------------------------
(* The order of the lines. *)

\* Fewer messages are still older than a line, and than any later one.
LEMMA OlderKept ==
  ASSUME NEW s \in [Clients -> Nat], NEW q \in Seq(Msg), NEW r \in Seq(Msg), Kept(q, r),
         NEW d \in Clients, NEW n \in Nat, NEW k \in Nat, n <= k, Older(s, q, d, n)
  PROVE  Older(s, r, d, k)
<1>1. s[d] < k
  BY DEF Older
<1>2. PICK f \in [DOMAIN r -> DOMAIN q] : \A i \in DOMAIN r : r[i] = q[f[i]]
  BY DEF Kept
<1>3. ASSUME NEW i \in DOMAIN r, r[i].by = d PROVE r[i].line < k
  <2>1. f[i] \in DOMAIN q /\ r[i] = q[f[i]]
    BY <1>2
  <2>2. q[f[i]].line < n
    BY <1>3, <2>1 DEF Older
  <2>3. r[i] \in Msg
    OBVIOUS
  <2>4. PICK l \in Nat : l = r[i].line
    BY <2>3, MsgFields
  <2> QED
    BY <2>1, <2>2, <2>4
<1> QED
  BY <1>1, <1>3 DEF Older

\* Fewer messages are still in order.
LEMMA InOrderKept ==
  ASSUME NEW s, NEW q \in Seq(Msg), NEW r \in Seq(Msg), Kept(q, r), InOrder(s, q)
  PROVE  InOrder(s, r)
<1>1. PICK f \in [DOMAIN r -> DOMAIN q] :
        /\ \A i \in DOMAIN r : r[i] = q[f[i]]
        /\ \A i, j \in DOMAIN r : i < j => f[i] < f[j]
  BY DEF Kept
<1>2. DOMAIN r = 1 .. Len(r) /\ DOMAIN q = 1 .. Len(q) /\ Len(r) \in Nat /\ Len(q) \in Nat
  OBVIOUS
<1>3. ASSUME NEW j \in DOMAIN r, r[j].kind = "TOALL"
      PROVE  /\ r[j].line > s[r[j].by]
             /\ \A i \in 1 .. j - 1 : r[i].by = r[j].by => r[i].line < r[j].line
  <2>1. PICK k \in DOMAIN q : k = f[j] /\ r[j] = q[k]
    BY <1>1
  <2>2. q[k].kind = "TOALL"
    BY <1>3, <2>1
  <2>3. /\ q[k].line > s[q[k].by]
        /\ \A i \in 1 .. k - 1 : q[i].by = q[k].by => q[i].line < q[k].line
    BY <2>2 DEF InOrder
  <2>4. ASSUME NEW i \in 1 .. j - 1, r[i].by = r[j].by PROVE r[i].line < r[j].line
    <3>1. i \in DOMAIN r /\ i < j
      BY <1>2
    <3>2. f[i] \in DOMAIN q /\ f[i] < k /\ r[i] = q[f[i]]
      BY <1>1, <2>1, <3>1
    <3>3. PICK h \in DOMAIN q : h = f[i]
      BY <3>2
    <3>4. h \in 1 .. k - 1
      BY <1>2, <3>2, <3>3
    <3> QED
      BY <2>1, <2>3, <2>4, <3>2, <3>3, <3>4
  <2> QED
    BY <2>1, <2>3, <2>4
<1> QED
  BY <1>3 DEF InOrder

\* Fewer messages of a user still have increasing lines.
LEMMA IncreasingKept ==
  ASSUME NEW q \in Seq(Msg), NEW r \in Seq(Msg), Kept(q, r), Increasing(q)
  PROVE  Increasing(r)
<1>1. PICK f \in [DOMAIN r -> DOMAIN q] :
        /\ \A i \in DOMAIN r : r[i] = q[f[i]]
        /\ \A i, j \in DOMAIN r : i < j => f[i] < f[j]
  BY DEF Kept
<1>2. ASSUME NEW i \in DOMAIN r, NEW j \in DOMAIN r, i < j, r[i].by = r[j].by
      PROVE  r[i].line < r[j].line
  <2>1. PICK h \in DOMAIN q, k \in DOMAIN q : h = f[i] /\ k = f[j]
    OBVIOUS
  <2>2. h < k /\ r[i] = q[h] /\ r[j] = q[k]
    BY <1>1, <1>2, <2>1
  <2> QED
    BY <1>2, <2>2 DEF Increasing
<1> QED
  BY <1>2 DEF Increasing

\* A line that is newer than what a client has of its writer's can be added.
LEMMA OlderAppend ==
  ASSUME NEW s, NEW q \in Seq(Msg), NEW m \in Msg, NEW d, NEW n,
         Older(s, q, d, n), m.by = d => m.line < n
  PROVE  Older(s, Append(q, m), d, n)
<1>1. PICK r, k : r = Append(q, m) /\ k = Len(q) + 1
  OBVIOUS
<1>2. DOMAIN r = DOMAIN q \union {k} /\ r[k] = m /\ \A i \in DOMAIN q : r[i] = q[i]
  BY <1>1, AppendSet
<1>3. \A i \in DOMAIN r : r[i].by = d => r[i].line < n
  BY <1>2 DEF Older
<1> QED
  BY <1>1, <1>3 DEF Older

\* A line at the end of a queue that is newer than all in it keeps it in order.
LEMMA InOrderAppend ==
  ASSUME NEW s \in [Clients -> Nat], NEW q \in Seq(Msg), NEW m \in Msg, InOrder(s, q),
         m.kind = "TOALL" => m.by \in Clients /\ Older(s, q, m.by, m.line)
  PROVE  InOrder(s, Append(q, m))
<1>1. PICK r, k : r = Append(q, m) /\ k = Len(q) + 1
  OBVIOUS
<1>2. /\ DOMAIN r = DOMAIN q \union {k} /\ r[k] = m /\ \A i \in DOMAIN q : r[i] = q[i]
      /\ DOMAIN q = 1 .. Len(q) /\ Len(q) \in Nat
  BY <1>1, AppendSet
<1>3. 1 .. k - 1 = DOMAIN q /\ \A j \in DOMAIN q : 1 .. j - 1 \subseteq DOMAIN q
  BY <1>1, <1>2
<1>4. ASSUME NEW j \in DOMAIN r, r[j].kind = "TOALL"
      PROVE  /\ r[j].line > s[r[j].by]
             /\ \A i \in 1 .. j - 1 : r[i].by = r[j].by => r[i].line < r[j].line
  <2>1. CASE j \in DOMAIN q
    <3>1. r[j] = q[j] /\ \A i \in 1 .. j - 1 : r[i] = q[i]
      BY <1>2, <1>3, <2>1
    <3>2. /\ q[j].line > s[q[j].by]
          /\ \A i \in 1 .. j - 1 : q[i].by = q[j].by => q[i].line < q[j].line
      BY <1>4, <2>1, <3>1 DEF InOrder
    <3> QED
      BY <3>1, <3>2
  <2>2. CASE j = k
    <3>1. m.by \in Clients /\ Older(s, q, m.by, m.line)
      BY <1>2, <1>4, <2>2
    <3>2. PICK l \in Nat, n \in Nat : l = m.line /\ n = s[m.by]
      BY <3>1, MsgFields
    <3>3. n < l /\ \A i \in DOMAIN q : q[i].by = m.by => q[i].line < m.line
      BY <3>1, <3>2 DEF Older
    <3>4. m.line > s[m.by]
      BY <3>2, <3>3
    <3> QED
      BY <1>2, <1>3, <2>2, <3>3, <3>4
  <2> QED
    BY <1>2, <2>1, <2>2
<1> QED
  BY <1>1, <1>4 DEF InOrder

\* So does a message newer than its user's others.
LEMMA IncreasingAppend ==
  ASSUME NEW q \in Seq(Msg), NEW m \in Msg, Increasing(q),
         \A n \in ToSet(q) : n.by = m.by => n.line < m.line
  PROVE  Increasing(Append(q, m))
<1>1. PICK r, k : r = Append(q, m) /\ k = Len(q) + 1
  OBVIOUS
<1>2. /\ DOMAIN r = DOMAIN q \union {k} /\ r[k] = m /\ \A i \in DOMAIN q : r[i] = q[i]
      /\ DOMAIN q = 1 .. Len(q) /\ Len(q) \in Nat
  BY <1>1, AppendSet
<1>3. \A i \in DOMAIN q : ~ (k < i) /\ q[i] \in ToSet(q)
  BY <1>1, <1>2 DEF ToSet
<1>4. ~ (k < k)
  BY <1>1, <1>2
<1>5. \A i, j \in DOMAIN r : i < j /\ r[i].by = r[j].by => r[i].line < r[j].line
  BY <1>2, <1>3, <1>4 DEF Increasing
<1> QED
  BY <1>1, <1>5 DEF Increasing

\* A client that has shown s and holds q loses nothing of what is said of it when
\* it comes to s1 and q1.
Fewer(s, q, s1, q1) ==
  /\ \A d \in Clients, n \in Nat : Older(s, q, d, n) => Older(s1, q1, d, n)
  /\ InOrder(s, q) => InOrder(s1, q1)

\* A queue that loses messages constrains what is shown less.
LEMMA KeptFewer ==
  ASSUME NEW s \in [Clients -> Nat], NEW q \in Seq(Msg), NEW r \in Seq(Msg), Kept(q, r)
  PROVE  Fewer(s, q, s, r)
<1>1. ASSUME NEW d \in Clients, NEW n \in Nat, Older(s, q, d, n) PROVE Older(s, r, d, n)
  BY <1>1, OlderKept
<1> QED
  BY <1>1, InOrderKept DEF Fewer

\* A client shows the first of its messages.
LEMMA ReadFewer ==
  ASSUME NEW s \in [Clients -> Nat], NEW q \in Seq(Msg), q # <<>>,
         \A m \in ToSet(q) : Signed(m),
         NEW h, h = Head(q), NEW x \in Clients, h.by = x,
         NEW k \in {h.line, s[x]}, k >= h.line, k >= s[x],
         NEW s1 \in [Clients -> Nat], s1[x] = k, \A d \in Clients \ {x} : s1[d] = s[d]
  PROVE  Fewer(s, q, s1, Tail(q))
<1>1. PICK r \in Seq(Msg) :
        /\ r = Tail(q) /\ h \in Msg /\ h = q[1] /\ 1 \in DOMAIN q /\ Kept(q, r)
        /\ \A i \in DOMAIN r : i + 1 \in DOMAIN q /\ r[i] = q[i + 1] /\ 1 < i + 1
  BY TailKept
<1>2. PICK l \in Nat : l = h.line
  BY <1>1, MsgFields
<1>3. k \in Nat
  BY <1>2
<1>4. \A d \in Clients, n \in Nat : Older(s, q, d, n) => Older(s, r, d, n)
  BY <1>1, KeptFewer DEF Fewer
<1>5. ASSUME NEW d \in Clients, NEW n \in Nat, Older(s, q, d, n) PROVE Older(s1, r, d, n)
  <2>1. Older(s, r, d, n)
    BY <1>4, <1>5
  <2>2. s1[d] < n
    <3>1. s[d] < n /\ (x = d => h.line < n)
      BY <1>1, <1>5 DEF Older
    <3> QED
      BY <3>1
  <2> QED
    BY <2>1, <2>2 DEF Older
<1>6. ASSUME InOrder(s, q) PROVE InOrder(s1, r)
  <2>1. InOrder(s, r)
    BY <1>1, <1>6, InOrderKept
  <2>2. ASSUME NEW j \in DOMAIN r, r[j].kind = "TOALL" PROVE r[j].line > s1[r[j].by]
    <3>1. r[j].line > s[r[j].by]
      BY <2>1, <2>2 DEF InOrder
    <3>2. CASE r[j].by # x
      <4>1. r[j] \in ToSet(q)
        BY <1>1, KeptSet DEF ToSet
      <4>2. r[j].by \in Clients
        BY <2>2, <4>1 DEF Signed
      <4>3. s1[r[j].by] = s[r[j].by]
        BY <3>2, <4>2
      <4> QED
        BY <3>1, <4>3
    <3>3. CASE r[j].by = x
      <4>1. PICK g \in DOMAIN q : g = j + 1 /\ r[j] = q[g] /\ 1 < g
        BY <1>1
      <4>2. 1 \in 1 .. g - 1
        BY <4>1
      <4>3. q[1].line < q[g].line
        BY <1>1, <1>6, <2>2, <3>3, <4>1, <4>2, ZenonT(60) DEF InOrder
      <4>4. PICK a \in Nat, b \in Nat : a = r[j].line /\ b = s[x]
        BY MsgFields
      <4>5. l < a /\ b < a
        BY <1>1, <1>2, <3>1, <3>3, <4>1, <4>3, <4>4
      <4>6. k < a
        BY <1>2, <4>4, <4>5
      <4> QED
        BY <1>3, <3>3, <4>4, <4>6
    <3> QED
      BY <3>2, <3>3
  <2> QED
    BY <2>1, <2>2 DEF InOrder
<1> QED
  BY <1>1, <1>5, <1>6 DEF Fewer

\* Queues and histories that stay as they are, or lose some of their messages.
LEMMA StaysFewer ==
  \A s, q : Fewer(s, q, s, q)
BY DEF Fewer

\* A queue that stays as it is.
LEMMA StaysKept ==
  ASSUME NEW q
  PROVE  Kept(q, q)
<1>1. PICK f : f = [i \in DOMAIN q |-> i]
  OBVIOUS
<1>2. f \in [DOMAIN q -> DOMAIN q] /\ \A i \in DOMAIN q : f[i] = i
  BY <1>1
<1> QED
  BY <1>2 DEF Kept

\* A queue that is emptied.
LEMMA NoneKept ==
  ASSUME NEW q, NEW r, r = <<>>
  PROVE  Kept(q, r)
<1>1. PICK f : f = [i \in DOMAIN r |-> i]
  OBVIOUS
<1>2. DOMAIN r = {}
  OBVIOUS
<1>3. f \in [DOMAIN r -> DOMAIN q]
  BY <1>1, <1>2
<1> QED
  BY <1>2, <1>3 DEF Kept

\* The clients that are to get a line are there.
LEMMA ReceiversAre ==
  ASSUME Base
  PROVE  /\ feedback.kind = "TOALL" => \A i \in to : i \in Slots /\ clients[i] \in Clients
         /\ server = "receiving" => \A i \in Registered : i \in Slots /\ clients[i] \in Clients
<1> USE DEF Base
<1>1. server \in {"receiving", "sending"} => \A i \in Slots : clients[i] # BadQueue
  BY DEF SlotsRight
<1>2. \A i \in Registered : i \in Slots /\ clients[i] # NoQueue
  BY DEF Registered
<1>3. feedback.kind = "TOALL" => server = "sending" /\ to \subseteq Registered
  BY NothingIs DEF ServerRight
<1> QED
  BY <1>1, <1>2, <1>3 DEF Typed

\* What a step keeps that loses messages at most: no client gets one, none is appended
\* to the server's queue, and nobody's next line gets an older number.
Loses ==
  /\ \A c \in Clients : Fewer(shown[c], cq[c], shown'[c], cq'[c])
  /\ \A t \in Types : Kept(sq[t], sq'[t])
  /\ \A d \in Clients : NextLine(d)' >= NextLine(d)

\* The next line of a client is a number.
LEMMA NextLineTyped ==
  ASSUME LinesTyped
  PROVE  \A d \in Clients : NextLine(d) \in Nat
BY DEF LinesTyped, NextLine

\* And so it is after a step.
LEMMA NextLineTypedThen ==
  ASSUME LinesTyped'
  PROVE  \A d \in Clients : NextLine(d)' \in Nat
BY DEF LinesTyped, NextLine

\* A step that only takes lines away, or shows them, keeps the order.
LEMMA LosesOrder ==
  ASSUME Base, Base', Order, LinesTyped', Loses,
         \A d \in Clients : Written(d)' => outbox'[d].line = lines'[d]
  PROVE  NextIsNew' /\ AllInOrder' /\ OrderKept'
<1> USE DEF Order
<1>1. \A d \in Clients : /\ NextLine(d) \in Nat /\ NextLine(d)' \in Nat
                         /\ NextLine(d) <= NextLine(d)'
  BY NextLineTyped, NextLineTypedThen DEF Loses
<1>2. \A t \in Types : sq[t] \in Seq(Msg) /\ sq'[t] \in Seq(Msg) /\ Kept(sq[t], sq'[t])
  BY DEF Base, Typed, Loses
<1>3. \A t \in Types : ToSet(sq'[t]) \subseteq ToSet(sq[t])
  BY <1>2, KeptSet
<1>4. \A c \in Clients : /\ shown[c] \in [Clients -> Nat] /\ shown'[c] \in [Clients -> Nat]
                         /\ cq[c] \in Seq(Msg) /\ cq'[c] \in Seq(Msg)
  BY DEF LinesTyped, Base, Typed
<1>5. \A c, d \in Clients, n \in Nat :
        Older(shown[c], cq[c], d, n) => Older(shown'[c], cq'[c], d, n)
  BY DEF Loses, Fewer
<1>6. NextIsNew'
  <2> SUFFICES ASSUME NEW d \in Clients
               PROVE  /\ \A t \in {"TOALL", "TOONE"} : \A m \in ToSet(sq'[t]) :
                           m.by = d => m.line < NextLine(d)'
                      /\ \A c \in Clients : Older(shown'[c], cq'[c], d, NextLine(d)')
    BY DEF NextIsNew
  <2>1. PICK n \in Nat, k \in Nat : n = NextLine(d) /\ k = NextLine(d)' /\ n <= k
    BY <1>1
  <2>2. ASSUME NEW t \in {"TOALL", "TOONE"}, NEW m \in ToSet(sq'[t]), m.by = d
        PROVE  m.line < k
    <3>1. m \in ToSet(sq[t]) /\ m \in Msg
      BY <1>2, <1>3, TypesAre, MembersTyped
    <3>2. m.line < n
      BY <2>1, <2>2, <3>1 DEF NextIsNew
    <3>3. m.line \in Nat
      BY <3>1, MsgFields
    <3> QED
      BY <2>1, <3>2, <3>3
  <2>3. ASSUME NEW c \in Clients PROVE Older(shown'[c], cq'[c], d, k)
    <3>1. Older(shown[c], cq[c], d, n)
      BY <2>1 DEF NextIsNew
    <3>2. PICK s \in [Clients -> Nat], q \in Seq(Msg) : s = shown'[c] /\ q = cq'[c]
      BY <1>4
    <3>3. Older(s, q, d, n)
      BY <1>5, <3>1, <3>2
    <3>5. Older(s, q, d, k)
      BY <2>1, <3>3, StaysKept, OlderKept
    <3> QED
      BY <3>2, <3>5
  <2> QED
    BY <2>1, <2>2, <2>3
<1>7. AllInOrder'
  <2>1. PICK s \in Seq(Msg), r \in Seq(Msg) :
          s = sq["TOALL"] /\ r = sq'["TOALL"] /\ Kept(s, r)
    BY <1>2, TypesAre
  <2>2. Increasing(r)
    BY <2>1, IncreasingKept DEF AllInOrder
  <2>3. ASSUME NEW m \in ToSet(r), NEW c \in Clients
        PROVE  Older(shown'[c], cq'[c], m.by, m.line)
    <3>1. m \in ToSet(s) /\ m \in Msg
      BY <1>3, <2>1, TypesAre, MembersTyped
    <3>2. m.by \in Clients /\ m.line \in Nat
      BY <2>1, <3>1, TypesAre, MsgFields DEF Base, QueuesRight
    <3>3. Older(shown[c], cq[c], m.by, m.line)
      BY <2>1, <3>1 DEF AllInOrder
    <3> QED
      BY <1>5, <3>2, <3>3
  <2> QED
    BY <2>1, <2>2, <2>3 DEF AllInOrder
<1>8. OrderKept'
  <2>1. ASSUME NEW c \in Clients PROVE InOrder(shown'[c], cq'[c])
    <3>1. InOrder(shown[c], cq[c])
      BY DEF OrderKept, InOrder
    <3> QED
      BY <3>1 DEF Loses, Fewer
  <2> QED
    BY <2>1 DEF OrderKept, InOrder
<1> QED
  BY <1>6, <1>7, <1>8

\* A step that loses messages at most, and after which the server sends what it sent or
\* nothing that a client wrote.
LEMMA RestOrder ==
  ASSUME Base, Base', Order, LinesTyped', Loses,
         \A d \in Clients : Written(d)' => outbox'[d].line = lines'[d],
         \/ feedback'.by = NoQueue
         \/ feedback' = feedback /\ to' = to /\ clients' = clients
  PROVE  Order'
<1>1. NextIsNew' /\ AllInOrder' /\ OrderKept'
  BY LosesOrder
<1>2. CASE feedback'.by = NoQueue
  <2>1. FeedbackIsNew'
    BY <1>2, MessagesTyped DEF FeedbackIsNew
  <2> QED
    BY <1>1, <2>1 DEF Order
<1>3. CASE feedback' = feedback /\ to' = to /\ clients' = clients
  <2> SUFFICES ASSUME feedback.by \in Clients PROVE FeedbackIsNew'
    BY <1>1, <1>3 DEF Order, FeedbackIsNew
  <2>1. PICK d \in Clients, l \in Nat : d = feedback.by /\ l = feedback.line
    BY MsgFields DEF Base, Typed
  <2>2. l < NextLine(d)
    BY <2>1 DEF Order, FeedbackIsNew
  <2>3. l < NextLine(d)'
    BY <2>1, <2>2, NextLineTyped, NextLineTypedThen DEF Loses, Order
  <2>4. \A m \in ToSet(sq'["TOALL"]) : m.by = d => l < m.line
    BY <2>1, TypesAre, KeptSet DEF Order, FeedbackIsNew, Loses
  <2>5. ASSUME feedback.kind = "TOALL", NEW i \in to
        PROVE  Older(shown'[clients[i]], cq'[clients[i]], d, l)
    <3>1. clients[i] \in Clients
      BY <2>5, ReceiversAre
    <3>2. Older(shown[clients[i]], cq[clients[i]], d, l)
      BY <2>1, <2>5 DEF Order, FeedbackIsNew
    <3> QED
      BY <3>1, <3>2 DEF Loses, Fewer
  <2> QED
    BY <1>3, <2>1, <2>3, <2>4, <2>5 DEF FeedbackIsNew
<1> QED
  BY <1>2, <1>3

\* A step of the server's that sends nothing.
LEMMA ServerLoses ==
  ASSUME Base, Order, \A t \in Types : Kept(sq[t], sq'[t]),
         UNCHANGED <<cq, client, outbox, lines, shown>>
  PROVE  /\ LinesTyped' /\ Loses
         /\ \A d \in Clients : Written(d)' => outbox'[d].line = lines'[d]
         /\ \A d \in Clients : NextLine(d)' = NextLine(d)
<1>1. LinesTyped'
  BY DEF Order, LinesTyped
<1>2. \A d \in Clients : NextLine(d)' = NextLine(d) /\ (Written(d)' <=> Written(d))
  BY DEF NextLine, Written
<1>3. \A d \in Clients : NextLine(d)' >= NextLine(d)
  BY <1>2, NextLineTyped DEF Order
<1>4. Loses
  BY <1>3, StaysFewer DEF Loses
<1>5. \A d \in Clients : Written(d)' => outbox'[d].line = lines'[d]
  BY <1>2 DEF Order, NextIsNew
<1> QED
  BY <1>1, <1>2, <1>4, <1>5

\* The server begins to end, or is down.
LEMMA EndsOrder ==
  ASSUME Base, Base', Order, SendFails \/ sigint_handler \/ RemoveServerQueue
  PROVE  Order'
<1>1. /\ UNCHANGED <<cq, client, outbox, lines, shown>>
      /\ sq' = sq \/ sq' = [t \in Types |-> <<>>]
  BY DEF SendFails, sigint_handler, RemoveServerQueue, clientVars
<1>2. \A t \in Types : Kept(sq[t], sq'[t])
  BY <1>1, StaysKept, NoneKept
<1>3. feedback'.by = NoQueue
  <2>1. server' \in {"closing", "down"}
    BY DEF SendFails, sigint_handler, RemoveServerQueue, Exits
  <2>2. feedback' = Nothing
    BY <2>1 DEF Base, ServerRight
  <2> QED
    BY <2>2, NothingIs
<1> QED
  BY <1>1, <1>2, <1>3, ServerLoses, RestOrder

\* The server takes a message: a line it is going to pass on is older than those that
\* stay, which have the same type or, when it is a 2ONE line, are no 2ALL lines.
LEMMA ReceiveOrder ==
  ASSUME Base, Base', Order, Receive
  PROVE  Order'
<1>1. UNCHANGED <<cq, client, outbox, lines, shown>> /\ server = "receiving"
  BY DEF Receive, clientVars
<1>2. PICK t \in Types : /\ Taken(t)
                         /\ TableChanges(t, Head(sq[t])) /\ Outcome(t, Head(sq[t]))
  BY Handled
<1>3. PICK m : m = Head(sq[t])
  OBVIOUS
<1>4. m \in Msg /\ m \in ToSet(sq[t]) /\ m.by \in Clients /\ m.type = t /\ m.kind = t
  BY <1>2, <1>3, Received
<1>5. PICK s \in Seq(Msg) : s = sq[t] /\ s # <<>>
  BY <1>2 DEF Base, Typed, Taken
<1>6. sq'[t] = Tail(s) /\ \A u \in Types \ {t} : sq'[u] = sq[u]
  BY <1>2, <1>5, Received
<1>7. \A u \in Types : Kept(sq[u], sq'[u])
  <2>1. Kept(s, Tail(s))
    BY <1>5, TailKept
  <2> QED
    BY <1>5, <1>6, <2>1, StaysKept
<1>8. /\ LinesTyped' /\ Loses
      /\ \A d \in Clients : Written(d)' => outbox'[d].line = lines'[d]
      /\ \A d \in Clients : NextLine(d)' = NextLine(d)
  BY <1>1, <1>7, ServerLoses
<1>9. NextIsNew' /\ AllInOrder' /\ OrderKept'
  BY <1>8, LosesOrder
<1>10. CASE feedback'.by = NoQueue
  BY <1>8, <1>10, RestOrder
<1>11. t \in {"TOALL", "TOONE"} => m.line < NextLine(m.by)'
  BY <1>4, <1>8 DEF Order, NextIsNew
<1>12. CASE t = "TOALL" /\ feedback' = m /\ to' = Registered /\ clients' = clients
  <2>1. ASSUME NEW n \in ToSet(sq'["TOALL"]), n.by = m.by PROVE m.line < n.line
    <3>1. PICK i \in DOMAIN Tail(s) : n = Tail(s)[i]
      BY <1>6, <1>12, <2>1 DEF ToSet
    <3>2. PICK k : k = i + 1
      OBVIOUS
    <3>3. /\ k \in DOMAIN s /\ n = s[k] /\ 1 < k /\ m = s[1] /\ 1 \in DOMAIN s
      BY <1>3, <1>5, <3>1, <3>2, TailKept
    <3>4. Increasing(s)
      BY <1>5, <1>12 DEF Order, AllInOrder
    <3> QED
      BY <2>1, <3>3, <3>4 DEF Increasing
  <2>2. ASSUME NEW i \in Registered
        PROVE  Older(shown[clients[i]], cq[clients[i]], m.by, m.line)
    <3>1. clients[i] \in Clients
      BY <1>1, ReceiversAre
    <3> QED
      BY <1>4, <1>12, <3>1 DEF Order, AllInOrder
  <2>3. FeedbackIsNew'
    BY <1>1, <1>11, <1>12, <2>1, <2>2 DEF FeedbackIsNew
  <2> QED
    BY <1>8, <1>9, <2>3 DEF Order
<1>13. CASE t = "TOONE" /\ feedback' = [m EXCEPT !.type = "TOALL"]
  <2>1. /\ feedback'.by = m.by /\ feedback'.kind = "TOONE" /\ feedback'.line = m.line
    BY <1>4, <1>13 DEF Msg
  <2>2. sq'["TOALL"] = <<>>
    BY <1>2, <1>6, <1>13, TypesAre DEF Taken
  <2>3. ToSet(sq'["TOALL"]) = {}
    BY <2>2 DEF ToSet
  <2>4. FeedbackIsNew'
    BY <1>11, <1>13, <2>1, <2>3 DEF FeedbackIsNew
  <2> QED
    BY <1>8, <1>9, <2>4 DEF Order
<1> QED
  BY <1>2, <1>3, <1>10, <1>12, <1>13, NothingIs, MessagesTyped, TypesAre DEF Outcome

\* A line that the server sends is new to the client that gets it.
LEMMA SendOneOrder ==
  ASSUME Base, Base', Order, SendOne
  PROVE  Order'
<1> USE DEF Order
<1>1. PICK i \in to, c \in Clients :
        /\ i \in Slots /\ clients[i] = c
        /\ cq' = [cq EXCEPT ![c] = Append(@, feedback)]
        /\ to' = to \ {i}
  BY OneSent
<1>2. /\ UNCHANGED <<sq, clients, client, outbox, lines, shown>>
      /\ feedback' = Nothing \/ feedback' = feedback
  BY DEF SendOne, clientVars
<1>3. PICK m \in Msg : m = feedback
  BY DEF Base, Typed
<1>4. PICK q \in Seq(Msg), s \in [Clients -> Nat] : q = cq[c] /\ s = shown[c]
  BY DEF Base, Typed, LinesTyped
<1>5. PICK r : r = Append(q, m)
  OBVIOUS
<1>6. \A x \in Clients : cq'[x] = IF x = c THEN r ELSE cq[x]
  BY <1>1, <1>3, <1>4, <1>5 DEF Base, Typed
<1>7. LinesTyped'
  BY <1>2 DEF LinesTyped
<1>8. \A d \in Clients : NextLine(d)' = NextLine(d) /\ (Written(d)' <=> Written(d))
  BY <1>2 DEF NextLine, Written
<1>9. \A d \in Clients : m.by = d => m.line < NextLine(d)
  BY <1>3 DEF FeedbackIsNew
<1>10. NextIsNew'
  <2>1. ASSUME NEW d \in Clients PROVE Older(s, r, d, NextLine(d))
    <3>1. PICK n : n = NextLine(d)
      OBVIOUS
    <3>2. Older(s, q, d, n) /\ (m.by = d => m.line < n)
      BY <1>4, <1>9, <3>1 DEF NextIsNew
    <3>3. Older(s, Append(q, m), d, n)
      BY <3>2, OlderAppend
    <3> QED
      BY <1>5, <3>1, <3>3
  <2>2. \A d, x \in Clients : Older(shown'[x], cq'[x], d, NextLine(d)')
    BY <1>2, <1>4, <1>6, <1>8, <2>1 DEF NextIsNew
  <2>3. \A d \in Clients : Written(d)' => outbox'[d].line = lines'[d]
    BY <1>2, <1>8 DEF NextIsNew
  <2>4. \A d \in Clients : \A t \in {"TOALL", "TOONE"} : \A n \in ToSet(sq'[t]) :
          n.by = d => n.line < NextLine(d)'
    BY <1>2, <1>8 DEF NextIsNew
  <2> QED
    BY <2>2, <2>3, <2>4 DEF NextIsNew
<1>11. AllInOrder'
  <2>1. ASSUME NEW n \in ToSet(sq["TOALL"]) PROVE Older(s, r, n.by, n.line)
    <3>1. n.by \in Clients
      BY TypesAre DEF Base, QueuesRight
    <3>2. PICK d, l : d = n.by /\ l = n.line
      OBVIOUS
    <3>3. m.by = d => m.line < l
      BY <1>3, <3>1, <3>2 DEF FeedbackIsNew
    <3>4. Older(s, q, d, l)
      BY <1>4, <3>2 DEF AllInOrder
    <3>5. Older(s, Append(q, m), d, l)
      BY <3>3, <3>4, OlderAppend
    <3> QED
      BY <1>5, <3>2, <3>5
  <2>2. \A n \in ToSet(sq'["TOALL"]) : \A x \in Clients :
          Older(shown'[x], cq'[x], n.by, n.line)
    BY <1>2, <1>4, <1>6, <2>1 DEF AllInOrder
  <2> QED
    BY <1>2, <2>2 DEF AllInOrder
<1>12. FeedbackIsNew'
  <2>1. CASE feedback' = Nothing
    BY <2>1, NothingIs, MessagesTyped DEF FeedbackIsNew
  <2>2. CASE feedback' = feedback
    <3>1. ASSUME feedback.by \in Clients, feedback.kind = "TOALL", NEW j \in to \ {i}
          PROVE  Older(shown'[clients'[j]], cq'[clients'[j]], feedback.by, feedback.line)
      <4>1. clients[j] \in Clients /\ j \in Slots
        BY <3>1, ReceiversAre
      <4>2. clients[j] # c
        BY <1>1, <3>1, <4>1, MessagesTyped DEF Base, SlotsRight
      <4>3. Older(shown[clients[j]], cq[clients[j]], feedback.by, feedback.line)
        BY <3>1 DEF FeedbackIsNew
      <4> QED
        BY <1>2, <1>6, <4>1, <4>2, <4>3
    <3> QED
      BY <1>1, <1>2, <1>8, <2>2, <3>1 DEF FeedbackIsNew
  <2> QED
    BY <1>2, <2>1, <2>2
<1>13. OrderKept'
  <2>1. InOrder(s, q)
    BY <1>4 DEF OrderKept, InOrder
  <2>2. m.kind = "TOALL" => m.by \in Clients /\ Older(s, q, m.by, m.line)
    BY <1>1, <1>3, <1>4 DEF Base, ServerRight, Signed, FeedbackIsNew
  <2>3. InOrder(s, Append(q, m))
    BY <2>1, <2>2, InOrderAppend
  <2>4. \A x \in Clients : InOrder(shown'[x], cq'[x])
    BY <1>2, <1>4, <1>5, <1>6, <2>3, ZenonT(60) DEF OrderKept, InOrder
  <2> QED
    BY <2>4 DEF OrderKept, InOrder
<1> QED
  BY <1>7, <1>10, <1>11, <1>12, <1>13

\* A client's line gets into the server's queue: it is newer than all that the server and
\* the clients have of this client's.
LEMMA MsgsndOrder ==
  ASSUME Base, Base', Order, NEW c \in Clients, Msgsnd(c)
  PROVE  Order'
<1> USE DEF Order
<1>1. PICK m \in Msg, at \in {"initializing", "listing", "exiting", "looping"} :
        /\ m = outbox[c] /\ m.by = c /\ m.kind = m.type /\ client[c] = "submitting"
        /\ sq' = [sq EXCEPT ![m.type] = Append(@, m)]
        /\ outbox' = [outbox EXCEPT ![c] = Nothing]
        /\ client' = [client EXCEPT ![c] = at]
        /\ UNCHANGED <<clients, feedback, to, cq, lines, shown>>
  BY Submitted
<1>2. PICK t \in Types : t = m.type
  BY MsgFields
<1>3. PICK s \in Seq(Msg) : s = sq[t]
  BY <1>2 DEF Base, Typed
<1>4. PICK r : r = Append(s, m)
  OBVIOUS
<1>5. ToSet(r) = ToSet(s) \union {m}
  BY <1>4, AppendSet
<1>6. sq'[t] = r /\ \A u \in Types \ {t} : sq'[u] = sq[u]
  BY <1>1, <1>2, <1>3, <1>4 DEF Base, Typed
<1>7. \A u \in Types : \A n \in ToSet(sq'[u]) : n \in ToSet(sq[u]) \/ (n = m /\ u = t)
  <2> SUFFICES ASSUME NEW u \in Types, NEW n \in ToSet(sq'[u])
               PROVE  n \in ToSet(sq[u]) \/ (n = m /\ u = t)
    OBVIOUS
  <2>1. CASE u = t
    BY <1>3, <1>5, <1>6, <2>1
  <2>2. CASE u # t
    BY <1>6, <2>2
  <2> QED
    BY <2>1, <2>2
<1>8. \A x \in Clients : client'[x] = IF x = c THEN at ELSE client[x]
  BY <1>1 DEF Base, Typed
<1>9. \A x \in Clients \ {c} : outbox'[x] = outbox[x]
  BY <1>1 DEF Base, Typed
<1>10. LinesTyped'
  BY <1>1 DEF LinesTyped
<1>11. /\ \A d \in Clients \ {c} : /\ NextLine(d)' = NextLine(d)
                                   /\ Written(d)' <=> Written(d)
       /\ ~Written(c)'
  BY <1>1, <1>8, <1>9 DEF NextLine, Written
<1>12. t \in {"TOALL", "TOONE"} => m.line = NextLine(c) /\ m.line < NextLine(c)'
  <2>1. ASSUME t \in {"TOALL", "TOONE"} PROVE m.line = lines[c] /\ NextLine(c) = lines[c]
    BY <1>1, <1>2, <2>1 DEF NextIsNew, NextLine, Written
  <2>2. NextLine(c)' = lines[c] + 1
    BY <1>1, <1>11 DEF NextLine
  <2>3. lines[c] \in Nat
    BY DEF LinesTyped
  <2> QED
    BY <2>1, <2>2, <2>3
<1>13. \A d \in Clients : NextLine(d)' >= NextLine(d)
  <2>1. NextLine(c)' = lines[c] + 1 /\ NextLine(c) \in {lines[c], lines[c] + 1}
    BY <1>1, <1>11 DEF NextLine
  <2>2. lines[c] \in Nat
    BY DEF LinesTyped
  <2>3. NextLine(c)' >= NextLine(c)
    BY <2>1, <2>2
  <2> QED
    BY <1>11, <2>3, NextLineTyped
<1>14. NextIsNew'
  <2> SUFFICES ASSUME NEW d \in Clients
               PROVE  /\ Written(d)' => outbox'[d].line = lines'[d]
                      /\ \A u \in {"TOALL", "TOONE"} : \A n \in ToSet(sq'[u]) :
                           n.by = d => n.line < NextLine(d)'
                      /\ \A x \in Clients : Older(shown'[x], cq'[x], d, NextLine(d)')
    BY DEF NextIsNew
  <2>1. Written(d)' => outbox'[d].line = lines'[d]
    BY <1>1, <1>9, <1>11 DEF NextIsNew
  <2>2. PICK n \in Nat, k \in Nat : n = NextLine(d) /\ k = NextLine(d)' /\ n <= k
    BY <1>10, <1>13, NextLineTyped, NextLineTypedThen
  <2>3. ASSUME NEW u \in {"TOALL", "TOONE"}, NEW l \in ToSet(sq'[u]), l.by = d
        PROVE  l.line < k
    <3>1. l \in ToSet(sq[u]) \/ (l = m /\ u = t)
      BY <1>7, <2>3, TypesAre
    <3>2. CASE l \in ToSet(sq[u])
      <4>1. l.line < n
        BY <2>2, <2>3, <3>2 DEF NextIsNew
      <4>2. l.line \in Nat
        <5>1. sq[u] \in Seq(Msg)
          BY TypesAre, SMTT(60) DEF Base, Typed
        <5>2. l \in Msg
          BY <3>2, <5>1, MembersTyped
        <5> QED
          BY <5>2, MsgFields
      <4> QED
        BY <2>2, <4>1, <4>2
    <3>3. CASE l = m /\ u = t
      BY <1>1, <1>12, <2>2, <2>3, <3>3
    <3> QED
      BY <3>1, <3>2, <3>3
  <2>4. ASSUME NEW x \in Clients PROVE Older(shown[x], cq[x], d, k)
    <3>1. PICK o \in [Clients -> Nat], q \in Seq(Msg) : o = shown[x] /\ q = cq[x]
      BY DEF LinesTyped, Base, Typed
    <3>2. Older(o, q, d, n)
      BY <2>2, <3>1 DEF NextIsNew
    <3>3. Older(o, q, d, k)
      BY <2>2, <3>2, StaysKept, OlderKept
    <3> QED
      BY <3>1, <3>3
  <2> QED
    BY <1>1, <2>1, <2>2, <2>3, <2>4
<1>15. AllInOrder'
  <2>1. CASE t # "TOALL"
    <3>1. sq'["TOALL"] = sq["TOALL"]
      BY <1>6, <2>1, TypesAre
    <3> QED
      BY <1>1, <3>1 DEF AllInOrder
  <2>2. CASE t = "TOALL"
    <3>1. \A n \in ToSet(s) : n.by = m.by => n.line < m.line
      BY <1>1, <1>3, <1>12, <2>2 DEF NextIsNew
    <3>2. Increasing(s)
      BY <1>3, <2>2 DEF AllInOrder
    <3>3. Increasing(r)
      BY <1>4, <3>1, <3>2, IncreasingAppend
    <3>4. \A x \in Clients : Older(shown[x], cq[x], m.by, m.line)
      BY <1>1, <1>12, <2>2 DEF NextIsNew
    <3>5. \A n \in ToSet(r) : \A x \in Clients : Older(shown[x], cq[x], n.by, n.line)
      BY <1>3, <1>5, <2>2, <3>4 DEF AllInOrder
    <3> QED
      BY <1>1, <1>6, <2>2, <3>3, <3>5 DEF AllInOrder
  <2> QED
    BY <2>1, <2>2
<1>16. FeedbackIsNew'
  <2> SUFFICES ASSUME feedback.by \in Clients PROVE FeedbackIsNew'
    BY <1>1 DEF FeedbackIsNew
  <2>1. PICK d \in Clients, l \in Nat : d = feedback.by /\ l = feedback.line
    BY MsgFields DEF Base, Typed
  <2>2. l < NextLine(d)
    BY <2>1 DEF FeedbackIsNew
  <2>3. l < NextLine(d)'
    BY <1>10, <1>13, <2>1, <2>2, NextLineTyped, NextLineTypedThen
  <2>4. ASSUME NEW n \in ToSet(sq'["TOALL"]), n.by = d PROVE l < n.line
    <3>1. n \in ToSet(sq["TOALL"]) \/ (n = m /\ t = "TOALL")
      BY <1>7, TypesAre
    <3> QED
      BY <1>1, <1>12, <2>1, <2>2, <2>4, <3>1 DEF FeedbackIsNew
  <2>5. feedback.kind = "TOALL" =>
          \A i \in to : Older(shown[clients[i]], cq[clients[i]], d, l)
    BY <2>1 DEF FeedbackIsNew
  <2> QED
    BY <1>1, <2>1, <2>3, <2>4, <2>5 DEF FeedbackIsNew
<1>17. OrderKept'
  BY <1>1 DEF OrderKept
<1> QED
  BY <1>10, <1>14, <1>15, <1>16, <1>17

\* A client's step that sends nothing; the client's user may write a line.
LEMMA ClientOrder ==
  ASSUME Base, Base', Order, NEW c \in Clients,
         UNCHANGED <<sq, clients, feedback, to>>,
         \A x \in Clients \ {c} :
           /\ client'[x] = client[x] /\ outbox'[x] = outbox[x] /\ cq'[x] = cq[x]
           /\ lines'[x] = lines[x] /\ shown'[x] = shown[x],
         Fewer(shown[c], cq[c], shown'[c], cq'[c]),
         LinesTyped', NextLine(c)' >= NextLine(c), Written(c)' => outbox'[c].line = lines'[c]
  PROVE  Order'
<1>1. \A x \in Clients \ {c} : NextLine(x)' = NextLine(x) /\ (Written(x)' <=> Written(x))
  BY DEF NextLine, Written
<1>2. \A x \in Clients : NextLine(x)' >= NextLine(x)
  BY <1>1, NextLineTyped DEF Order
<1>3. \A x \in Clients : Written(x)' => outbox'[x].line = lines'[x]
  BY <1>1 DEF Order, NextIsNew
<1>4. \A x \in Clients : Fewer(shown[x], cq[x], shown'[x], cq'[x])
  BY StaysFewer
<1>5. \A t \in Types : Kept(sq[t], sq'[t])
  BY StaysKept
<1>6. Loses
  BY <1>2, <1>4, <1>5 DEF Loses
<1> QED
  BY <1>3, <1>6, RestOrder

\* The same when the user writes nothing.
LEMMA SilentOrder ==
  ASSUME Base, Base', Order, NEW c \in Clients, NEW at \in Places, NEW m \in Msg,
         NEW q \in Seq(Msg),
         client' = [client EXCEPT ![c] = at], outbox' = [outbox EXCEPT ![c] = m],
         cq' = [cq EXCEPT ![c] = q],
         UNCHANGED <<sq, clients, feedback, to, lines>>,
         \A x \in Clients \ {c} : shown'[x] = shown[x],
         shown' \in [Clients -> [Clients -> Nat]],
         Fewer(shown[c], cq[c], shown'[c], q),
         \/ at = "submitting" => m.type \in {"STOP", "INIT"}
         \/ at = client[c] /\ m = outbox[c]
  PROVE  Order'
<1>1. client'[c] = at /\ outbox'[c] = m /\ cq'[c] = q
  BY DEF Base, Typed
<1>2. \A x \in Clients \ {c} : client'[x] = client[x] /\ outbox'[x] = outbox[x] /\ cq'[x] = cq[x]
  BY DEF Base, Typed
<1>3. LinesTyped' /\ lines[c] \in Nat
  BY DEF Order, LinesTyped
<1>4. \/ ~Written(c)'
      \/ (Written(c)' <=> Written(c)) /\ outbox'[c] = outbox[c]
  BY <1>1 DEF Written
<1>5. NextLine(c)' >= NextLine(c)
  <2>1. NextLine(c) \in {lines[c], lines[c] + 1} /\ NextLine(c) \in Nat
    BY <1>3 DEF NextLine
  <2>2. NextLine(c)' = lines[c] + 1 \/ NextLine(c)' = NextLine(c)
    BY <1>4 DEF NextLine
  <2> QED
    BY <1>3, <2>1, <2>2
<1>6. Written(c)' => outbox'[c].line = lines'[c]
  BY <1>4 DEF Order, NextIsNew
<1>7. Fewer(shown[c], cq[c], shown'[c], cq'[c])
  BY <1>1
<1> QED
  BY <1>2, <1>3, <1>5, <1>6, <1>7, ClientOrder

\* The user enters a line: it is the next one.
LEMMA CommandOrder ==
  ASSUME Base, Base', Order, NEW c \in Clients, Command(c)
  PROVE  Order'
<1>1. lines[c] \in Nat /\ lines \in [Clients -> Nat]
  BY DEF Order, LinesTyped
<1>2. PICK m \in Msg :
        /\ m.type \in {"LIST", "TOALL", "TOONE"} /\ m.line = lines'[c]
        /\ client[c] = "looping"
        /\ client' = [client EXCEPT ![c] = "submitting"]
        /\ outbox' = [outbox EXCEPT ![c] = m]
        /\ lines' = [lines EXCEPT ![c] = lines[c] + 1]
        /\ UNCHANGED <<sq, clients, feedback, to, cq, shown>>
  BY <1>1, Commanded
<1>3. \A x \in Clients \ {c} : /\ client'[x] = client[x] /\ outbox'[x] = outbox[x]
                               /\ cq'[x] = cq[x] /\ lines'[x] = lines[x] /\ shown'[x] = shown[x]
  <2>1. \A x \in Clients \ {c} : client'[x] = client[x] /\ outbox'[x] = outbox[x]
    BY <1>2 DEF Base, Typed
  <2>2. \A x \in Clients \ {c} : lines'[x] = lines[x]
    BY <1>1, <1>2
  <2> QED
    BY <1>2, <2>1, <2>2
<1>4. client'[c] = "submitting" /\ outbox'[c] = m
  BY <1>2 DEF Base, Typed
<1>5. lines'[c] = lines[c] + 1 /\ LinesTyped'
  <2>1. lines'[c] = lines[c] + 1
    BY <1>1, <1>2
  <2>2. lines[c] + 1 \in Nat
    BY <1>1
  <2>3. lines' \in [Clients -> Nat]
    BY <1>1, <1>2, <2>2
  <2> QED
    BY <1>2, <2>1, <2>3 DEF Order, LinesTyped
<1>6. Written(c)' /\ ~Written(c)
  BY <1>2, <1>4 DEF Written
<1>7. NextLine(c)' >= NextLine(c)
  <2>1. NextLine(c)' = lines[c] + 1 /\ NextLine(c) = lines[c] + 1
    BY <1>5, <1>6 DEF NextLine
  <2> QED
    BY <1>1, <2>1
<1>8. Fewer(shown[c], cq[c], shown'[c], cq'[c])
  BY <1>2, StaysFewer
<1> QED
  BY <1>2, <1>3, <1>4, <1>5, <1>7, <1>8, ClientOrder

\* The steps by which a client starts, goes on and leaves without touching its queue.
LEMMA StandingOrder ==
  ASSUME Base, Base', Order, NEW c \in Clients,
         Start(c) \/ Stop(c) \/ SigintEarly(c) \/ SigintListing(c)
           \/ EndOfInput(c) \/ BlankLine(c) \/ MsgsndFails(c)
  PROVE  Order'
<1>1. UNCHANGED <<sq, clients, feedback, to, cq, lines, shown>>
  BY DEF Start, Stop, SigintEarly, SigintListing, EndOfInput, BlankLine, MsgsndFails, serverVars
<1>2. PICK at \in Places, m \in Msg :
        /\ client' = [client EXCEPT ![c] = at] /\ outbox' = [outbox EXCEPT ![c] = m]
        /\ at = "submitting" => m.type \in {"STOP", "INIT"}
  <2>1. {"submitting", "exiting", "gone"} \subseteq Places
    BY DEF Places
  <2>2. CASE Start(c)
    <3>1. PICK m : m = Message("INIT", 0, 0, c, 0)
      OBVIOUS
    <3>2. m \in Msg /\ m.type = "INIT"
      BY <3>1, TypesAre, MessagesTyped
    <3>3. client' = [client EXCEPT ![c] = "submitting"] /\ outbox' = [outbox EXCEPT ![c] = m]
      BY <2>2, <3>1 DEF Start, Submits, ClientGoes
    <3> QED
      BY <2>1, <3>2, <3>3
  <2>3. CASE Stop(c) \/ SigintEarly(c) \/ SigintListing(c)
    <3>1. send_stop(c)
      BY <2>3 DEF Stop, SigintEarly, SigintListing
    <3> QED
      BY <2>1, <3>1, StopPrepared
  <2>4. CASE EndOfInput(c) \/ BlankLine(c) \/ MsgsndFails(c)
    <3>1. \E m \in Msg : outbox' = [outbox EXCEPT ![c] = m]
      <4>1. outbox[c] \in Msg /\ outbox = [outbox EXCEPT ![c] = outbox[c]]
        BY DEF Base, Typed
      <4> QED
        BY <2>4, <4>1, NothingIs DEF EndOfInput, BlankLine, MsgsndFails
    <3>2. \E at \in {"exiting", "gone"} : client' = [client EXCEPT ![c] = at]
      BY <2>4 DEF EndOfInput, BlankLine, MsgsndFails, ClientGoes
    <3> QED
      BY <2>1, <3>1, <3>2
  <2> QED
    BY <2>2, <2>3, <2>4
<1>3. PICK q \in Seq(Msg) : q = cq[c]
  BY DEF Base, Typed
<1>4. cq' = [cq EXCEPT ![c] = q]
  BY <1>1, <1>3 DEF Base, Typed
<1>5. Fewer(shown[c], cq[c], shown'[c], q)
  BY <1>1, <1>3, StaysFewer
<1>6. shown' \in [Clients -> [Clients -> Nat]] /\ \A x \in Clients \ {c} : shown'[x] = shown[x]
  BY <1>1 DEF Order, LinesTyped
<1> QED
  BY <1>1, <1>2, <1>4, <1>5, <1>6, SilentOrder

\* A client takes what it waited for out of its queue, or removes the queue.
LEMMA TakingOrder ==
  ASSUME Base, Base', Order, NEW c \in Clients,
         Initialized(c) \/ Listed(c) \/ RemoveQueue(c)
  PROVE  Order'
<1>1. /\ UNCHANGED <<sq, clients, feedback, to, outbox, lines, shown>>
      /\ \E at \in {"looping", "gone"} : client' = [client EXCEPT ![c] = at]
  BY DEF Initialized, Listed, RemoveQueue, ClientGoes, serverVars
<1>2. PICK at \in Places \ {"submitting"} : client' = [client EXCEPT ![c] = at]
  BY <1>1 DEF Places
<1>3. PICK m \in Msg : outbox' = [outbox EXCEPT ![c] = m]
  BY <1>1 DEF Base, Typed
<1>4. PICK q \in Seq(Msg) : cq' = [cq EXCEPT ![c] = q] /\ Kept(cq[c], q)
  <2>1. CASE Initialized(c)
    BY <2>1, Taking DEF Initialized
  <2>2. CASE Listed(c)
    BY <2>2, Taking DEF Listed
  <2>3. CASE RemoveQueue(c)
    <3>1. <<>> \in Seq(Msg)
      OBVIOUS
    <3> QED
      BY <2>3, <3>1, NoneKept DEF RemoveQueue
  <2> QED
    BY <2>1, <2>2, <2>3
<1>5. shown[c] \in [Clients -> Nat] /\ shown'[c] = shown[c] /\ cq[c] \in Seq(Msg)
  BY <1>1 DEF Order, LinesTyped, Base, Typed
<1>6. Fewer(shown[c], cq[c], shown'[c], q)
  BY <1>4, <1>5, KeptFewer
<1>7. shown' \in [Clients -> [Clients -> Nat]] /\ \A x \in Clients \ {c} : shown'[x] = shown[x]
  BY <1>1 DEF Order, LinesTyped
<1> QED
  BY <1>1, <1>2, <1>3, <1>4, <1>6, <1>7, SilentOrder

\* A client shows the first line in its queue.
LEMMA ReadOrder ==
  ASSUME Base, Base', Order, NEW c \in Clients, Read(c)
  PROVE  Order'
<1>1. PICK q \in Seq(Msg), s \in [Clients -> Nat] : q = cq[c] /\ s = shown[c]
  BY DEF Base, Typed, Order, LinesTyped
<1>2. PICK h : h = Head(q)
  OBVIOUS
<1>3. /\ q # <<>> /\ cq' = [cq EXCEPT ![c] = Tail(q)]
      /\ UNCHANGED <<sq, clients, feedback, to, lines>>
      /\ send_stop(c) \/ UNCHANGED <<client, outbox>>
      /\ \/ UNCHANGED shown
         \/ /\ h.type = "TOALL" /\ h.line > shown[c][h.by]
            /\ shown' = [shown EXCEPT ![c][h.by] = h.line]
  BY <1>1, <1>2 DEF Read, serverVars
<1>4. PICK r \in Seq(Msg) : r = Tail(q) /\ h \in Msg /\ h \in ToSet(q) /\ Kept(q, r)
  BY <1>2, <1>3, TailKept
<1>5. \A m \in ToSet(q) : Signed(m)
  BY <1>1 DEF Base, QueuesRight
<1>6. PICK m \in Msg, at \in Places :
        /\ client' = [client EXCEPT ![c] = at] /\ outbox' = [outbox EXCEPT ![c] = m]
        /\ m.type = "STOP" \/ (at = client[c] /\ m = outbox[c])
  <2>1. CASE send_stop(c)
    <3>1. PICK m \in Msg :
            /\ m.type = "STOP"
            /\ client' = [client EXCEPT ![c] = "submitting"]
            /\ outbox' = [outbox EXCEPT ![c] = m]
      BY <2>1, StopPrepared
    <3>2. PICK at \in Places : at = "submitting"
      BY DEF Places
    <3>3. client' = [client EXCEPT ![c] = at] /\ outbox' = [outbox EXCEPT ![c] = m]
      BY <3>1, <3>2
    <3> QED
      BY <3>1, <3>3
  <2>2. CASE UNCHANGED <<client, outbox>>
    <3>1. PICK m \in Msg, at \in Places : m = outbox[c] /\ at = client[c]
      BY DEF Base, Typed
    <3>2. client' = [client EXCEPT ![c] = at] /\ outbox' = [outbox EXCEPT ![c] = m]
      BY <2>2, <3>1 DEF Base, Typed
    <3> QED
      BY <3>1, <3>2
  <2> QED
    BY <1>3, <2>1, <2>2
<1>7. /\ shown' \in [Clients -> [Clients -> Nat]] /\ \A y \in Clients \ {c} : shown'[y] = shown[y]
      /\ Fewer(shown[c], cq[c], shown'[c], r)
  <2>1. CASE UNCHANGED shown
    <3>1. Fewer(shown[c], cq[c], shown'[c], r)
      BY <1>1, <1>4, <2>1, KeptFewer
    <3> QED
      BY <2>1, <3>1 DEF Order, LinesTyped
  <2>2. CASE /\ h.type = "TOALL" /\ h.line > shown[c][h.by]
             /\ shown' = [shown EXCEPT ![c][h.by] = h.line]
    <3>1. PICK x \in Clients, l \in Nat : h.by = x /\ h.line = l
      BY <1>4, <1>5, <2>2, MsgFields DEF Signed
    <3>2. PICK s1 : s1 = [s EXCEPT ![x] = l]
      OBVIOUS
    <3>3. s1 \in [Clients -> Nat] /\ s1[x] = l /\ \A d \in Clients \ {x} : s1[d] = s[d]
      BY <3>2
    <3>4. l \in {h.line, s[x]} /\ l >= h.line /\ l >= s[x]
      BY <1>1, <2>2, <3>1
    <3>5. PICK k : k = l
      OBVIOUS
    <3>6. k \in {h.line, s[x]} /\ k >= h.line /\ k >= s[x] /\ s1[x] = k
      BY <3>3, <3>4, <3>5
    <3>7. Fewer(s, q, s1, Tail(q))
      BY <1>2, <1>3, <1>5, <3>1, <3>3, <3>6, ReadFewer
    <3>8. shown' = [shown EXCEPT ![c] = s1]
      BY <1>1, <2>2, <3>1, <3>2 DEF Order, LinesTyped
    <3>9. /\ shown' \in [Clients -> [Clients -> Nat]] /\ shown'[c] = s1
          /\ \A y \in Clients \ {c} : shown'[y] = shown[y]
      BY <3>3, <3>8 DEF Order, LinesTyped
    <3> QED
      BY <1>1, <1>4, <3>7, <3>9
  <2> QED
    BY <1>3, <2>1, <2>2
<1> QED
  BY <1>3, <1>4, <1>6, <1>7, SilentOrder

-----------------------------------------------------------------------------
(* The theorems. *)

\* It holds when the server has started and no client has ...
LEMMA InitIInv == Init => IInv
<1> SUFFICES ASSUME Init PROVE IInv
  OBVIOUS
<1>1. /\ sq = [t \in Types |-> <<>>] /\ sq_exists = TRUE
      /\ clients = [i \in Slots |-> NoQueue] /\ server = "receiving" /\ feedback = Nothing
      /\ to = {} /\ cq = [c \in Clients |-> <<>>] /\ cq_exists = [c \in Clients |-> FALSE]
      /\ client = [c \in Clients |-> "starting"] /\ client_id = [c \in Clients |-> 0]
      /\ outbox = [c \in Clients |-> Nothing] /\ lines = [c \in Clients |-> 0]
      /\ shown = [c \in Clients |-> [d \in Clients |-> 0]] /\ accidents = {}
  BY DEF Init
<1>2. /\ \A t \in Types : sq[t] = <<>> /\ ToSet(sq[t]) = {} /\ OneEach(sq[t])
      /\ \A c \in Clients : cq[c] = <<>> /\ ToSet(cq[c]) = {} /\ Len(cq[c]) = 0
      /\ \A c \in Clients : client[c] = "starting"
      /\ \A i \in Slots : clients[i] = NoQueue
  BY <1>1 DEF ToSet, OneEach
<1>3. \A m : m \notin Pending
  BY <1>2, PendingAre
<1>4. Typed
  <2>1. <<>> \in Seq(Msg) /\ "starting" \in Places
    BY DEF Places
  <2>2. sq \in [Types -> Seq(Msg)] /\ cq \in [Clients -> Seq(Msg)]
    BY <1>1, <2>1
  <2>3. client \in [Clients -> Places] /\ cq_exists \in [Clients -> BOOLEAN]
    BY <1>1, <2>1
  <2>4. client_id \in [Clients -> Slots] /\ outbox \in [Clients -> Msg]
    BY <1>1, NothingIs, MessagesTyped
  <2>5. clients \in [Slots -> Clients \union {NoQueue, BadQueue}]
    BY <1>1
  <2> QED
    BY <1>1, <2>2, <2>3, <2>4, <2>5, NothingIs DEF Typed
<1>5. QueuesRight
  <2>1. /\ Len(sq["STOP"]) = 0 /\ Len(sq["LIST"]) = 0 /\ Len(sq["TOALL"]) = 0
        /\ Len(sq["TOONE"]) = 0 /\ Len(sq["INIT"]) = 0
    BY <1>2, TypesAre
  <2>2. SqLength <= QueueMax /\ \A c \in Clients : Len(cq[c]) <= QueueMax
    BY <1>2, <2>1, ChatAssumption DEF SqLength
  <2> QED
    BY <1>2, <2>2 DEF QueuesRight
<1>6. ServerRight
  BY <1>1, NothingIs DEF ServerRight, Signed
<1>7. OutboxRight /\ QueuesThere
  BY <1>2 DEF OutboxRight, QueuesThere
<1>8. StopsLast
  BY <1>2, TypesAre DEF StopsLast
<1>9. InitsFirst
  BY <1>2, TypesAre, MessagesTyped DEF InitsFirst
<1>10. SlotsRight
  BY <1>2, ChatAssumption DEF SlotsRight
<1>11. \A c \in Clients : ~Active(c) /\ ~Leaving(c)
  BY <1>2, <1>3 DEF Active, Announced, Leaving
<1>12. IdsRight /\ LeaversTell
  BY <1>11 DEF IdsRight, LeaversTell
<1>13. SenderRight
  BY <1>3 DEF SenderRight
<1>14. AnswerRight
  BY <1>2 DEF AnswerRight
<1>15. Base
  BY <1>4, <1>5, <1>6, <1>7, <1>8, <1>9, <1>10, <1>12, <1>13, <1>14 DEF Base
<1>16. LinesTyped
  BY <1>1 DEF LinesTyped
<1>17. NextIsNew
  <2>1. \A d \in Clients : ~Written(d) /\ NextLine(d) = 1
    BY <1>1, <1>2 DEF Written, NextLine
  <2>2. \A c, d \in Clients : Older(shown[c], cq[c], d, 1)
    BY <1>1, <1>2 DEF Older
  <2> QED
    BY <1>2, <2>1, <2>2, TypesAre DEF NextIsNew
<1>18. AllInOrder /\ FeedbackIsNew
  BY <1>1, <1>2, TypesAre, NothingIs, MessagesTyped DEF AllInOrder, Increasing, FeedbackIsNew
<1>19. OrderKept
  BY <1>2 DEF OrderKept
<1> QED
  BY <1>15, <1>16, <1>17, <1>18, <1>19 DEF IInv, Order

\* ... and every step keeps it.
LEMMA NextIInv == IInv /\ [Next]_vars => IInv'
<1> SUFFICES ASSUME IInv, [Next]_vars PROVE IInv'
  OBVIOUS
<1>1. Base /\ Order
  BY DEF IInv
<1>2. CASE Receive
  BY <1>1, <1>2, ReceiveBase, ReceiveOrder DEF IInv
<1>3. CASE SendOne
  BY <1>1, <1>3, SendOneBase, SendOneOrder DEF IInv
<1>4. CASE SendFails \/ sigint_handler
  BY <1>1, <1>4, EndsBase, EndsOrder DEF IInv
<1>5. CASE RemoveServerQueue
  BY <1>1, <1>5, RemoveServerQueueBase, EndsOrder DEF IInv
<1>6. ASSUME NEW c \in Clients, ClientStep(c) PROVE IInv'
  <2>1. CASE Start(c)
    BY <1>1, <2>1, StartBase, StandingOrder DEF IInv
  <2>2. CASE Initialized(c)
    BY <1>1, <2>2, InitializedBase, TakingOrder DEF IInv
  <2>3. CASE Listed(c)
    BY <1>1, <2>3, ListedBase, TakingOrder DEF IInv
  <2>4. CASE Read(c)
    BY <1>1, <2>4, ReadBase, ReadOrder DEF IInv
  <2>5. CASE Msgsnd(c)
    BY <1>1, <2>5, MsgsndBase, MsgsndOrder DEF IInv
  <2>6. CASE MsgsndFails(c)
    BY <1>1, <2>6, LeavesBase, StandingOrder DEF IInv
  <2>7. CASE RemoveQueue(c)
    BY <1>1, <2>7, RemoveQueueBase, TakingOrder DEF IInv
  <2> QED
    BY <1>6, <2>1, <2>2, <2>3, <2>4, <2>5, <2>6, <2>7 DEF ClientStep
<1>7. ASSUME NEW c \in Clients, Command(c) PROVE IInv'
  <2>1. lines[c] \in Nat
    BY <1>1 DEF Order, LinesTyped
  <2> QED
    BY <1>1, <1>7, <2>1, CommandBase, CommandOrder DEF IInv
<1>8. ASSUME NEW c \in Clients, Stop(c) PROVE IInv'
  BY <1>1, <1>8, StopBase, StandingOrder DEF IInv
<1>9. ASSUME NEW c \in Clients, Accident(c) PROVE IInv'
  <2>1. CASE SigintEarly(c) \/ SigintListing(c)
    BY <1>1, <2>1, StopBase, StandingOrder DEF IInv
  <2>2. CASE EndOfInput(c) \/ BlankLine(c)
    BY <1>1, <2>2, LeavesBase, StandingOrder DEF IInv
  <2> QED
    BY <1>9, <2>1, <2>2 DEF Accident
<1>10. CASE UNCHANGED vars
  <2>1. UNCHANGED <<sq, sq_exists, clients, server, feedback, to, cq, cq_exists, client,
                    client_id, outbox, lines, shown, accidents>>
    BY <1>10 DEF vars, serverVars, clientVars
  <2>2. Base'
    <3>1. Typed' /\ ServerRight'
      BY <1>1, <2>1 DEF Base, Typed, ServerRight, Registered
    <3> QED
      BY <1>1, <2>1, <3>1, RestStays DEF Base
  <2>3. \A t \in Types : Kept(sq[t], sq'[t])
    BY <2>1, StaysKept
  <2> QED
    BY <1>1, <2>1, <2>2, <2>3, ServerLoses, RestOrder DEF IInv
<1> QED
  BY <1>2, <1>3, <1>4, <1>5, <1>6, <1>7, <1>8, <1>9, <1>10 DEF Next, ServerStep

\* In every state of server and clients the queues, the slots and the ids agree, and the
\* lines are in order (server.c and client.c of cw06/zad1).
THEOREM Invariance == Spec => []IInv
BY InitIInv, NextIInv, PTL DEF Spec

\* No queue holds more than it can, the server sends to slots there are, and so on.
THEOREM TypeCorrect == Spec => []TypeOK
<1>1. IInv => TypeOK
  BY DEF IInv, Base, Typed, Places, QueuesRight, TypeOK
<1> QED
  BY <1>1, Invariance, PTL

\* A client's id is the number of its slot from the answer to its INIT until its STOP has
\* been handled, and no queue has two slots (handle_init, handle_stop; initialize).
THEOREM TableIsRight == Spec => []TableRight
<1>1. IInv => TableRight
  BY ChatAssumption DEF IInv, Base, IdsRight, SlotsRight, IdsKnown, TableRight
<1> QED
  BY <1>1, Invariance, PTL

\* No message in the server's queue names the slot of another client as its sender's, for
\* a slot is given away by the type that all others overtake (msgrcv with -6).
THEOREM SendersAreRight == Spec => []SenderRight
<1>1. IInv => SenderRight
  BY DEF IInv, Base
<1> QED
  BY <1>1, Invariance, PTL

\* While the server has its queue, a slot the queue of which has gone is that of a client
\* whose STOP waits (send_stop before close_on_exit, client.c).
THEOREM LeaversAreAnnounced == Spec => []LeaversAnnounced
<1>1. IInv => LeaversAnnounced
  <2> SUFFICES ASSUME IInv, Harmless, NEW i \in Slots, clients[i] # NoQueue, ~Reachable(i)
               PROVE  Announced(clients[i])
    BY DEF LeaversAnnounced, Harmless
  <2> USE DEF IInv, Base
  <2>1. PICK c \in Clients : c = clients[i] /\ ~cq_exists[c]
    BY DEF Typed, SlotsRight, Harmless, IdsKnown, Reachable
  <2>2. client[c] \in {"starting", "gone"}
    BY <2>1 DEF QueuesThere
  <2>3. client[c] # "starting"
    BY <2>1 DEF InitsFirst, Outside
  <2>4. Leaving(c)
    BY <2>1, <2>2, <2>3 DEF Leaving
  <2> QED
    BY <2>1, <2>4 DEF LeaversTell
<1> QED
  BY <1>1, Invariance, PTL

\* Nobody is shown a 2ALL line after a later line of the same user: 2ALL overtakes 2ONE,
\* and never the other way round (the types in the header, handle_toall, handle_toone).
THEOREM LinesInOrder == Spec => []OrderKept
<1>1. IInv => OrderKept
  BY DEF IInv, Order
<1> QED
  BY <1>1, Invariance, PTL
=============================================================================
