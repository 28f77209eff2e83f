---------------------------- MODULE PizzeriaPosix ----------------------------
(****************************************************************************)
(* cw07/zad2: the pizzeria with five named POSIX semaphores.  A sem_wait    *)
(* takes one semaphore only, so a worker that needs two holds the first     *)
(* while it waits for the second, and what zad1 does in one semop takes up  *)
(* to three steps.  In                                                      *)
(*    (sem_wait(a) == -1) | (sem_wait(b) == -1)                             *)
(* C leaves the order of the calls open; the model takes them from left to  *)
(* right, as the compiler of the Makefile does.  A cook takes its pizza out *)
(* of the oven, and waits for a place on the table with OVEN_USED in hand.  *)
(****************************************************************************)
EXTENDS OvenTable

sem_wait(s) == sem[s] > 0 /\ sem' = [sem EXCEPT ![s] = @ - 1]
sem_post(s) == sem' = [sem EXCEPT ![s] = @ + 1]

\* Worker w calls sem_wait or sem_post, and nothing else.
Waits(w, from, s, to) ==
  Moves(w, from, to) /\ sem_wait(s) /\ UNCHANGED <<memory, locals>>
Posts(w, from, s, to) ==
  Moves(w, from, to) /\ sem_post(s) /\ UNCHANGED <<memory, locals>>

Init ==
  /\ InitMemory
  /\ pc = [w \in Workers |-> IF w \in Cooks THEN "prepare" ELSE "wait_ready"]

-----------------------------------------------------------------------------
(* make_pizza *)

\* (sem_wait(oven_space) == -1) | (sem_wait(oven_used) == -1)
\* Not the code: the two calls in the other order.
EnterOvenUsedFirst(c) ==
  \/ Waits(c, "wait_oven_space", "OVEN_USED", "wait_oven_used")
  \/ Waits(c, "wait_oven_used", "OVEN_SPACE", "find_oven")

EnterOven(c) ==
  \/ Waits(c, "wait_oven_space", "OVEN_SPACE", "wait_oven_used")
  \/ Waits(c, "wait_oven_used", "OVEN_USED", "find_oven")

LeaveOven(c) == Posts(c, "post_oven_used", "OVEN_USED", "rewait_oven_used")

\* Not the code: the second sem_wait(oven_used) left out.
SkipReenter(c) ==
  /\ Moves(c, "rewait_oven_used", "take_out")
  /\ UNCHANGED <<sem, memory, locals>>

ReenterOven(c) == Waits(c, "rewait_oven_used", "OVEN_USED", "take_out")

FreeOvenSpace(c) == Posts(c, "post_oven_space", "OVEN_SPACE", "wait_table_space")

\* (sem_wait(table_space) == -1) | (sem_wait(table_used) == -1)
EnterTable(c) ==
  \/ Waits(c, "wait_table_space", "TABLE_SPACE", "wait_table_used")
  \/ Waits(c, "wait_table_used", "TABLE_USED", "find_table")

\* sem_post(table_ready) | sem_post(oven_used) | sem_post(table_used), and
\* make_pizza returns.
LeaveBoth(c) ==
  \/ Posts(c, "post_ready", "TABLE_READY", "post_oven_used_again")
  \/ Posts(c, "post_oven_used_again", "OVEN_USED", "post_table_used")
  \/ /\ Moves(c, "post_table_used", "prepare")
     /\ sem_post("TABLE_USED")
     /\ Returns(c)
     /\ UNCHANGED <<memory, reg>>

make_pizza(c) ==
  \/ Prepare(c, "wait_oven_space")
  \/ EnterOven(c)
  \/ FindOven(c)
  \/ PutOven(c)
  \/ CountOven(c, "post_oven_used")
  \/ LeaveOven(c)
  \/ ReenterOven(c)
  \/ TakeOut(c)
  \/ UncountOven(c, "post_oven_space")
  \/ FreeOvenSpace(c)
  \/ EnterTable(c)
  \/ FindTable(c)
  \/ PutTable(c)
  \/ CountTable(c, "post_ready")
  \/ LeaveBoth(c)

-----------------------------------------------------------------------------
(* deliver_pizza *)

\* (sem_wait(table_ready) == -1) | (sem_wait(table_used) == -1)
\* Not the code: only the first of the two calls.
ComeReadyOnly(d) == Waits(d, "wait_ready", "TABLE_READY", "find_taken")

Come(d) ==
  \/ Waits(d, "wait_ready", "TABLE_READY", "wait_used")
  \/ Waits(d, "wait_used", "TABLE_USED", "find_taken")

\* sem_post(table_space) | sem_post(table_used)
Leave(d) ==
  \/ Posts(d, "post_space", "TABLE_SPACE", "post_used")
  \/ Posts(d, "post_used", "TABLE_USED", "deliver")

deliver_pizza(d) ==
  \/ Come(d)
  \/ FindTaken(d)
  \/ Take(d)
  \/ UncountTable(d, "post_space")
  \/ Leave(d)
  \/ Deliver(d, "wait_ready")

-----------------------------------------------------------------------------

Next ==
  \/ \E c \in Cooks : make_pizza(c)
  \/ \E d \in Deliverers : deliver_pizza(d)
  \/ \E w \in Workers : HangUp(w)

Spec == Init /\ [][Next]_vars

\* As in zad1: a live worker that can go on does so in the end.  Nothing is
\* assumed about which of several waiting processes a sem_post lets in.
Fairness ==
  /\ \A c \in Cooks : WF_vars(make_pizza(c))
  /\ \A d \in Deliverers : WF_vars(deliver_pizza(d))

FairSpec == Spec /\ Fairness

-----------------------------------------------------------------------------
(* Where a pizza is. *)

Baking == {"count_oven", "post_oven_used", "rewait_oven_used", "take_out"}
Carrying ==
  {"uncount_oven", "post_oven_space", "wait_table_space", "wait_table_used",
   "find_table", "put_table"}
Delivering == {"uncount_table", "post_space", "post_used", "deliver"}

CookSteps ==
  {"prepare", "wait_oven_space", "wait_oven_used", "find_oven", "put_oven",
   "count_table", "post_ready", "post_oven_used_again", "post_table_used"}
     \union Baking \union Carrying
DelivererSteps ==
  {"wait_ready", "wait_used", "find_taken", "take", "uncount_table", "post_space",
   "post_used", "deliver"}

-----------------------------------------------------------------------------
(* Properties: those of zad1, kept by other means. *)

\* Type invariant, with the bounds of the semaphores.
TypeOK ==
  /\ MemoryTypeOK
  /\ \A s \in DOMAIN InitialSem : sem[s] <= SemLimit[s]
  /\ \A c \in Cooks : pc[c] \in CookSteps
  /\ \A d \in Deliverers : pc[d] \in DelivererSteps

\* Whoever is let in sees counters that agree with the arrays.
CountersAgree ==
  /\ CooksAt({"count_oven", "uncount_oven"}) = {} =>
       oven_quan = Cardinality(Occupied(oven, OvenSlots))
  /\ At({"count_table", "uncount_table"}) = {} =>
       table_quan = Cardinality(Occupied(table, TableSlots))

\* This pizzeria, too, is a PizzaLine: whoever looks for a slot finds one (the limits
\* of wnioski.txt:3), and nobody else uses it.
baking == [c \in Cooks |-> IF pc[c] \in Baking THEN pizza_spot[c] ELSE NoSpot]
carried ==
  [w \in Workers |-> IF pc[w] \in Carrying \union Delivering THEN pizza_type[w] ELSE NoPizza]
Line == INSTANCE PizzaLine
          WITH oven <- oven, table <- table, baking <- baking, carried <- carried
LineSpec == Line!Spec

\* Pizzas are delivered for ever, while no worker is killed, though a cook that waits
\* for the table keeps everyone else from the oven.
AllAlive == \A w \in Workers : alive[w]
KeepsDelivering == []AllAlive => []<>(\E d \in Deliverers : pc[d] = "deliver")
=============================================================================
