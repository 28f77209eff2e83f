-------------------------------- MODULE Santa --------------------------------
(****************************************************************************)
(* cw09/zad1: Santa, the reindeer and the elves are threads that share two  *)
(* counters, the array elves_id, one mutex and condition variables.         *)
(*                                                                          *)
(* All shared data is touched with the mutex held, so what a thread does    *)
(* from pthread_mutex_lock (or from a pthread_cond_wait that returns) to    *)
(* the next unlock or cond_wait is one step.  A thread that waits for a     *)
(* condition stays where it is in pc; "woken" holds those that were         *)
(* signalled, or woke up for no reason, and still have to get the mutex     *)
(* back: others may come first.  Santa ends with the mutex locked.          *)
(****************************************************************************)
EXTENDS Integers, FiniteSets

CONSTANTS
  Reindeer, Elves,      \* the threads: REINDEER_NUM and ELF_NUM are their numbers
  ELVES_REQUIRED, SANTA_DELIVERIES,
  santa,                \* Santa's thread
  NoElf                 \* an entry of elves_id nobody has written

REINDEER_NUM == Cardinality(Reindeer)
ELF_NUM == Cardinality(Elves)
Threads == Reindeer \union Elves \union {santa}
Indices == 0 .. ELVES_REQUIRED - 1

ASSUME SantaAssumption ==
  /\ IsFiniteSet(Reindeer) /\ IsFiniteSet(Elves)
  /\ Reindeer \cap Elves = {}
  /\ santa \notin Reindeer \union Elves
  /\ NoElf \notin Elves
  /\ ELVES_REQUIRED \in 1 .. ELF_NUM
  /\ REINDEER_NUM > 0
  /\ SANTA_DELIVERIES \in Nat \ {0}

VARIABLES
  pc,           \* where each thread is, with the mutex in nobody's hands
  woken,        \* the threads back from pthread_cond_wait, on their way to the mutex
  locked,       \* Santa has ended with the mutex in his hands
  reindeers, elves, elves_id,
  deliveries,   \* a local variable of Santa's
  index,        \* a local variable of each elf
  overtaken     \* history: who came back from a nap ahead of those just released

vars == <<pc, woken, locked, reindeers, elves, elves_id, deliveries, index, overtaken>>

-----------------------------------------------------------------------------

\* pthread_cond_wait of each condition variable: where its waiters stand.
cond_santa == {"asleep"}
cond_reindeer == {"waiting"}
cond_elves == {"registered", "served", "waiting_return"}

Waiting(cond) == {t \in Threads : pc[t] \in cond}

\* Thread t goes on from where it is to "to", which may be a wait.
Goes(t, to) == pc' = [pc EXCEPT ![t] = to]
\* It has the mutex, and may have come from one of the waits.
Enters(t) == ~locked /\ (t \in Waiting(cond_santa \union cond_reindeer \union cond_elves)
                           => t \in woken)

Init ==
  /\ pc = [t \in Threads |-> IF t = santa THEN "start"
                             ELSE IF t \in Reindeer THEN "resting" ELSE "working"]
  /\ woken = {}
  /\ locked = FALSE
  /\ reindeers = 0
  /\ elves = 0
  /\ elves_id = [i \in Indices |-> NoElf]
  /\ deliveries = 0
  /\ index = [e \in Elves |-> 0]
  /\ overtaken = {}

-----------------------------------------------------------------------------
(* start_routine_santa *)

\* Santa's next move once he neither sleeps nor delivers: lines 46 to 63 up to
\* the sleep.  Helping starts with a broadcast to the elves.
Helps ==
  /\ elves = ELVES_REQUIRED
  /\ Goes(santa, "helping")
  /\ woken' = (woken \union Waiting(cond_elves)) \ {santa}

\* Lines 31 to 39, or 50 to 58 when there is no delivery to make.
SantaLooks ==
  /\ pc[santa] \in {"start", "asleep"}
  /\ Enters(santa)
  /\ \/ /\ reindeers < REINDEER_NUM /\ elves < ELVES_REQUIRED
        /\ Goes(santa, "asleep")
        /\ woken' = woken \ {santa}
     \/ /\ reindeers = REINDEER_NUM
        /\ Goes(santa, "delivering")
        /\ woken' = woken \ {santa}
     \/ /\ reindeers # REINDEER_NUM
        /\ Helps
  /\ UNCHANGED <<locked, reindeers, elves, elves_id, deliveries, index, overtaken>>

\* Not the code: the broadcast of line 44 left out.
SantaForgetsReindeer ==
  /\ pc[santa] = "delivering"
  /\ Enters(santa)
  /\ reindeers' = 0
  /\ deliveries' = deliveries + 1
  /\ locked' = (deliveries' = SANTA_DELIVERIES)
  /\ Goes(santa, IF locked' THEN "done" ELSE "start")
  /\ UNCHANGED <<woken, elves, elves_id, index, overtaken>>

\* Lines 41 to 64: the delivery is made, and elves that wait are helped at once.
\* After the last delivery the thread ends with the mutex locked (line 48).
SantaDelivers ==
  /\ pc[santa] = "delivering"
  /\ Enters(santa)
  /\ reindeers' = 0
  /\ deliveries' = deliveries + 1
  /\ LET released == woken \union Waiting(cond_reindeer) IN
       \/ /\ deliveries' = SANTA_DELIVERIES
          /\ Goes(santa, "done")
          /\ locked' = TRUE
          /\ woken' = released
       \/ /\ deliveries' # SANTA_DELIVERIES
          /\ elves = ELVES_REQUIRED
          /\ Goes(santa, "helping")
          /\ woken' = released \union Waiting(cond_elves)
          /\ UNCHANGED locked
       \/ /\ deliveries' # SANTA_DELIVERIES
          /\ elves # ELVES_REQUIRED
          /\ Goes(santa, "start")
          /\ woken' = released
          /\ UNCHANGED locked
  /\ UNCHANGED <<elves, elves_id, index, overtaken>>

\* Lines 60 to 64.
SantaHelped ==
  /\ pc[santa] = "helping"
  /\ Enters(santa)
  /\ elves' = 0
  /\ woken' = woken \union Waiting(cond_elves)
  /\ Goes(santa, "start")
  /\ UNCHANGED <<locked, reindeers, elves_id, deliveries, index, overtaken>>

start_routine_santa == SantaLooks \/ SantaDelivers \/ SantaHelped

-----------------------------------------------------------------------------
(* start_routine_reindeer *)

\* pthread_cond_signal(&cond_santa)
WakeSanta == Waiting(cond_santa)

\* Not the code: the last reindeer does not signal.
ReindeerSilent(r) ==
  /\ pc[r] = "resting"
  /\ Enters(r)
  /\ reindeers' = reindeers + 1
  /\ Goes(r, "waiting")
  /\ UNCHANGED <<woken, locked, elves, elves_id, deliveries, index, overtaken>>

\* Lines 77 to 85, when the nap is over.
ReindeerComes(r) ==
  /\ pc[r] = "resting"
  /\ Enters(r)
  /\ reindeers' = reindeers + 1
  /\ woken' = woken \union IF reindeers' = REINDEER_NUM THEN WakeSanta ELSE {}
  /\ Goes(r, "waiting")
  /\ overtaken' = IF reindeers = 0 /\ woken \cap Reindeer # {}
                    THEN overtaken \union {"reindeer"} ELSE overtaken
  /\ UNCHANGED <<locked, elves, elves_id, deliveries, index>>

\* Not the code: an "if" for the "while" of line 84.
ReindeerLeavesAtOnce(r) ==
  /\ pc[r] = "waiting"
  /\ Enters(r)
  /\ woken' = woken \ {r}
  /\ Goes(r, "resting")
  /\ UNCHANGED <<locked, reindeers, elves, elves_id, deliveries, index, overtaken>>

\* Lines 84 to 87: the wait of line 85 is over.
ReindeerWakes(r) ==
  /\ pc[r] = "waiting"
  /\ Enters(r)
  /\ woken' = woken \ {r}
  /\ Goes(r, IF reindeers > 0 THEN "waiting" ELSE "resting")
  /\ UNCHANGED <<locked, reindeers, elves, elves_id, deliveries, index, overtaken>>

start_routine_reindeer(r) == ReindeerComes(r) \/ ReindeerWakes(r)

-----------------------------------------------------------------------------
(* start_routine_elf.  "working" is line 100 with was_waiting = 0, "back" with *)
(* was_waiting = 1: such an elf takes no nap before it locks the mutex again.  *)

\* Not the code: one elf too many is let in.
HasRoomForOneMore == elves <= ELVES_REQUIRED

HasRoom == elves < ELVES_REQUIRED

\* Lines 100 to 111, and 120 to 124 for an elf that finds the others with Santa.
ElfComes(e) ==
  /\ pc[e] \in {"working", "back"}
  /\ Enters(e)
  /\ \/ /\ HasRoom
        /\ index' = [index EXCEPT ![e] = elves]
        /\ elves_id' = [elves_id EXCEPT ![elves] = e]
        /\ elves' = elves + 1
        /\ woken' = woken \union IF elves' = ELVES_REQUIRED THEN WakeSanta ELSE {}
        /\ Goes(e, "registered")
     \/ /\ ~HasRoom
        /\ Goes(e, "waiting_return")
        /\ UNCHANGED <<index, elves_id, elves, woken>>
  /\ overtaken' = IF pc[e] = "working" /\ elves = 0 /\ woken \cap Elves # {}
                    THEN overtaken \union {"elf"} ELSE overtaken
  /\ UNCHANGED <<locked, reindeers, deliveries>>

\* Lines 118 to 127: an elf that is through looks for a group under way.
Leaves(e) ==
  /\ Goes(e, IF elves = ELVES_REQUIRED THEN "waiting_return" ELSE "working")
  /\ index' = [index EXCEPT ![e] = 0]

\* Not the code: the loop of lines 114 to 116 left out.
ElfOffAtOnce(e) ==
  /\ pc[e] = "registered"
  /\ Enters(e)
  /\ woken' = woken \ {e}
  /\ Leaves(e)
  /\ UNCHANGED <<locked, reindeers, elves, elves_id, deliveries, overtaken>>

\* Lines 112 to 127: the wait of line 111 is over.
ElfWakes(e) ==
  /\ pc[e] = "registered"
  /\ Enters(e)
  /\ woken' = woken \ {e}
  /\ \/ /\ elves_id[index[e]] = e /\ elves > 0
        /\ Goes(e, "served")
        /\ UNCHANGED index
     \/ /\ elves_id[index[e]] # e \/ elves = 0
        /\ Leaves(e)
  /\ UNCHANGED <<locked, reindeers, elves, elves_id, deliveries, overtaken>>

\* Lines 114 to 127: the wait of line 115 is over.
ElfServed(e) ==
  /\ pc[e] = "served"
  /\ Enters(e)
  /\ woken' = woken \ {e}
  /\ \/ elves > 0 /\ UNCHANGED <<pc, index>>
     \/ elves = 0 /\ Leaves(e)
  /\ UNCHANGED <<locked, reindeers, elves, elves_id, deliveries, overtaken>>

\* Lines 123 to 127: the wait of line 124 is over.
ElfReturns(e) ==
  /\ pc[e] = "waiting_return"
  /\ Enters(e)
  /\ woken' = woken \ {e}
  /\ Goes(e, IF elves > 0 THEN "waiting_return" ELSE "back")
  /\ UNCHANGED <<locked, reindeers, elves, elves_id, deliveries, index, overtaken>>

start_routine_elf(e) == ElfComes(e) \/ ElfWakes(e) \/ ElfServed(e) \/ ElfReturns(e)

-----------------------------------------------------------------------------

\* pthread_cond_wait may return although nobody signalled.
WakesUpForNoReason(t) ==
  /\ t \in Waiting(cond_santa \union cond_reindeer \union cond_elves) \ woken
  /\ woken' = woken \union {t}
  /\ UNCHANGED <<pc, locked, reindeers, elves, elves_id, deliveries, index, overtaken>>

Next ==
  \/ start_routine_santa
  \/ \E r \in Reindeer : start_routine_reindeer(r)
  \/ \E e \in Elves : start_routine_elf(e)
  \/ \E t \in Threads : WakesUpForNoReason(t)

Spec == Init /\ [][Next]_vars

\* Every nap ends, and a thread that wants the mutex gets it: the threads nap
\* for seconds between two short critical sections.
Fairness ==
  /\ WF_vars(start_routine_santa)
  /\ \A r \in Reindeer : WF_vars(start_routine_reindeer(r))
  /\ \A e \in Elves : WF_vars(start_routine_elf(e))

FairSpec == Spec /\ Fairness

-----------------------------------------------------------------------------
(* Properties. *)

\* Type invariant.  The counters never pass the numbers they are compared with
\* (by ==), and elves_id is never indexed outside.
TypeOK ==
  /\ pc[santa] \in {"start", "asleep", "delivering", "helping", "done"}
  /\ \A r \in Reindeer : pc[r] \in {"resting", "waiting"}
  /\ \A e \in Elves : pc[e] \in {"working", "back"} \union cond_elves
  /\ woken \subseteq Threads
  /\ locked \in BOOLEAN
  /\ reindeers \in 0 .. REINDEER_NUM
  /\ elves \in 0 .. ELVES_REQUIRED
  /\ elves_id \in [Indices -> Elves \union {NoElf}]
  /\ deliveries \in 0 .. SANTA_DELIVERIES
  /\ index \in [Elves -> Indices]
  /\ overtaken \subseteq {"reindeer", "elf"}

\* While Santa delivers, all the reindeer stand in front of the sleigh, and none
\* of them is a late one that still waits for the last delivery.
AllReindeerPull == pc[santa] = "delivering" =>
  /\ reindeers = REINDEER_NUM
  /\ \A r \in Reindeer : pc[r] = "waiting"

\* While Santa helps, elves_id names as many different elves as are required, and
\* each of them is still with Santa: nobody is counted twice or leaves early.
HelpedElvesStay == pc[santa] = "helping" =>
  /\ \A i, j \in Indices : elves_id[i] = elves_id[j] => i = j
  /\ \A i \in Indices : elves_id[i] \in Waiting({"registered", "served"})

\* No wakeup of Santa's is lost: he is not left asleep when there is something
\* to do, whatever he was doing when the last reindeer or elf signalled.
SantaNotMissed ==
  pc[santa] = "asleep" /\ santa \notin woken =>
    reindeers < REINDEER_NUM /\ elves < ELVES_REQUIRED

\* The program ends (main joins Santa): the deliveries are made, provided that no
\* reindeer is back from its rest of five seconds or more while one that was
\* released with it has not got the mutex yet.  That one would wait uncounted,
\* and REINDEER_NUM would never be reached again.
SantaEnds == []("reindeer" \notin overtaken) => <>(pc[santa] = "done")

\* "Elf: waits for the return of the elves" (main.c:121): when they are back it
\* goes on.  The elves are never all left waiting with too few of them
\* registered for Santa to come, at least if no elf back from a nap gets ahead.
ElvesGoOn ==
  "elf" \notin overtaken =>
    ~ (/\ \A e \in Elves : pc[e] \in cond_elves /\ e \notin woken
       /\ elves < ELVES_REQUIRED)
=============================================================================
