---------------------------- MODULE PizzeriaMain -----------------------------
(****************************************************************************)
(* The main programs of cw07/zad1 and zad2: what they create, the workers   *)
(* they fork, and how they end; run after run, in the same place.           *)
(*                                                                          *)
(* handle_exit is run by whoever exits: by main when a signal comes or a    *)
(* fork fails, and by a child that is not a worker yet, which has inherited *)
(* it, with the pids recorded so far.  It kills all pids of both arrays,    *)
(* and one that is not recorded is 0, for kill the whole process group, or  *)
(* -1, for kill every process there is.                                     *)
(****************************************************************************)
EXTENDS Integers

CONSTANTS cook_number, deliverer_number

VARIABLES
  zad,          \* "zad1" (System V) or "zad2" (POSIX)
  blocks,       \* whether SIGINT is blocked in its handler: sa_flags is not set
  main,         \* where main is
  handles,      \* why it ends: "SIGINT", if that is then blocked, "cut" or "other"
  arrays,       \* how many of cooks and deliverers are allocated
  pids,         \* what they hold: 0, -1, or the number of a worker
  child,        \* where each child is
  told,         \* the processes with a SIGINT to handle
  sems,         \* the semaphores: "none", "set" by a main, or "used" by workers
  accidents     \* history: what has gone wrong since a main last opened them

fixed == <<zad, blocks>>
vars == <<fixed, main, handles, arrays, pids, child, told, sems, accidents>>

Cooks == 1 .. cook_number
Workers == 1 .. cook_number + deliverer_number
Main == 0
Group == {Main} \union Workers

Accident(kind) == accidents' = accidents \union {kind}

\* main at a step of its own: a SIGINT that has come is handled first.
At(step) == main = step /\ Main \notin told

-----------------------------------------------------------------------------
(* SIGINT.  A worker has no handler and dies at once; main, and a child that  *)
(* is not a worker yet, come round to theirs.                                 *)

HasHandler(p) ==
  IF p = Main THEN main # "ended" /\ handles # "SIGINT" ELSE child[p] = "forked"

\* Whom kill reaches, with the pids of a set: 0 is the group, and -1 is everybody.
Hit(set) == IF set \intersect {0, -1} # {} THEN Group ELSE set

Told(hit) == told \union {p \in hit : HasHandler(p)}
Ended(hit) ==
  [w \in Workers |-> IF w \in hit /\ child[w] \in {"starts", "works"} THEN "dead" ELSE child[w]]

-----------------------------------------------------------------------------
(* main, from its arguments to wait. *)

\* Not the code: in zad1 too, semaphores that are there keep their values.
OpenKeepsValues ==
  /\ At("begins")
  /\ sems' = IF sems = "none" THEN "set" ELSE sems
  /\ main' = "callocs"
  /\ accidents' = {}
  /\ UNCHANGED <<fixed, handles, arrays, pids, child, told>>

\* What is there under the key or the names is taken, or else created.  zad1 sets
\* the semaphores in any case (SETVAL), zad2 only those it creates (sem_open).
Open ==
  /\ At("begins")
  /\ sems' = IF sems = "none" \/ zad = "zad1" THEN "set" ELSE sems
  /\ main' = "callocs"
  /\ accidents' = {}
  /\ UNCHANGED <<fixed, handles, arrays, pids, child, told>>

\* calloc of cooks, then of deliverers.
Calloc ==
  /\ At("callocs")
  /\ arrays' = arrays + 1
  /\ main' = "forks"
  /\ UNCHANGED <<fixed, handles, pids, child, told, sems, accidents>>

\* The worker whose fork is next, or whose pid is still to be recorded.
NextChild == CHOOSE w \in Workers : pids[w] = 0 /\ \A v \in 1 .. w - 1 : pids[v] # 0

\* fork, and the assignment of its result, which a signal may precede.
Fork ==
  /\ At("forks")
  /\ child' = [child EXCEPT ![NextChild] = "forked"]
  /\ main' = "records"
  /\ UNCHANGED <<fixed, handles, arrays, pids, told, sems, accidents>>

Record ==
  /\ At("records")
  /\ pids' = [pids EXCEPT ![NextChild] = NextChild]
  /\ main' = IF NextChild = cook_number THEN "callocs"
             ELSE IF NextChild = cook_number + deliverer_number THEN "waits" ELSE "forks"
  /\ UNCHANGED <<fixed, handles, arrays, child, told, sems, accidents>>

\* "Error: failed to fork": main exits, with -1 among the pids.
ForkFails ==
  /\ At("forks")
  /\ Accident("fork")
  /\ pids' = [pids EXCEPT ![NextChild] = -1]
  /\ handles' = "other"
  /\ main' = "exits"
  /\ UNCHANGED <<fixed, arrays, child, told, sems>>

\* wait has returned -1: all children have ended.
Wait ==
  /\ At("waits")
  /\ \A w \in Workers : child[w] = "dead"
  /\ handles' = "other"
  /\ main' = "exits"
  /\ UNCHANGED <<fixed, arrays, pids, child, told, sems, accidents>>

-----------------------------------------------------------------------------
(* The end of main. *)

Running == {"begins", "callocs", "forks", "records", "waits"}

\* A signal comes in good time if all children have become workers or ended.
InTime == main = "waits" /\ \A w \in Workers : child[w] \notin {"forked", "leaves"}

\* SIGHUP, SIGQUIT or SIGTERM to main alone: handle_signals.
HandlesSignal ==
  /\ main \in Running /\ Main \notin told
  /\ IF InTime THEN UNCHANGED accidents ELSE Accident("early")
  /\ handles' = "other"
  /\ main' = "exits"
  /\ UNCHANGED <<fixed, arrays, pids, child, told, sems>>

\* Ctrl-C: SIGINT to the group of the terminal.
CtrlC ==
  /\ main \in Running
  /\ IF InTime THEN UNCHANGED accidents ELSE Accident("early")
  /\ told' = Told(Group)
  /\ child' = Ended(Group)
  /\ UNCHANGED <<fixed, main, handles, arrays, pids, sems>>

\* SIGINT to main: exit, and when main is exiting already, exit in exit, which does
\* not come back to the rest of handle_exit.
HandlesSigint ==
  /\ Main \in told
  /\ handles' = IF blocks THEN "SIGINT" ELSE "other"
  /\ main' = IF main \in Running THEN "exits" ELSE "ended"
  /\ told' = told \ {Main}
  /\ UNCHANGED <<fixed, arrays, pids, child, sems, accidents>>

\* kill for each of a set of pids by main; what it sends to itself is left to Kills.
Kill(set) ==
  /\ told' = Told(Hit(set)) \ {Main}
  /\ child' = Ended(Hit(set))

CookPids == {pids[w] : w \in Cooks}
DelivererPids == {pids[w] : w \in Workers \ Cooks}

\* Not the code: only pids that are recorded are killed.
KillsRecorded ==
  /\ At("exits")
  /\ Kill({pid \in CookPids \union DelivererPids : pid > 0})
  /\ main' = "removes"
  /\ UNCHANGED <<fixed, handles, arrays, pids, sems, accidents>>

\* The loops of handle_exit.  One over an array that is not there ends main; so does
\* the SIGINT that main sends to its own group, unless that is what it handles;
\* kill(-1) does not reach its sender.
Kills ==
  LET EndsIn(set) == 0 \in set /\ handles # "SIGINT"
      cooks == IF arrays = 0 THEN {} ELSE CookPids
      deliverers == IF arrays < 2 \/ EndsIn(cooks) THEN {} ELSE DelivererPids
  IN
  /\ At("exits")
  /\ Kill(cooks \union deliverers)
  /\ main' = IF arrays < 2 \/ EndsIn(cooks \union deliverers) THEN "ended" ELSE "removes"
  /\ UNCHANGED <<fixed, handles, arrays, pids, sems, accidents>>

\* IPC_RMID, or sem_unlink and shm_unlink.
Removes ==
  /\ At("removes")
  /\ sems' = "none"
  /\ main' = "ended"
  /\ UNCHANGED <<fixed, handles, arrays, pids, child, told, accidents>>

\* SIGKILL to main; or, while it exits, a second signal, of another kind: exit in exit.
CutShort ==
  /\ main # "ended"
  /\ Accident("cut")
  /\ handles' = "cut"
  /\ main' = "ended"
  /\ told' = told \ {Main}
  /\ UNCHANGED <<fixed, arrays, pids, child, sems>>

-----------------------------------------------------------------------------
(* A child: it becomes a worker by execl, opens what main has created, and     *)
(* works until it is killed.                                                   *)

Becomes(w, step) == child' = [child EXCEPT ![w] = step]

Exec(w) ==
  /\ child[w] = "forked" /\ w \notin told
  /\ Becomes(w, "starts")
  /\ UNCHANGED <<fixed, main, handles, arrays, pids, told, sems, accidents>>

\* A child exits through handle_exit: its own pid is 0 in what it has inherited, so
\* it kills its group.
ChildExits(w, step) ==
  /\ told' = Told(Group) \ {w}
  /\ child' = [Ended(Group) EXCEPT ![w] = step]

\* "Error: execution of cook program failed": its own SIGINT ends the child.
ExecFails(w) ==
  /\ child[w] = "forked" /\ w \notin told
  /\ Accident("exec")
  /\ ChildExits(w, "dead")
  /\ UNCHANGED <<fixed, main, handles, arrays, pids, sems>>

\* A SIGINT before execl.  A cook has no array of deliverers, which ends it; a
\* deliverer that does not end itself comes to the removal of what main has opened.
ChildHandlesSigint(w) ==
  /\ child[w] = "forked" /\ w \in told
  /\ ChildExits(w, IF blocks /\ w \notin Cooks THEN "leaves" ELSE "dead")
  /\ UNCHANGED <<fixed, main, handles, arrays, pids, sems, accidents>>

ChildRemoves(w) ==
  /\ child[w] = "leaves"
  /\ sems' = "none"
  /\ Becomes(w, "dead")
  /\ UNCHANGED <<fixed, main, handles, arrays, pids, told, accidents>>

\* semget, or sem_open and shm_open, without O_CREAT: a worker that finds nothing exits.
Attach(w) ==
  /\ child[w] = "starts"
  /\ Becomes(w, IF sems = "none" THEN "dead" ELSE "works")
  /\ UNCHANGED <<fixed, main, handles, arrays, pids, told, sems, accidents>>

\* make_pizza and deliver_pizza.  Of semaphores that are removed, those of System V
\* end the worker, and POSIX ones stay, without a name, for those who use them.
Work(w) ==
  /\ child[w] = "works"
  /\ sems' = IF sems = "none" THEN sems ELSE "used"
  /\ Becomes(w, IF sems = "none" /\ zad = "zad1" THEN "dead" ELSE "works")
  /\ UNCHANGED <<fixed, main, handles, arrays, pids, told, accidents>>

\* SIGHUP to a worker, or anything else that ends it.
HangsUp(w) ==
  /\ child[w] \in {"starts", "works"}
  /\ Becomes(w, "dead")
  /\ UNCHANGED <<fixed, main, handles, arrays, pids, told, sems, accidents>>

-----------------------------------------------------------------------------
Init ==
  /\ zad \in {"zad1", "zad2"}
  /\ blocks \in BOOLEAN
  /\ main = "begins"
  /\ handles = "none"
  /\ arrays = 0
  /\ pids = [w \in Workers |-> 0]
  /\ child = [w \in Workers |-> "unborn"]
  /\ told = {}
  /\ sems = "none"
  /\ accidents = {}

Alive == {w \in Workers : child[w] \notin {"unborn", "dead"}}

\* The program is run again, when nobody of the run before is left.
Again ==
  /\ main = "ended" /\ Alive = {}
  /\ main' = "begins"
  /\ handles' = "none"
  /\ arrays' = 0
  /\ pids' = [w \in Workers |-> 0]
  /\ child' = [w \in Workers |-> "unborn"]
  /\ UNCHANGED <<fixed, told, sems, accidents>>

MainStep ==
  Open \/ Calloc \/ Fork \/ Record \/ Wait \/ HandlesSigint \/ Kills \/ Removes
ChildStep(w) == Exec(w) \/ ChildHandlesSigint(w) \/ ChildRemoves(w) \/ Attach(w)
FromOutside == HandlesSignal \/ CtrlC \/ CutShort \/ ForkFails \/ Again

Next ==
  \/ MainStep
  \/ FromOutside
  \/ \E w \in Workers : ChildStep(w) \/ ExecFails(w) \/ Work(w) \/ HangsUp(w)

Spec == Init /\ [][Next]_vars
FairSpec == Spec /\ WF_vars(MainStep) /\ \A w \in Workers : WF_vars(ChildStep(w))

-----------------------------------------------------------------------------
(* Properties. *)

\* A main that ends leaves no worker behind, however early it is told to and
\* whichever fork or execl fails: a child whose pid is not recorded is in the group
\* that handle_exit then kills.  Only SIGKILL, and a second signal while it exits,
\* keep main from it.
WorkersEnd == (main = "ended" /\ handles # "cut") ~> Alive = {}

\* A main begins with semaphores as it sets them: in zad1 whatever has become of the
\* run before; in zad2, which keeps values that it finds, if nothing went wrong in it.
StartsFresh ==
  [][main = "begins" /\ main' = "callocs" /\ (zad = "zad1" \/ accidents = {})
     => sems' = "set"]_vars
=============================================================================
