---------------------------- MODULE Santa_proofs -----------------------------
(****************************************************************************)
(* Proofs about Santa, the reindeer and the elves, for any numbers of them: *)
(* what their counters stand for, that what Santa reads of them under the   *)
(* mutex is still true while he acts on it without, and that they never all *)
(* wait for one another.                                                    *)
(****************************************************************************)
EXTENDS Santa, FiniteSetTheorems, TLAPS

USE SantaAssumption DEF Threads, Indices

Places ==
  {"start", "asleep", "delivering", "helping", "done", "resting", "waiting",
   "working", "back", "registered", "served", "waiting_return"}

-----------------------------------------------------------------------------
(* The inductive invariant.  TypeOK is not inductive: that the counters keep  *)
(* within their bounds follows from what they count.                          *)

\* pc is a function, and each kind of thread is where its routine has it.
PlacesTyped ==
  /\ pc \in [Threads -> Places]
  /\ pc[santa] \in {"start", "asleep", "delivering", "helping", "done"}
  /\ \A r \in Reindeer : pc[r] \in {"resting", "waiting"}
  /\ \A e \in Elves : pc[e] \in {"working", "back"} \union cond_elves

\* The rest of the state without the bounds of its numbers.
DataTyped ==
  /\ woken \subseteq Threads
  /\ locked \in BOOLEAN
  /\ reindeers \in Nat
  /\ elves \in 0 .. ELVES_REQUIRED
  /\ elves_id \in [Indices -> Elves \union {NoElf}]
  /\ deliveries \in Nat
  /\ index \in [Elves -> Indices]
  /\ overtaken \subseteq {"reindeer", "elf"}

\* The reindeer that wait: those that are counted, and those released by the last
\* delivery that have not got the mutex yet.
Harnessed == {r \in Reindeer : pc[r] = "waiting"}
ReindeerCounted == reindeers <= Cardinality(Harnessed)

\* Santa has all the reindeer while he delivers, and all the elves while he helps.
SleighReady == pc[santa] = "delivering" => reindeers = REINDEER_NUM
GroupReady == pc[santa] = "helping" => elves = ELVES_REQUIRED

\* The entries of elves_id that count are elves that wait, each at its own index.
GroupStays ==
  \A i \in 0 .. elves - 1 :
    /\ elves_id[i] \in Elves
    /\ pc[elves_id[i]] \in {"registered", "served"}
    /\ index[elves_id[i]] = i

\* The mutex stays locked after the last delivery, and there is none after that.
DeliveriesMade ==
  IF locked THEN deliveries = SANTA_DELIVERIES /\ pc[santa] = "done"
  ELSE deliveries < SANTA_DELIVERIES

IInv ==
  /\ PlacesTyped
  /\ DataTyped
  /\ ReindeerCounted
  /\ SleighReady
  /\ GroupReady
  /\ GroupStays
  /\ DeliveriesMade
  /\ SantaNotMissed

-----------------------------------------------------------------------------
(* Counting reindeer. *)

\* The reindeer that wait are finitely many, and at most all of them; when they
\* are as many as there are reindeer, every one of them waits.
LEMMA HarnessedBound ==
  /\ IsFiniteSet(Harnessed)
  /\ Cardinality(Harnessed) \in Nat
  /\ REINDEER_NUM \in Nat
  /\ ELF_NUM \in Nat
  /\ Cardinality(Harnessed) <= REINDEER_NUM
  /\ Cardinality(Harnessed) = REINDEER_NUM => \A r \in Reindeer : pc[r] = "waiting"
<1>1. Harnessed \in SUBSET Reindeer
  BY DEF Harnessed
<1>2. /\ IsFiniteSet(Harnessed)
      /\ Cardinality(Harnessed) <= Cardinality(Reindeer)
      /\ Cardinality(Reindeer) = Cardinality(Harnessed) => Reindeer = Harnessed
  BY <1>1, FS_Subset
<1>3. Cardinality(Harnessed) \in Nat /\ Cardinality(Reindeer) \in Nat /\ Cardinality(Elves) \in Nat
  BY <1>2, FS_CardinalityType
<1>4. QED
  BY <1>2, <1>3 DEF Harnessed, REINDEER_NUM, ELF_NUM

\* What the invariant says of the state, as TypeOK and the invariants of the runs
\* do: the counters are within bounds, and Santa acts on what is true.
LEMMA Consequences ==
  ASSUME IInv
  PROVE  TypeOK /\ AllReindeerPull /\ HelpedElvesStay /\ SantaNotMissed
<1>1. /\ Cardinality(Harnessed) \in Nat
      /\ REINDEER_NUM \in Nat
      /\ Cardinality(Harnessed) <= REINDEER_NUM
      /\ Cardinality(Harnessed) = REINDEER_NUM => \A r \in Reindeer : pc[r] = "waiting"
  BY HarnessedBound
<1>2. TypeOK
  BY <1>1 DEF IInv, PlacesTyped, DataTyped, ReindeerCounted, DeliveriesMade, TypeOK
<1>3. AllReindeerPull
  <2> SUFFICES ASSUME pc[santa] = "delivering"
               PROVE  reindeers = REINDEER_NUM /\ \A r \in Reindeer : pc[r] = "waiting"
    BY DEF AllReindeerPull
  <2>1. reindeers = REINDEER_NUM /\ reindeers <= Cardinality(Harnessed)
    BY DEF IInv, SleighReady, ReindeerCounted
  <2>2. Cardinality(Harnessed) = REINDEER_NUM
    BY <2>1, <1>1
  <2>3. QED
    BY <2>1, <2>2, <1>1
<1>4. HelpedElvesStay
  <2> SUFFICES ASSUME pc[santa] = "helping"
               PROVE  /\ \A i, j \in Indices : elves_id[i] = elves_id[j] => i = j
                      /\ \A i \in Indices : elves_id[i] \in Waiting({"registered", "served"})
    BY DEF HelpedElvesStay
  <2>1. \A i \in Indices : /\ elves_id[i] \in Elves
                           /\ pc[elves_id[i]] \in {"registered", "served"}
                           /\ index[elves_id[i]] = i
    BY DEF IInv, GroupReady, GroupStays
  <2>2. QED
    BY <2>1 DEF Waiting
<1>5. QED
  BY <1>2, <1>3, <1>4 DEF IInv

-----------------------------------------------------------------------------
(* The initial state, and the steps of each kind of thread. *)

\* When the program starts nobody waits and nothing is counted.
LEMMA InitInvariant == Init => IInv
<1> SUFFICES ASSUME Init PROVE IInv
  OBVIOUS
<1>1. REINDEER_NUM \in Nat /\ ELF_NUM \in Nat /\ Cardinality(Harnessed) \in Nat
  BY HarnessedBound
<1>2. PlacesTyped
  BY DEF Init, PlacesTyped, Places
<1>3. DataTyped
  <2>1. elves \in 0 .. ELVES_REQUIRED
    BY <1>1 DEF Init
  <2>2. index \in [Elves -> Indices] /\ elves_id \in [Indices -> Elves \union {NoElf}]
    BY <1>1 DEF Init
  <2>3. locked \in BOOLEAN
    BY DEF Init
  <2>4. QED
    BY <2>1, <2>2, <2>3 DEF Init, DataTyped
<1>4. ReindeerCounted
  BY <1>1 DEF Init, ReindeerCounted
<1>5. SleighReady /\ GroupReady /\ SantaNotMissed
  BY DEF Init, SleighReady, GroupReady, SantaNotMissed
<1>6. GroupStays /\ DeliveriesMade
  BY DEF Init, GroupStays, DeliveriesMade
<1>7. QED
  BY <1>2, <1>3, <1>4, <1>5, <1>6 DEF IInv

\* A step that moves no reindeer and counts none keeps what is known of them.
LEMMA HarnessedKept ==
  ASSUME NEW t, NEW place, Goes(t, place), t \notin Reindeer, PlacesTyped
  PROVE  Harnessed' = Harnessed
BY DEF Goes, Harnessed, PlacesTyped

\* A step that moves nobody of the group, and leaves counter, array and indices of
\* the elves as they are, keeps the group.
LEMMA GroupKept ==
  ASSUME NEW t \in Threads, NEW place, Goes(t, place), t \notin Elves,
         PlacesTyped, DataTyped, GroupStays, UNCHANGED <<elves, elves_id, index>>
  PROVE  GroupStays'
BY DEF Goes, PlacesTyped, DataTyped, GroupStays

\* Santa: before he delivers or helps he has read, with the mutex, that all have
\* come; when he is done he resets the counter.
LEMMA SantaSteps ==
  ASSUME IInv, start_routine_santa
  PROVE  IInv'
<1>1. /\ REINDEER_NUM \in Nat /\ ELF_NUM \in Nat
      /\ Cardinality(Harnessed) \in Nat
      /\ Cardinality(Harnessed) <= REINDEER_NUM
  BY HarnessedBound
<1>2. santa \in Threads /\ santa \notin Reindeer /\ santa \notin Elves
  OBVIOUS
<1> USE DEF IInv, cond_santa, cond_elves, cond_reindeer
<1>3. CASE SantaLooks
  <2>1. PICK place \in {"asleep", "delivering", "helping"} : Goes(santa, place)
    BY <1>3 DEF SantaLooks, Helps
  <2>2. PlacesTyped'
    BY <2>1 DEF Goes, PlacesTyped, Places
  <2>3. DataTyped'
    BY <1>3 DEF SantaLooks, Helps, DataTyped, Waiting
  <2>4. ReindeerCounted'
    BY <1>2, <1>3, <2>1, HarnessedKept DEF SantaLooks, ReindeerCounted
  <2>5. SleighReady' /\ GroupReady'
    BY <1>3 DEF SantaLooks, Helps, Goes, PlacesTyped, SleighReady, GroupReady
  <2>6. GroupStays'
    BY <1>2, <1>3, <2>1, GroupKept DEF SantaLooks
  <2>7. DeliveriesMade'
    BY <1>3, <2>1 DEF SantaLooks, Enters, Goes, PlacesTyped, DeliveriesMade
  <2>8. SantaNotMissed'
    BY <1>3 DEF SantaLooks, Helps, Goes, PlacesTyped, SantaNotMissed
  <2>9. QED
    BY <2>2, <2>3, <2>4, <2>5, <2>6, <2>7, <2>8
<1>4. CASE SantaDelivers
  <2>1. PICK place \in {"start", "helping", "done"} : Goes(santa, place)
    BY <1>4 DEF SantaDelivers
  <2>2. PlacesTyped'
    BY <2>1 DEF Goes, PlacesTyped, Places
  <2>3. DataTyped'
    <3>1. locked' \in BOOLEAN
      BY <1>4 DEF SantaDelivers, DataTyped
    <3>2. woken' \subseteq Threads
      BY <1>4 DEF SantaDelivers, DataTyped, Waiting
    <3>3. QED
      BY <1>4, <3>1, <3>2 DEF SantaDelivers, DataTyped
  <2>4. ReindeerCounted'
    <3>1. Harnessed' = Harnessed
      BY <1>2, <2>1, HarnessedKept
    <3>2. QED
      BY <3>1, <1>1, <1>4 DEF SantaDelivers, ReindeerCounted
  <2>5. SleighReady' /\ GroupReady'
    BY <1>4 DEF SantaDelivers, Goes, PlacesTyped, SleighReady, GroupReady
  <2>6. GroupStays'
    BY <1>2, <1>4, <2>1, GroupKept DEF SantaDelivers
  <2>7. DeliveriesMade'
    BY <1>4 DEF SantaDelivers, Enters, Goes, PlacesTyped, DataTyped, DeliveriesMade
  <2>8. SantaNotMissed'
    BY <1>4 DEF SantaDelivers, Goes, PlacesTyped, SantaNotMissed
  <2>9. QED
    BY <2>2, <2>3, <2>4, <2>5, <2>6, <2>7, <2>8
<1>5. CASE SantaHelped
  <2>1. Goes(santa, "start")
    BY <1>5 DEF SantaHelped
  <2>2. PlacesTyped'
    BY <2>1 DEF Goes, PlacesTyped, Places
  <2>3. DataTyped'
    BY <1>1, <1>5 DEF SantaHelped, DataTyped, Waiting
  <2>4. ReindeerCounted'
    BY <1>2, <1>5, <2>1, HarnessedKept DEF SantaHelped, ReindeerCounted
  <2>5. SleighReady' /\ GroupReady' /\ SantaNotMissed'
    BY <2>1 DEF Goes, PlacesTyped, SleighReady, GroupReady, SantaNotMissed
  <2>6. GroupStays'
    BY <1>5 DEF SantaHelped, GroupStays
  <2>7. DeliveriesMade'
    BY <1>5 DEF SantaHelped, Enters, Goes, PlacesTyped, DeliveriesMade
  <2>9. QED
    BY <2>2, <2>3, <2>4, <2>5, <2>6, <2>7
<1>6. QED
  BY <1>3, <1>4, <1>5 DEF start_routine_santa

\* A reindeer: it is counted as it begins to wait, and one that waits goes only when
\* the counter is 0.  The last one wakes Santa.
LEMMA ReindeerSteps ==
  ASSUME IInv, NEW r \in Reindeer, start_routine_reindeer(r)
  PROVE  IInv'
<1>1. /\ REINDEER_NUM \in Nat /\ ELF_NUM \in Nat
      /\ IsFiniteSet(Harnessed)
      /\ Cardinality(Harnessed) \in Nat
      /\ Cardinality(Harnessed) <= REINDEER_NUM
      /\ Cardinality(Harnessed) = REINDEER_NUM => \A x \in Reindeer : pc[x] = "waiting"
      /\ Cardinality(Harnessed') \in Nat
  <2>1. Cardinality(Harnessed') \in Nat
    <3>1. Harnessed' \in SUBSET Reindeer
      BY DEF Harnessed
    <3>2. IsFiniteSet(Harnessed')
      BY <3>1, FS_Subset
    <3>3. QED
      BY <3>2, FS_CardinalityType
  <2>2. QED
    BY <2>1, HarnessedBound
<1>2. r \in Threads /\ r # santa /\ r \notin Elves
  OBVIOUS
<1> USE DEF IInv, cond_santa, cond_elves, cond_reindeer
<1>3. PICK place \in {"resting", "waiting"} : Goes(r, place)
  BY DEF start_routine_reindeer, ReindeerComes, ReindeerWakes
<1>4. /\ PlacesTyped'
      /\ pc'[santa] = pc[santa]
  BY <1>2, <1>3 DEF Goes, PlacesTyped, Places
<1>5. GroupStays'
  BY <1>2, <1>3, GroupKept DEF start_routine_reindeer, ReindeerComes, ReindeerWakes
<1>6. GroupReady' /\ DeliveriesMade'
  BY <1>4 DEF start_routine_reindeer, ReindeerComes, ReindeerWakes, GroupReady, DeliveriesMade
<1>7. CASE ReindeerComes(r)
  <2>1. DataTyped'
    BY <1>7 DEF ReindeerComes, DataTyped, WakeSanta, Waiting
  <2>2. r \notin Harnessed /\ Harnessed' = Harnessed \union {r}
    BY <1>7 DEF ReindeerComes, Goes, PlacesTyped, Harnessed
  <2>3. Cardinality(Harnessed') = Cardinality(Harnessed) + 1
    BY <1>1, <2>2, FS_AddElement
  <2>4. ReindeerCounted'
    BY <1>1, <1>7, <2>3 DEF ReindeerComes, DataTyped, ReindeerCounted
  <2>5. reindeers # REINDEER_NUM
    <3>1. Cardinality(Harnessed) # REINDEER_NUM
      BY <1>1, <1>7 DEF ReindeerComes
    <3>2. QED
      BY <1>1, <3>1 DEF ReindeerCounted, DataTyped
  <2>6. SleighReady'
    BY <1>4, <2>5 DEF SleighReady
  <2>7. SantaNotMissed'
    <3> SUFFICES ASSUME pc'[santa] = "asleep", santa \notin woken'
                 PROVE  reindeers' < REINDEER_NUM /\ elves' < ELVES_REQUIRED
      BY DEF SantaNotMissed
    <3>1. santa \notin woken /\ santa \notin IF reindeers' = REINDEER_NUM THEN WakeSanta ELSE {}
      BY <1>7 DEF ReindeerComes
    <3>2. santa \in WakeSanta
      BY <1>4 DEF WakeSanta, Waiting
    <3>3. reindeers' # REINDEER_NUM
      BY <3>1, <3>2
    <3>4. reindeers < REINDEER_NUM /\ elves < ELVES_REQUIRED
      BY <1>4, <3>1 DEF SantaNotMissed
    <3>5. QED
      BY <1>1, <1>7, <3>3, <3>4 DEF ReindeerComes, DataTyped
  <2>8. QED
    BY <1>4, <1>5, <1>6, <2>1, <2>4, <2>6, <2>7
<1>8. CASE ReindeerWakes(r)
  <2>1. DataTyped'
    BY <1>8 DEF ReindeerWakes, DataTyped
  <2>2. ReindeerCounted'
    <3>1. CASE reindeers > 0
      <4>1. Harnessed' = Harnessed
        BY <1>8, <3>1 DEF ReindeerWakes, Goes, PlacesTyped, Harnessed
      <4>2. QED
        BY <1>8, <4>1 DEF ReindeerWakes, ReindeerCounted
    <3>2. CASE reindeers = 0
      BY <1>1, <1>8, <3>2 DEF ReindeerWakes, ReindeerCounted
    <3>3. QED
      BY <3>1, <3>2 DEF DataTyped
  <2>3. SleighReady' /\ SantaNotMissed'
    BY <1>2, <1>4, <1>8 DEF ReindeerWakes, SleighReady, SantaNotMissed
  <2>4. QED
    BY <1>4, <1>5, <1>6, <2>1, <2>2, <2>3
<1>9. QED
  BY <1>7, <1>8 DEF start_routine_reindeer

\* An elf: it takes the next entry of elves_id as it begins to wait, and one that is
\* in the group goes only when the counter is 0.  The last one wakes Santa.
LEMMA ElfSteps ==
  ASSUME IInv, NEW e \in Elves, start_routine_elf(e)
  PROVE  IInv'
<1>1. REINDEER_NUM \in Nat /\ ELF_NUM \in Nat
  BY HarnessedBound
<1>2. e \in Threads /\ e # santa /\ e \notin Reindeer
  OBVIOUS
<1> USE DEF IInv, cond_santa, cond_elves, cond_reindeer
<1> DEFINE Away == {"working", "back", "registered", "served", "waiting_return"}
<1>3. /\ PlacesTyped'
      /\ pc'[santa] = pc[santa]
      /\ \A x \in Threads \ {e} : pc'[x] = pc[x]
      /\ Harnessed' = Harnessed
  <2>1. CASE pc' = pc
    BY <2>1 DEF PlacesTyped, Harnessed
  <2>2. CASE \E place \in Away : Goes(e, place)
    BY <1>2, <2>2 DEF Goes, PlacesTyped, Places, Harnessed
  <2>3. QED
    BY <2>1, <2>2
    DEF start_routine_elf, ElfComes, ElfWakes, ElfServed, ElfReturns, Leaves
<1>4. UNCHANGED <<reindeers, deliveries, locked>>
  BY DEF start_routine_elf, ElfComes, ElfWakes, ElfServed, ElfReturns
<1>5. ReindeerCounted' /\ SleighReady' /\ DeliveriesMade'
  BY <1>3, <1>4 DEF ReindeerCounted, SleighReady, DeliveriesMade
<1>6. CASE ElfComes(e)
  <2>1. DataTyped'
    <3>1. CASE HasRoom
      <4>1. elves' \in 0 .. ELVES_REQUIRED /\ elves \in Indices
        BY <1>1, <1>6, <3>1 DEF ElfComes, HasRoom, DataTyped
      <4>2. /\ elves_id' \in [Indices -> Elves \union {NoElf}]
            /\ index' \in [Elves -> Indices]
        <5>1. /\ elves_id' = [elves_id EXCEPT ![elves] = e]
              /\ index' = [index EXCEPT ![e] = elves]
          BY <1>6, <3>1 DEF ElfComes
        <5>2. QED
          BY <4>1, <5>1 DEF DataTyped
      <4>3. woken' \subseteq Threads
        BY <1>6, <3>1 DEF ElfComes, DataTyped, WakeSanta, Waiting
      <4>4. overtaken' \subseteq {"reindeer", "elf"}
        BY <1>6 DEF ElfComes, DataTyped
      <4>5. QED
        BY <1>4, <4>1, <4>2, <4>3, <4>4 DEF DataTyped
    <3>2. CASE ~HasRoom
      BY <1>4, <1>6, <3>2 DEF ElfComes, DataTyped
    <3>3. QED
      BY <3>1, <3>2
  <2>2. CASE HasRoom
    <3>1. /\ elves' = elves + 1 /\ elves < ELVES_REQUIRED
          /\ index' = [index EXCEPT ![e] = elves]
          /\ elves_id' = [elves_id EXCEPT ![elves] = e]
          /\ woken' = woken \union IF elves' = ELVES_REQUIRED THEN WakeSanta ELSE {}
          /\ pc'[e] = "registered"
      BY <1>2, <1>6, <2>2 DEF ElfComes, HasRoom, Goes, PlacesTyped
    <3>2. GroupReady'
      BY <1>1, <1>3, <3>1 DEF GroupReady
    <3>3. GroupStays'
      <4> SUFFICES ASSUME NEW i \in 0 .. elves' - 1
                   PROVE  /\ elves_id'[i] \in Elves
                          /\ pc'[elves_id'[i]] \in {"registered", "served"}
                          /\ index'[elves_id'[i]] = i
        BY DEF GroupStays
      <4>1. CASE i = elves
        BY <3>1, <4>1 DEF DataTyped
      <4>2. CASE i \in 0 .. elves - 1
        <5>1. /\ elves_id[i] \in Elves
              /\ pc[elves_id[i]] \in {"registered", "served"}
              /\ index[elves_id[i]] = i
          BY <4>2 DEF GroupStays
        <5>2. elves_id[i] # e
          BY <1>6, <5>1 DEF ElfComes
        <5>3. elves_id'[i] = elves_id[i]
          BY <3>1, <4>2 DEF DataTyped
        <5>4. index'[elves_id[i]] = i
          BY <3>1, <5>1, <5>2 DEF DataTyped
        <5>5. QED
          BY <1>3, <5>1, <5>2, <5>3, <5>4
      <4>3. QED
        BY <3>1, <4>1, <4>2 DEF DataTyped
    <3>4. SantaNotMissed'
      <4> SUFFICES ASSUME pc'[santa] = "asleep", santa \notin woken'
                   PROVE  reindeers' < REINDEER_NUM /\ elves' < ELVES_REQUIRED
        BY DEF SantaNotMissed
      <4>1. santa \in WakeSanta
        BY <1>3 DEF WakeSanta, Waiting
      <4>2. elves' # ELVES_REQUIRED /\ santa \notin woken
        BY <3>1, <4>1
      <4>3. reindeers < REINDEER_NUM
        BY <1>3, <4>2 DEF SantaNotMissed
      <4>4. QED
        BY <1>1, <1>4, <3>1, <4>2, <4>3 DEF DataTyped
    <3>5. QED
      BY <1>3, <1>5, <2>1, <3>2, <3>3, <3>4
  <2>3. CASE ~HasRoom
    <3>1. UNCHANGED <<index, elves_id, elves, woken>> /\ pc[e] \in {"working", "back"}
      BY <1>6, <2>3 DEF ElfComes
    <3>2. GroupReady' /\ SantaNotMissed'
      BY <1>3, <1>4, <3>1 DEF GroupReady, SantaNotMissed
    <3>3. GroupStays'
      BY <1>3, <3>1 DEF GroupStays
    <3>4. QED
      BY <1>3, <1>5, <2>1, <3>2, <3>3
  <2>4. QED
    BY <2>2, <2>3
<1>7. CASE ElfWakes(e) \/ ElfServed(e) \/ ElfReturns(e)
  <2>1. UNCHANGED <<elves, elves_id, overtaken>> /\ woken' = woken \ {e}
    BY <1>7 DEF ElfWakes, ElfServed, ElfReturns
  <2>2. index' \in [Elves -> Indices] /\ \A x \in Elves \ {e} : index'[x] = index[x]
    <3>1. index' = index \/ index' = [index EXCEPT ![e] = 0]
      BY <1>7 DEF ElfWakes, ElfServed, ElfReturns, Leaves
    <3>2. 0 \in Indices
      BY <1>1
    <3>3. QED
      BY <3>1, <3>2 DEF DataTyped
  <2>3. DataTyped'
    BY <1>4, <2>1, <2>2 DEF DataTyped
  <2>4. GroupReady' /\ SantaNotMissed'
    BY <1>2, <1>3, <1>4, <2>1 DEF GroupReady, SantaNotMissed
  <2>5. GroupStays'
    <3> SUFFICES ASSUME NEW i \in 0 .. elves - 1
                 PROVE  /\ elves_id[i] \in Elves
                        /\ pc'[elves_id[i]] \in {"registered", "served"}
                        /\ index'[elves_id[i]] = i
      BY <2>1 DEF GroupStays
    <3>1. /\ elves_id[i] \in Elves
          /\ pc[elves_id[i]] \in {"registered", "served"}
          /\ index[elves_id[i]] = i
      BY DEF GroupStays
    <3>2. elves # 0 /\ elves > 0
      BY DEF DataTyped
    <3>3. CASE elves_id[i] # e
      BY <1>3, <2>2, <3>1, <3>3
    <3>4. CASE elves_id[i] = e
      <4>1. elves_id[index[e]] = e
        BY <3>1, <3>4
      <4>2. index' = index /\ pc'[e] \in {"registered", "served"}
        <5>1. CASE ElfWakes(e)
          BY <1>2, <3>2, <4>1, <5>1 DEF ElfWakes, Goes, PlacesTyped
        <5>2. CASE ElfServed(e)
          BY <3>2, <5>2 DEF ElfServed
        <5>3. CASE ElfReturns(e)
          BY <3>1, <3>4, <5>3 DEF ElfReturns
        <5>4. QED
          BY <1>7, <5>1, <5>2, <5>3
      <4>3. QED
        BY <3>1, <3>4, <4>2
    <3>5. QED
      BY <3>3, <3>4
  <2>6. QED
    BY <1>3, <1>5, <2>3, <2>4, <2>5
<1>8. QED
  BY <1>6, <1>7 DEF start_routine_elf

\* A wakeup for no reason only adds to those who are on their way to the mutex.
LEMMA SpuriousSteps ==
  ASSUME IInv, NEW t \in Threads, WakesUpForNoReason(t)
  PROVE  IInv'
BY DEF WakesUpForNoReason, Waiting, IInv, PlacesTyped, DataTyped, ReindeerCounted, Harnessed,
       SleighReady, GroupReady, GroupStays, DeliveriesMade, SantaNotMissed

-----------------------------------------------------------------------------
(* The theorems. *)

\* The invariant holds however the threads take turns, and whoever wakes up early.
THEOREM Invariance == Spec => []IInv
<1>1. Init => IInv
  BY InitInvariant
<1>2. IInv /\ [Next]_vars => IInv'
  <2> SUFFICES ASSUME IInv, [Next]_vars PROVE IInv'
    OBVIOUS
  <2>1. CASE start_routine_santa
    BY <2>1, SantaSteps
  <2>2. ASSUME NEW r \in Reindeer, start_routine_reindeer(r) PROVE IInv'
    BY <2>2, ReindeerSteps
  <2>3. ASSUME NEW e \in Elves, start_routine_elf(e) PROVE IInv'
    BY <2>3, ElfSteps
  <2>4. ASSUME NEW t \in Threads, WakesUpForNoReason(t) PROVE IInv'
    BY <2>4, SpuriousSteps
  <2>5. CASE UNCHANGED vars
    BY <2>5 DEF vars, IInv, PlacesTyped, DataTyped, ReindeerCounted, Harnessed, SleighReady,
                GroupReady, GroupStays, DeliveriesMade, SantaNotMissed
  <2>6. QED
    BY <2>1, <2>2, <2>3, <2>4, <2>5 DEF Next
<1>3. QED
  BY <1>1, <1>2, PTL DEF Spec

\* Types: the counters never pass the numbers that Santa compares them with by ==,
\* and elves_id is never indexed outside.
THEOREM TypeCorrect == Spec => []TypeOK
<1>1. IInv => TypeOK
  BY Consequences
<1>2. QED
  BY <1>1, Invariance, PTL

\* Santa lets go of the mutex before he delivers (he sleeps for seconds), and still
\* every reindeer stands before the sleigh until he is done.
THEOREM ReindeerPull == Spec => []AllReindeerPull
<1>1. IInv => AllReindeerPull
  BY Consequences
<1>2. QED
  BY <1>1, Invariance, PTL

\* The same for the elves Santa helps: they are as many different ones as required,
\* and none of them leaves before he is done.
THEOREM ElvesStay == Spec => []HelpedElvesStay
<1>1. IInv => HelpedElvesStay
  BY Consequences
<1>2. QED
  BY <1>1, Invariance, PTL

\* pthread_cond_signal is not lost: Santa never sleeps on, unsignalled, when all the
\* reindeer or enough elves have come.
THEOREM NotMissed == Spec => []SantaNotMissed
<1>1. IInv => SantaNotMissed
  BY Consequences
<1>2. QED
  BY <1>1, Invariance, PTL

-----------------------------------------------------------------------------
(* Deadlock.                                                                 *)

\* As long as no reindeer overtook one that had just been released, those that wait are
\* those that are counted, or all of them have been released and will see it.
SleighCounted ==
  "reindeer" \notin overtaken =>
    /\ reindeers > 0 => Cardinality(Harnessed) = reindeers
    /\ ~(reindeers > 0) => Harnessed \subseteq woken

\* Santa ends with the mutex locked, and only so.
EndsLocked == pc[santa] = "done" => locked

\* Thread t has not ended, and is not waiting for a condition or a mutex that is gone.
CanGoOn(t) == pc[t] # "done" /\ Enters(t)

\* Until the last delivery Santa or a reindeer can go on.
NeverStuck ==
  "reindeer" \notin overtaken /\ ~locked => \E t \in Reindeer \union {santa} : CanGoOn(t)

\* Santa lets all the reindeer go when he resets the counter, and else none.
LEMMA SantaCounts ==
  ASSUME IInv, SleighCounted, EndsLocked, start_routine_santa
  PROVE  SleighCounted' /\ EndsLocked'
<1> USE DEF IInv, DataTyped
<1>1. PICK place \in Places : Goes(santa, place)
  BY DEF start_routine_santa, SantaLooks, SantaDelivers, SantaHelped, Helps, Places
<1>2. Harnessed' = Harnessed
  BY <1>1, HarnessedKept, SantaAssumption
<1>3. overtaken' = overtaken /\ Harnessed \subseteq Reindeer /\ santa \notin Harnessed
  BY SantaAssumption
     DEF start_routine_santa, SantaLooks, SantaDelivers, SantaHelped, Harnessed
<1>4. SleighCounted'
  <2>1. CASE SantaDelivers
    <3>1. reindeers' = 0 /\ Waiting(cond_reindeer) \subseteq woken'
      BY <2>1 DEF SantaDelivers
    <3>2. Harnessed \subseteq Waiting(cond_reindeer)
      BY DEF Harnessed, Waiting, cond_reindeer, Threads
    <3> QED
      BY <1>2, <3>1, <3>2 DEF SleighCounted
  <2>2. CASE SantaLooks \/ SantaHelped
    <3>1. reindeers' = reindeers /\ woken \ {santa} \subseteq woken'
      BY <2>2 DEF SantaLooks, SantaHelped, Helps
    <3> QED
      BY <1>2, <1>3, <3>1 DEF SleighCounted
  <2> QED
    BY <2>1, <2>2 DEF start_routine_santa
<1>5. EndsLocked'
  BY <1>1 DEF start_routine_santa, SantaLooks, SantaDelivers, SantaHelped, Helps, Goes,
              EndsLocked, PlacesTyped, Threads
<1> QED
  BY <1>4, <1>5

\* A reindeer that comes is counted; one that comes first finds nobody that still
\* waits from before, or has overtaken it.
LEMMA ReindeerCounts ==
  ASSUME IInv, SleighCounted, EndsLocked, NEW r \in Reindeer, start_routine_reindeer(r)
  PROVE  SleighCounted' /\ EndsLocked'
<1>0. PlacesTyped /\ DataTyped
  BY DEF IInv
<1>1. PICK place : Goes(r, place)
  BY DEF start_routine_reindeer, ReindeerComes, ReindeerWakes
<1>2. EndsLocked'
  BY <1>0, <1>1, SantaAssumption
     DEF start_routine_reindeer, ReindeerComes, ReindeerWakes, Goes, PlacesTyped, EndsLocked
<1>3. CASE ReindeerComes(r)
  <2> SUFFICES ASSUME "reindeer" \notin overtaken'
               PROVE  Cardinality(Harnessed') = reindeers' /\ reindeers' > 0
    BY <1>2 DEF SleighCounted
  <2>1. /\ reindeers' = reindeers + 1 /\ reindeers \in Nat
        /\ pc[r] = "resting" /\ "reindeer" \notin overtaken
        /\ reindeers = 0 => woken \cap Reindeer = {}
    BY <1>0, <1>3 DEF ReindeerComes, DataTyped
  <2>2. r \notin Harnessed /\ Harnessed' = Harnessed \union {r}
    BY <1>0, <1>3, <2>1 DEF ReindeerComes, Goes, PlacesTyped, Harnessed, Threads
  <2>3. Cardinality(Harnessed') = Cardinality(Harnessed) + 1
    BY <2>2, HarnessedBound, FS_AddElement
  <2>4. Cardinality(Harnessed) = reindeers
    <3>1. CASE reindeers > 0
      BY <2>1, <3>1 DEF SleighCounted
    <3>2. CASE reindeers = 0
      <4>1. Harnessed \subseteq woken
        BY <2>1, <3>2 DEF SleighCounted
      <4>2. Harnessed = {}
        BY <2>1, <3>2, <4>1 DEF Harnessed
      <4> QED
        BY <3>2, <4>2, FS_EmptySet
    <3> QED
      BY <2>1, <3>1, <3>2
  <2> QED
    BY <2>1, <2>3, <2>4
<1>4. CASE ReindeerWakes(r)
  <2>1. /\ reindeers' = reindeers /\ reindeers \in Nat /\ overtaken' = overtaken
        /\ woken' = woken \ {r}
    BY <1>0, <1>4 DEF ReindeerWakes, DataTyped
  <2>2. CASE reindeers > 0
    <3>1. Harnessed' = Harnessed
      BY <1>0, <1>4, <2>2 DEF ReindeerWakes, Goes, PlacesTyped, Harnessed, Threads
    <3> QED
      BY <1>2, <2>1, <2>2, <3>1 DEF SleighCounted
  <2>3. CASE ~(reindeers > 0)
    <3>1. Harnessed' = Harnessed \ {r}
      BY <1>0, <1>4, <2>3 DEF ReindeerWakes, Goes, PlacesTyped, Harnessed, Threads
    <3> QED
      BY <1>2, <2>1, <2>3, <3>1 DEF SleighCounted
  <2> QED
    BY <2>2, <2>3
<1> QED
  BY <1>2, <1>3, <1>4 DEF start_routine_reindeer

\* An elf has nothing to do with the sleigh.
LEMMA ElfCounts ==
  ASSUME IInv, SleighCounted, EndsLocked, NEW e \in Elves, start_routine_elf(e)
  PROVE  SleighCounted' /\ EndsLocked'
<1> USE DEF start_routine_elf, ElfComes, ElfWakes, ElfServed, ElfReturns, Leaves
<1>1. e \notin Reindeer /\ e # santa
  BY SantaAssumption
<1>2. \A t \in Threads : t # e => pc'[t] = pc[t]
  BY DEF Goes, IInv, PlacesTyped
<1>3. UNCHANGED <<reindeers, locked>> /\ woken \ {e} \subseteq woken'
  OBVIOUS
<1>4. "reindeer" \notin overtaken' => "reindeer" \notin overtaken
  OBVIOUS
<1>5. Harnessed' = Harnessed /\ e \notin Harnessed
  BY <1>1, <1>2 DEF Harnessed, Threads
<1>6. pc'[santa] = pc[santa]
  BY <1>1, <1>2 DEF Threads
<1> HIDE DEF start_routine_elf, ElfComes, ElfWakes, ElfServed, ElfReturns, Leaves
<1> QED
  BY <1>3, <1>4, <1>5, <1>6 DEF SleighCounted, EndsLocked

\* Nobody is lost to the sleigh, whoever takes the next step.
LEMMA NextCounts ==
  IInv /\ SleighCounted /\ EndsLocked /\ [Next]_vars => SleighCounted' /\ EndsLocked'
<1> SUFFICES ASSUME IInv, SleighCounted, EndsLocked, [Next]_vars
             PROVE  SleighCounted' /\ EndsLocked'
  OBVIOUS
<1>1. ASSUME NEW t \in Threads, WakesUpForNoReason(t) PROVE SleighCounted' /\ EndsLocked'
  BY <1>1 DEF WakesUpForNoReason, SleighCounted, EndsLocked, Harnessed
<1>2. CASE UNCHANGED vars
  BY <1>2 DEF vars, SleighCounted, EndsLocked, Harnessed
<1> QED
  BY <1>1, <1>2, SantaCounts, ReindeerCounts, ElfCounts DEF Next

\* When Santa sleeps and every reindeer waits, the last one to come would have woken him.
LEMMA SomeoneGoesOn ==
  ASSUME IInv, SleighCounted, EndsLocked
  PROVE  NeverStuck
<1> SUFFICES ASSUME "reindeer" \notin overtaken, ~locked,
                    \A t \in Reindeer \union {santa} : ~CanGoOn(t)
             PROVE  FALSE
  BY DEF NeverStuck
<1>1. pc[santa] = "asleep" /\ santa \notin woken
  BY DEF IInv, PlacesTyped, EndsLocked, CanGoOn, Enters, Waiting, cond_santa, cond_reindeer,
         cond_elves
<1>2. reindeers < REINDEER_NUM
  BY <1>1 DEF IInv, SantaNotMissed
<1>3. \A r \in Reindeer : pc[r] = "waiting" /\ r \notin woken
  BY DEF IInv, PlacesTyped, CanGoOn, Enters, Waiting, cond_santa, cond_reindeer, cond_elves
<1>4. Harnessed = Reindeer
  BY <1>3 DEF Harnessed
<1>5. Cardinality(Harnessed) = REINDEER_NUM /\ REINDEER_NUM > 0 /\ reindeers \in Nat
  BY <1>4, SantaAssumption DEF REINDEER_NUM, IInv, DataTyped
<1>6. CASE reindeers > 0
  BY <1>2, <1>5, <1>6, HarnessedBound DEF SleighCounted
<1>7. CASE ~(reindeers > 0)
  <2>1. Reindeer \subseteq woken
    BY <1>4, <1>7 DEF SleighCounted
  <2>2. Reindeer = {}
    BY <1>3, <2>1
  <2> QED
    BY <1>4, <1>5, <2>2, FS_EmptySet
<1> QED
  BY <1>6, <1>7

\* Until the last delivery the threads never all wait for one another, whatever the
\* elves do, unless a reindeer overtook one that was released with it.
THEOREM NobodyIsStuck == Spec => []NeverStuck
<1>1. Init => SleighCounted /\ EndsLocked
  <2> SUFFICES ASSUME Init PROVE SleighCounted /\ EndsLocked
    OBVIOUS
  <2>1. Harnessed = {} /\ pc[santa] = "start"
    BY SantaAssumption DEF Init, Harnessed, Threads
  <2> QED
    BY <2>1 DEF Init, SleighCounted, EndsLocked
<1> QED
  BY <1>1, Invariance, NextCounts, SomeoneGoesOn, PTL DEF Spec
=============================================================================
