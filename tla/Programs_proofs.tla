--------------------------- MODULE Programs_proofs ---------------------------
(****************************************************************************)
(* Theorems about the small programs: cw08/zad1 (Negative), for images of   *)
(* any size and any number of threads; cw03/zad2 (Integral), which shares   *)
(* out its rectangles to processes in the same way; the mains of cw07       *)
(* (PizzeriaMain), for any number of workers; the senders and catchers of   *)
(* cw04 (Signals), for any number of signals; and the producers and the     *)
(* consumer of cw05/zad3 (Fifo), for any number of producers and records.   *)
(****************************************************************************)
EXTENDS MCPrograms, SequenceTheorems, TLAPS

-----------------------------------------------------------------------------
(* The blocks. *)

\* Coef(w, n) columns for each of n threads are enough for w columns.
LEMMA CoefEnough ==
  ASSUME NEW w \in Nat \ {0}, NEW n \in Nat \ {0}
  PROVE  Coef(w, n) \in Nat \ {0} /\ w <= n * Coef(w, n)
<1> DEFINE q == (w + n - 1) \div n
<1>1. w + n - 1 = n * q + ((w + n - 1) % n) /\ (w + n - 1) % n \in 0 .. n - 1 /\ q \in Nat
  OBVIOUS
<1>2. q # 0
  BY <1>1
<1> QED
  BY <1>1, <1>2 DEF Coef

\* A block begins before it ends.
LEMMA BlockEnds ==
  ASSUME NEW w \in Nat \ {0}, NEW n \in Nat \ {0}, NEW t \in 0 .. n - 1
  PROVE  LeftEnd(t, w, n) \in Nat /\ RightEnd(t, w, n) \in Nat
                                  /\ LeftEnd(t, w, n) < RightEnd(t, w, n)
<1>1. Coef(w, n) \in Nat \ {0}
  BY CoefEnough
<1> QED
  BY <1>1 DEF LeftEnd, RightEnd

\* Whatever the numbers of columns and threads, the thread whose block a column is
\* in exists and is the only one.
THEOREM BlocksPartition ==
  ASSUME NEW w \in Nat \ {0}, NEW n \in Nat \ {0}, NEW c \in 0 .. w - 1
  PROVE  /\ \E t \in 0 .. n - 1 : LeftEnd(t, w, n) <= c /\ c < RightEnd(t, w, n)
         /\ \A t, u \in 0 .. n - 1 :
              /\ LeftEnd(t, w, n) <= c /\ c < RightEnd(t, w, n)
              /\ LeftEnd(u, w, n) <= c /\ c < RightEnd(u, w, n)
              => t = u
<1> DEFINE coef == Coef(w, n)
           t == c \div coef
<1>1. coef \in Nat \ {0} /\ w <= n * coef
  BY CoefEnough
<1> HIDE DEF coef
<1>2. c = coef * t + (c % coef) /\ c % coef \in 0 .. coef - 1 /\ t \in Nat
  BY <1>1
<1>3. t * coef <= c /\ c < (t + 1) * coef
  BY <1>1, <1>2
<1>4. t \in 0 .. n - 1
  BY <1>1, <1>2
<1>5. LeftEnd(t, w, n) <= c /\ c < RightEnd(t, w, n)
  BY <1>3 DEF LeftEnd, RightEnd, coef
<1>6. ASSUME NEW u \in 0 .. n - 1, NEW v \in 0 .. n - 1,
             LeftEnd(u, w, n) <= c, c < RightEnd(u, w, n),
             LeftEnd(v, w, n) <= c, c < RightEnd(v, w, n)
      PROVE  u = v
  <2>1. u * coef <= c /\ c < (u + 1) * coef /\ v * coef <= c /\ c < (v + 1) * coef
    BY <1>6 DEF LeftEnd, RightEnd, coef
  <2> QED
    BY <1>1, <2>1
<1> QED
  BY <1>4, <1>5, <1>6

-----------------------------------------------------------------------------
(* The rectangles of cw03/zad2. *)

\* n_proc times the share of a process is enough for all the rectangles.
LEMMA EnoughRoom ==
  ASSUME NEW n \in Nat, NEW n_proc \in Nat \ {0}
  PROVE  /\ I!iter_per_proc(n, n_proc) \in Nat \ {0}
         /\ n < n_proc * I!iter_per_proc(n, n_proc)
<1>1. n = n_proc * (n \div n_proc) + (n % n_proc)
  OBVIOUS
<1>2. n % n_proc \in 0 .. n_proc - 1
  OBVIOUS
<1>3. n \div n_proc \in Nat
  OBVIOUS
<1> QED
  BY <1>1, <1>2, <1>3 DEF I!iter_per_proc

\* Whatever the numbers of rectangles and of processes, each rectangle is computed
\* by one process and added up once: no two files have one in common.
THEOREM RectanglesOnce ==
  ASSUME NEW n \in Nat, NEW n_proc \in Nat \ {0}, NEW j \in 0 .. n - 1
  PROVE  /\ \E k \in I!Files(n_proc) : j \in I!File(k, n, n_proc)
         /\ \A k, l \in I!Files(n_proc) :
              j \in I!File(k, n, n_proc) /\ j \in I!File(l, n, n_proc) => k = l
<1> DEFINE iter == I!iter_per_proc(n, n_proc)
           k == j \div iter + 1
<1>1. iter \in Nat \ {0} /\ n < n_proc * iter
  BY EnoughRoom
<1> HIDE DEF iter
<1>2. j = iter * (j \div iter) + (j % iter) /\ j % iter \in 0 .. iter - 1 /\ j \div iter \in Nat
  BY <1>1
<1>3. (k - 1) * iter <= j /\ j < (k - 1) * iter + iter
  BY <1>1, <1>2
<1>4. k \in I!Files(n_proc)
  BY <1>1, <1>2 DEF I!Files
<1>5. j \in I!File(k, n, n_proc)
  BY <1>3 DEF I!File, iter
<1>6. ASSUME NEW l \in I!Files(n_proc), NEW m \in I!Files(n_proc),
             j \in I!File(l, n, n_proc), j \in I!File(m, n, n_proc)
      PROVE  l = m
  <2>1. /\ (l - 1) * iter <= j /\ j < (l - 1) * iter + iter
        /\ (m - 1) * iter <= j /\ j < (m - 1) * iter + iter
    BY <1>6 DEF I!File, iter
  <2>2. l \in Int /\ m \in Int
    BY DEF I!Files
  <2> QED
    BY <1>1, <2>1, <2>2
<1> QED
  BY <1>4, <1>5, <1>6

-----------------------------------------------------------------------------
(* Types. *)

\* The numbers of columns, rows and threads are positive.
LEMMA Sized ==
  ASSUME TypeOK
  PROVE  width \in Nat \ {0} /\ height \in Nat \ {0} /\ threads_num \in Nat \ {0}
BY NegativeAssumption DEF TypeOK

\* The next step of a thread that goes on to a pixel is at that pixel.
LEMMA OnPixel ==
  ASSUME TypeOK, NEW t \in Threads, NEW pixel \in Nat \X Nat,
         InLoop(t, pixel), threads_mode = "block" => pixel[2] < height,
         threads_mode = "numbers" => pixel[1] < width
  PROVE  pixel \in Pixels
<1>1. width \in Nat /\ height \in Nat
  BY Sized
<1>2. pixel = <<pixel[1], pixel[2]>> /\ pixel[1] \in Nat /\ pixel[2] \in Nat
  OBVIOUS
<1>3. pixel[1] < width /\ pixel[2] < height
  BY DEF InLoop, TypeOK
<1> QED
  BY <1>1, <1>2, <1>3 DEF Pixels

\* The next pixel of a thread is one of the image, or its loops are over.
LEMMA NextTyped ==
  ASSUME TypeOK, NEW t \in Threads, step[t] # "done"
  PROVE  /\ NextPixel(pos[t]) \in Nat \X Nat
         /\ StepAt(t, NextPixel(pos[t])) \in {"test", "load", "done"}
         /\ StepAt(t, NextPixel(pos[t])) # "done" => NextPixel(pos[t]) \in Pixels
<1> DEFINE next == NextPixel(pos[t])
<1>1. pos[t] \in Pixels /\ pos[t] \in Nat \X Nat
  BY DEF TypeOK
<1>2. width \in Nat \ {0} /\ height \in Nat \ {0}
  BY Sized
<1>3. next \in Nat \X Nat
  BY <1>1 DEF NextPixel
<1>4. threads_mode = "block" => next[2] < height
  BY <1>1, <1>2 DEF NextPixel
<1>5. threads_mode = "numbers" => next[1] < width
  BY <1>1, <1>2 DEF NextPixel
<1> HIDE DEF next
<1>6. StepAt(t, next) \in {"test", "load", "done"}
  BY DEF StepAt, FirstStep
<1>7. StepAt(t, next) # "done" => InLoop(t, next)
  BY DEF StepAt
<1>8. StepAt(t, next) # "done" => next \in Pixels
  BY <1>3, <1>4, <1>5, <1>7, OnPixel
<1> QED
  BY <1>3, <1>6, <1>8 DEF next

\* The threads begin at pixels of the image.
LEMMA InitTyped == Init => TypeOK
<1> SUFFICES ASSUME Init PROVE TypeOK
  OBVIOUS
<1>1. <<width, height, threads_num>> \in Tries
  <2>1. PICK try \in Tries : width = try[1] /\ height = try[2] /\ threads_num = try[3]
    BY DEF Init
  <2>2. try = <<try[1], try[2], try[3]>>
    BY NegativeAssumption
  <2> QED
    BY <2>1, <2>2
<1>2. width \in Nat \ {0} /\ height \in Nat \ {0} /\ threads_num \in Nat \ {0}
  BY <1>1, NegativeAssumption
<1>3. original \in [Pixels -> 0 .. MaxPixel] /\ values \in [Pixels -> 0 .. MaxPixel]
  BY DEF Init
<1>4. \A t \in Threads : FirstPixel(t) \in Nat \X Nat
  BY <1>2, BlockEnds DEF FirstPixel, Threads
<1>5. pos \in [Threads -> Nat \X Nat]
  BY <1>4 DEF Init
<1>6. step \in [Threads -> {"test", "value", "load", "store", "done"}]
  BY DEF Init, StepAt, FirstStep
<1>7. ASSUME NEW t \in Threads, step[t] # "done" PROVE pos[t] \in Pixels
  <2>1. pos[t] = FirstPixel(t) /\ InLoop(t, FirstPixel(t))
    BY <1>7 DEF Init, StepAt
  <2>2. CASE threads_mode = "block"
    <3>1. pos[t] = <<LeftEnd(t, width, threads_num), 0>>
      BY <2>1, <2>2 DEF FirstPixel
    <3>2. LeftEnd(t, width, threads_num) \in Nat
      BY <1>2, BlockEnds DEF Threads
    <3>3. LeftEnd(t, width, threads_num) < width
      BY <2>1, <2>2, <3>1 DEF InLoop
    <3> QED
      BY <1>2, <3>1, <3>2, <3>3 DEF Pixels
  <2>3. CASE threads_mode # "block"
    BY <1>2, <2>1, <2>3 DEF FirstPixel, Pixels
  <2> QED
    BY <2>2, <2>3
<1> QED
  BY <1>1, <1>3, <1>5, <1>6, <1>7, NegativeAssumption DEF TypeOK, Init

\* No step of a thread leaves the types.
LEMMA NextKeepsTypes == TypeOK /\ [Next]_vars => TypeOK'
<1> SUFFICES ASSUME TypeOK, [Next]_vars PROVE TypeOK'
  OBVIOUS
<1>1. CASE UNCHANGED vars
  BY <1>1 DEF vars, TypeOK, Pixels, Threads
<1>2. ASSUME NEW t \in Threads, Test(t) \/ Decide(t) \/ Load(t) \/ Store(t)
      PROVE  TypeOK'
  <2>1. /\ UNCHANGED given
        /\ Pixels' = Pixels /\ Threads' = Threads
    BY <1>2 DEF Test, Decide, Load, Store, given, Pixels, Threads
  <2>2. step[t] # "done"
    BY <1>2 DEF Test, Decide, Load, Store
  <2>3. pos[t] \in Pixels /\ values[pos[t]] \in 0 .. MaxPixel
    BY <2>2 DEF TypeOK
  <2>4. above' \in [Threads -> BOOLEAN]
    <3>1. Above(values[pos[t]]) \in BOOLEAN
      BY DEF Above
    <3>2. CASE Test(t)
      BY <3>1, <3>2, Zenon DEF Test, TypeOK
    <3>3. CASE ~Test(t)
      BY <1>2, <3>3 DEF Decide, Load, Store, TypeOK
    <3> QED
      BY <3>2, <3>3
  <2>5. reg' \in [Threads -> 0 .. MaxPixel]
    BY <1>2, <2>3 DEF Test, Decide, Load, Store, TypeOK
  <2>6. values' \in [Pixels -> 0 .. MaxPixel]
    BY <1>2, <2>3, NegativeAssumption DEF Test, Decide, Load, Store, TypeOK
  <2>7. /\ step' \in [Threads -> {"test", "value", "load", "store", "done"}]
        /\ pos' \in [Threads -> Nat \X Nat]
        /\ \A u \in Threads : step'[u] # "done" => pos'[u] \in Pixels
    <3>1. CASE GoesOn(t)
      <4>1. /\ NextPixel(pos[t]) \in Nat \X Nat
            /\ StepAt(t, NextPixel(pos[t])) \in {"test", "load", "done"}
            /\ StepAt(t, NextPixel(pos[t])) # "done" => NextPixel(pos[t]) \in Pixels
        BY <2>2, NextTyped
      <4> QED
        BY <3>1, <4>1 DEF GoesOn, TypeOK
    <3>2. CASE \E to \in {"value", "load", "store"} : Goes(t, to)
      BY <2>3, <3>2 DEF Goes, TypeOK
    <3> QED
      BY <1>2, <3>1, <3>2 DEF Test, Decide, Load, Store
  <2> QED
    BY <2>1, <2>4, <2>5, <2>6, <2>7 DEF TypeOK, given
<1> QED
  BY <1>1, <1>2 DEF Next, start_routine_numbers, start_routine_block

\* Types, for every size, number of threads, and mode.
THEOREM TypeCorrect == Spec => []TypeOK
<1> QED
  BY InitTyped, NextKeepsTypes, PTL DEF Spec

-----------------------------------------------------------------------------
(* Mode "block". *)

\* The order in which a thread works on the pixels of its block.
Before(p, q) == p[1] < q[1] \/ (p[1] = q[1] /\ p[2] < q[2])

\* The pixels a thread has replaced.
Passed(t, p) == InBlock(t, p[1]) /\ (step[t] = "done" \/ Before(p, pos[t]))

\* A thread stays in its block, and no one else changes the pixel it has read.
ThreadInBlock(t) ==
  /\ step[t] \in {"load", "store", "done"}
  /\ step[t] # "done" => InBlock(t, pos[t][1])
  /\ step[t] = "store" => reg[t] = values[pos[t]]

\* The pixels that are negated are those that some thread has passed.
PixelRight(p) ==
  values[p] = IF \E t \in Threads : Passed(t, p) THEN MaxPixel - original[p] ELSE original[p]

BlockInv ==
  threads_mode = "block" =>
    /\ \A t \in Threads : ThreadInBlock(t)
    /\ \A p \in Pixels : PixelRight(p)

\* Two threads have no column in common.
LEMMA Apart ==
  ASSUME TypeOK, NEW t \in Threads, NEW u \in Threads, NEW p \in Pixels,
         InBlock(t, p[1]), InBlock(u, p[1])
  PROVE  t = u
<1>1. p[1] \in 0 .. width - 1
  BY DEF Pixels
<1> QED
  BY <1>1, Sized, BlocksPartition DEF InBlock, Threads

\* A pixel belongs to some thread.
LEMMA Covered ==
  ASSUME TypeOK, NEW p \in Pixels
  PROVE  \E t \in Threads : InBlock(t, p[1])
<1>1. p[1] \in 0 .. width - 1
  BY DEF Pixels
<1> QED
  BY <1>1, Sized, BlocksPartition DEF InBlock, Threads

\* At the start no thread has passed a pixel.
LEMMA InitBlocks == Init => BlockInv
<1> SUFFICES ASSUME Init, threads_mode = "block"
             PROVE  /\ \A t \in Threads : ThreadInBlock(t)
                    /\ \A p \in Pixels : PixelRight(p)
  BY DEF BlockInv
<1>1. TypeOK
  BY InitTyped
<1>2. width \in Nat \ {0} /\ height \in Nat \ {0} /\ threads_num \in Nat \ {0}
  BY <1>1, Sized
<1>3. ASSUME NEW t \in Threads
      PROVE  /\ LeftEnd(t, width, threads_num) \in Nat
             /\ LeftEnd(t, width, threads_num) < RightEnd(t, width, threads_num)
             /\ RightEnd(t, width, threads_num) \in Nat
             /\ pos[t] = <<LeftEnd(t, width, threads_num), 0>>
             /\ step[t] = IF LeftEnd(t, width, threads_num) < width THEN "load" ELSE "done"
  <2>1. /\ LeftEnd(t, width, threads_num) \in Nat
        /\ LeftEnd(t, width, threads_num) < RightEnd(t, width, threads_num)
        /\ RightEnd(t, width, threads_num) \in Nat
    BY <1>2, BlockEnds DEF Threads
  <2>2. pos[t] = FirstPixel(t) /\ step[t] = StepAt(t, FirstPixel(t))
    BY DEF Init
  <2>3. FirstPixel(t) = <<LeftEnd(t, width, threads_num), 0>>
    BY DEF FirstPixel
  <2> QED
    BY <2>1, <2>2, <2>3 DEF StepAt, FirstStep, InLoop
<1>4. ASSUME NEW t \in Threads PROVE ThreadInBlock(t)
  BY <1>2, <1>3 DEF ThreadInBlock, InBlock
<1>5. ASSUME NEW t \in Threads, NEW p \in Pixels PROVE ~Passed(t, p)
  <2>1. p[1] \in 0 .. width - 1 /\ p[2] \in 0 .. height - 1
    BY DEF Pixels
  <2> QED
    BY <1>2, <1>3, <2>1 DEF Passed, Before, InBlock
<1>6. ASSUME NEW p \in Pixels PROVE PixelRight(p)
  BY <1>5 DEF PixelRight, Init
<1> QED
  BY <1>4, <1>6

\* A thread that goes on has passed its pixel, and no other pixel with it.
LEMMA GoesOnPasses ==
  ASSUME TypeOK, threads_mode = "block", NEW t \in Threads, NEW p \in Pixels,
         step[t] # "done", InBlock(t, pos[t][1]), GoesOn(t), UNCHANGED given
  PROVE  Passed(t, p)' <=> Passed(t, p) \/ p = pos[t]
<1> DEFINE left == LeftEnd(t, width, threads_num)
           right == RightEnd(t, width, threads_num)
           here == pos[t]
           next == NextPixel(pos[t])
<1>1. width \in Nat \ {0} /\ height \in Nat \ {0} /\ threads_num \in Nat \ {0}
  BY Sized
<1>2. left \in Nat /\ right \in Nat
  BY <1>1, BlockEnds DEF Threads
<1>3. /\ p = <<p[1], p[2]>> /\ p[1] \in 0 .. width - 1 /\ p[2] \in 0 .. height - 1
      /\ here = <<here[1], here[2]>>
      /\ here[1] \in 0 .. width - 1 /\ here[2] \in 0 .. height - 1
  BY DEF TypeOK, Pixels
<1>4. pos'[t] = next /\ step'[t] = StepAt(t, next)
  BY DEF GoesOn, TypeOK
<1>5. next = IF here[2] + 1 < height THEN <<here[1], here[2] + 1>> ELSE <<here[1] + 1, 0>>
  BY DEF NextPixel
<1>6. step'[t] = IF next[1] < right /\ next[1] < width THEN "load" ELSE "done"
  BY <1>4 DEF StepAt, FirstStep, InLoop
<1>7. Passed(t, p)' <=> left <= p[1] /\ p[1] < right /\ (step'[t] = "done" \/ Before(p, next))
  BY <1>4 DEF Passed, Before, InBlock, given
<1>8. Passed(t, p) <=> left <= p[1] /\ p[1] < right /\ Before(p, here)
  BY DEF Passed, InBlock
<1>9. left <= here[1] /\ here[1] < right
  BY DEF InBlock
<1>10. p = here <=> p[1] = here[1] /\ p[2] = here[2]
  BY <1>3
<1> HIDE DEF left, right, here, next
<1>11. Before(p, next) <=> Before(p, here) \/ p = here
  BY <1>1, <1>3, <1>5, <1>10 DEF Before
<1>12. CASE step'[t] # "done"
  BY <1>7, <1>8, <1>9, <1>10, <1>11, <1>12 DEF here
<1>13. CASE step'[t] = "done"
  <2>1. ~(next[1] < right /\ next[1] < width)
    BY <1>6, <1>13
  <2>2. p[1] < right => Before(p, here) \/ p = here
    BY <1>1, <1>2, <1>3, <1>5, <1>9, <1>10, <2>1 DEF Before
  <2> QED
    BY <1>7, <1>8, <1>9, <1>10, <1>13, <2>2 DEF here
<1> QED
  BY <1>12, <1>13

\* What a thread has passed is negated, and stays so whatever the others do.
LEMMA NextKeepsBlocks == TypeOK /\ BlockInv /\ [Next]_vars => BlockInv'
<1> SUFFICES ASSUME TypeOK, BlockInv, [Next]_vars, threads_mode' = "block"
             PROVE  /\ \A u \in Threads' : ThreadInBlock(u)'
                    /\ \A p \in Pixels' : PixelRight(p)'
  BY DEF BlockInv
<1>1. CASE UNCHANGED vars
  BY <1>1 DEF vars, BlockInv, ThreadInBlock, PixelRight, Passed, Before, InBlock, Pixels, Threads
<1>2. ASSUME NEW t \in Threads, start_routine_numbers(t) \/ start_routine_block(t)
      PROVE  /\ \A u \in Threads' : ThreadInBlock(u)'
             /\ \A p \in Pixels' : PixelRight(p)'
  <2>1. /\ UNCHANGED given
        /\ Pixels' = Pixels /\ Threads' = Threads
        /\ threads_mode = "block"
    BY <1>2 DEF start_routine_numbers, start_routine_block, Test, Decide, Load, Store,
                given, Pixels, Threads
  <2>2. /\ \A u \in Threads : ThreadInBlock(u)
        /\ \A p \in Pixels : PixelRight(p)
    BY <2>1 DEF BlockInv
  <2>3. \A u \in Threads : \A c : InBlock(u, c)' <=> InBlock(u, c)
    BY <2>1 DEF InBlock, given
  <2>4. \A u \in Threads \ {t} : step'[u] = step[u] /\ pos'[u] = pos[u] /\ reg'[u] = reg[u]
    BY <1>2 DEF start_routine_numbers, start_routine_block, Test, Decide, Load, Store,
                Goes, GoesOn, TypeOK
  <2>5. \A u \in Threads \ {t} : \A p \in Pixels : Passed(u, p)' <=> Passed(u, p)
    BY <2>3, <2>4 DEF Passed, Before
  <2>6. CASE Load(t)
    <3>1. /\ step[t] = "load" /\ step'[t] = "store" /\ pos' = pos
          /\ values' = values /\ reg'[t] = values[pos[t]]
      BY <2>6 DEF Load, Goes, TypeOK
    <3>2. ASSUME NEW u \in Threads PROVE ThreadInBlock(u)'
      <4>1. CASE u = t
        <5>1. InBlock(t, pos[t][1])
          BY <2>2, <3>1 DEF ThreadInBlock
        <5> QED
          BY <2>3, <3>1, <4>1, <5>1 DEF ThreadInBlock
      <4>2. CASE u # t
        BY <2>2, <2>3, <2>4, <3>1, <4>2 DEF ThreadInBlock
      <4> QED
        BY <4>1, <4>2
    <3>3. \A p \in Pixels : Passed(t, p)' <=> Passed(t, p)
      BY <2>3, <3>1 DEF Passed, Before
    <3>4. ASSUME NEW p \in Pixels PROVE PixelRight(p)'
      <4>1. (\E u \in Threads : Passed(u, p)') <=> \E u \in Threads : Passed(u, p)
        BY <2>5, <3>3
      <4>2. values'[p] = values[p] /\ original' = original
        BY <2>1, <3>1 DEF given
      <4> QED
        BY <2>1, <2>2, <4>1, <4>2 DEF PixelRight
    <3> QED
      BY <2>1, <3>2, <3>4
  <2>7. CASE Store(t)
    <3>1. /\ step[t] = "store" /\ GoesOn(t) /\ pos[t] \in Pixels
          /\ InBlock(t, pos[t][1]) /\ reg[t] = values[pos[t]]
          /\ reg' = reg
          /\ values' = [values EXCEPT ![pos[t]] = MaxPixel - values[pos[t]]]
      BY <2>2, <2>7 DEF Store, ThreadInBlock, TypeOK
    <3>2. \A p \in Pixels : Passed(t, p)' <=> Passed(t, p) \/ p = pos[t]
      BY <2>1, <3>1, GoesOnPasses
    <3>3. \A u \in Threads : ~Passed(u, pos[t])
      <4>1. ~Passed(t, pos[t])
        <5>1. pos[t][1] \in Int /\ pos[t][2] \in Int
          BY <3>1 DEF TypeOK
        <5> QED
          BY <3>1, <5>1 DEF Passed, Before
      <4>2. \A u \in Threads : Passed(u, pos[t]) => u = t
        BY <3>1, Apart DEF Passed
      <4> QED
        BY <4>1, <4>2
    <3>4. ASSUME NEW u \in Threads PROVE ThreadInBlock(u)'
      <4>1. CASE u = t
        <5>1. pos'[t] = NextPixel(pos[t]) /\ step'[t] = StepAt(t, NextPixel(pos[t]))
          BY <3>1 DEF GoesOn, TypeOK
        <5>2. step'[t] \in {"load", "done"}
          BY <2>1, <5>1 DEF StepAt, FirstStep
        <5>3. ASSUME step'[t] # "done" PROVE InBlock(t, pos'[t][1])
          <6>1. pos'[t][1] < RightEnd(t, width, threads_num)
            BY <2>1, <5>1, <5>3 DEF StepAt, InLoop
          <6>2. pos'[t][1] = pos[t][1] \/ pos'[t][1] = pos[t][1] + 1
            BY <2>1, <5>1 DEF NextPixel
          <6>3. LeftEnd(t, width, threads_num) <= pos[t][1]
            BY <3>1 DEF InBlock
          <6>4. LeftEnd(t, width, threads_num) \in Nat /\ pos[t][1] \in Nat
            BY <3>1, Sized, BlockEnds DEF Threads, TypeOK
          <6> QED
            BY <6>1, <6>2, <6>3, <6>4 DEF InBlock
        <5> QED
          BY <2>3, <4>1, <5>2, <5>3 DEF ThreadInBlock
      <4>2. CASE u # t
        <5>1. step[u] = "store" => pos[u] \in Pixels /\ pos[u] # pos[t]
          BY <2>2, <3>1, <4>2, Apart DEF ThreadInBlock, TypeOK
        <5>2. step[u] = "store" => values'[pos[u]] = values[pos[u]]
          BY <3>1, <5>1 DEF TypeOK
        <5> QED
          BY <2>2, <2>3, <2>4, <4>2, <5>2 DEF ThreadInBlock
      <4> QED
        BY <4>1, <4>2
    <3>5. ASSUME NEW p \in Pixels PROVE PixelRight(p)'
      <4>1. original' = original
        BY <2>1 DEF given
      <4>2. CASE p = pos[t]
        <5>1. values[p] = original[p]
          BY <2>2, <3>3, <4>2 DEF PixelRight
        <5>2. values'[p] = MaxPixel - original[p]
          BY <3>1, <4>2, <5>1 DEF TypeOK
        <5>3. \E u \in Threads : Passed(u, p)'
          BY <3>2, <4>2
        <5> QED
          BY <2>1, <4>1, <5>2, <5>3 DEF PixelRight
      <4>3. CASE p # pos[t]
        <5>1. (\E u \in Threads : Passed(u, p)') <=> \E u \in Threads : Passed(u, p)
          BY <2>5, <3>2, <4>3
        <5>2. values'[p] = values[p]
          BY <3>1, <4>3 DEF TypeOK
        <5> QED
          BY <2>1, <2>2, <4>1, <5>1, <5>2 DEF PixelRight
      <4> QED
        BY <4>2, <4>3
    <3> QED
      BY <2>1, <3>4, <3>5
  <2> QED
    BY <1>2, <2>1, <2>6, <2>7 DEF start_routine_numbers, start_routine_block
<1> QED
  BY <1>1, <1>2 DEF Next

\* Between its blocks the image is whole: when all have ended all is negated.
LEMMA BlocksEnd == TypeOK /\ BlockInv => BlocksNegated
<1> SUFFICES ASSUME TypeOK, BlockInv, threads_mode = "block", Joined
             PROVE  Negated
  BY DEF BlocksNegated
<1>1. ASSUME NEW p \in Pixels PROVE values[p] = MaxPixel - original[p]
  <2>1. \E t \in Threads : Passed(t, p)
    BY Covered DEF Passed, Joined
  <2> QED
    BY <2>1 DEF BlockInv, PixelRight
<1> QED
  BY <1>1 DEF Negated, TypeOK

\* In mode "block" the saved image is the negative, for every image and every
\* number of threads, in whatever order they work.
THEOREM BlocksRight == Spec => []BlocksNegated
<1>1. TypeOK /\ BlockInv /\ [Next]_vars => (TypeOK /\ BlockInv)'
  BY NextKeepsTypes, NextKeepsBlocks
<1> QED
  BY <1>1, InitTyped, InitBlocks, BlocksEnd, PTL DEF Spec

-----------------------------------------------------------------------------
(* Mode "numbers". *)

\* The smaller one of a value and its negative, and the thread whose the pixel is.
Lower(value) == IF Above(value) THEN MaxPixel - value ELSE value
Owner(p) == Lower(original[p]) % threads_num

\* The order in which every thread looks at the pixels.
RowsBefore(p, q) == p[2] < q[2] \/ (p[2] = q[2] /\ p[1] < q[1])

\* A thread replaces only its own pixels, no one else changes the one it has read, and
\* it ends after the last row.
ThreadInRows(t) ==
  /\ step[t] \in {"load", "store"} => Owner(pos[t]) = t
  /\ step[t] = "store" => reg[t] = values[pos[t]]
  /\ step[t] = "done" => pos[t][2] >= height

\* The pixels that are negated are those that their threads have passed.
OwnedRight(p) ==
  values[p] = IF RowsBefore(p, pos[Owner(p)]) THEN MaxPixel - original[p] ELSE original[p]

NumbersInv ==
  threads_mode = "numbers" =>
    /\ \A t \in Threads : ThreadInRows(t)
    /\ \A p \in Pixels : OwnedRight(p)

\* A value and its negative have the same smaller one, of which some thread is the owner.
LEMMA LowerRight ==
  ASSUME NEW v \in 0 .. MaxPixel
  PROVE  Lower(v) \in Nat /\ MaxPixel - v \in 0 .. MaxPixel /\ Lower(MaxPixel - v) = Lower(v)
<1> DEFINE half == MaxPixel \div 2
<1>1. MaxPixel \in Nat /\ half \in Nat /\ 2 * half <= MaxPixel /\ MaxPixel <= 2 * half + 1
  BY NegativeAssumption
<1>2. \A x : Lower(x) = IF x > half THEN MaxPixel - x ELSE x
  BY DEF Lower, Above
<1> HIDE DEF half
<1> QED
  BY <1>1, <1>2

\* Every pixel has its thread.
LEMMA OwnerIsThread ==
  ASSUME TypeOK, NEW p \in Pixels
  PROVE  Owner(p) \in Threads
<1>1. Lower(original[p]) \in Nat
  BY LowerRight DEF TypeOK
<1>2. threads_num \in Nat \ {0}
  BY Sized
<1>3. \A n \in Nat, m \in Nat \ {0} : n % m \in 0 .. m - 1
  OBVIOUS
<1> QED
  BY <1>1, <1>2, <1>3 DEF Owner, Threads

\* At the start all threads are at the first pixel, and have replaced none.
LEMMA InitNumbers == Init => NumbersInv
<1> SUFFICES ASSUME Init, threads_mode = "numbers"
             PROVE  /\ \A t \in Threads : ThreadInRows(t)
                    /\ \A p \in Pixels : OwnedRight(p)
  BY DEF NumbersInv
<1>1. TypeOK
  BY InitTyped
<1>2. width \in Nat \ {0} /\ height \in Nat \ {0}
  BY <1>1, Sized
<1>3. \A t \in Threads : pos[t] = <<0, 0>> /\ step[t] = "test"
  BY <1>2 DEF Init, FirstPixel, StepAt, InLoop, FirstStep
<1>4. ASSUME NEW t \in Threads PROVE ThreadInRows(t)
  BY <1>3 DEF ThreadInRows
<1>5. ASSUME NEW p \in Pixels PROVE OwnedRight(p)
  <2>1. pos[Owner(p)] = <<0, 0>>
    BY <1>1, <1>3, OwnerIsThread
  <2>2. p[1] \in 0 .. width - 1 /\ p[2] \in 0 .. height - 1
    BY DEF Pixels
  <2>3. ~RowsBefore(p, <<0, 0>>)
    BY <1>2, <2>2 DEF RowsBefore
  <2> QED
    BY <2>1, <2>3 DEF OwnedRight, Init
<1> QED
  BY <1>4, <1>5

\* A thread that goes on has passed its pixel, and no other pixel with it.
LEMMA GoesOnInRows ==
  ASSUME TypeOK, threads_mode = "numbers", NEW t \in Threads, step[t] # "done", GoesOn(t)
  PROVE  /\ step'[t] \in {"test", "done"} /\ (step'[t] = "done" => pos'[t][2] >= height)
         /\ \A p \in Pixels : RowsBefore(p, pos'[t]) <=> RowsBefore(p, pos[t]) \/ p = pos[t]
<1> DEFINE here == pos[t]
           next == NextPixel(pos[t])
<1>1. width \in Nat \ {0} /\ height \in Nat \ {0}
  BY Sized
<1>2. /\ here = <<here[1], here[2]>>
      /\ here[1] \in 0 .. width - 1 /\ here[2] \in 0 .. height - 1
  BY DEF TypeOK, Pixels
<1>3. pos'[t] = next /\ step'[t] = StepAt(t, next)
  BY DEF GoesOn, TypeOK
<1>4. next = IF here[1] + 1 < width THEN <<here[1] + 1, here[2]>> ELSE <<0, here[2] + 1>>
  BY DEF NextPixel
<1>5. step'[t] = IF next[2] < height THEN "test" ELSE "done"
  BY <1>3 DEF StepAt, FirstStep, InLoop
<1> HIDE DEF here, next
<1>6. next[2] \in Nat
  BY <1>2, <1>4
<1>7. ASSUME NEW p \in Pixels
      PROVE  RowsBefore(p, next) <=> RowsBefore(p, here) \/ p = here
  <2>1. p = <<p[1], p[2]>> /\ p[1] \in 0 .. width - 1 /\ p[2] \in 0 .. height - 1
    BY DEF Pixels
  <2>2. p = here <=> p[1] = here[1] /\ p[2] = here[2]
    BY <1>2, <2>1
  <2> QED
    BY <1>1, <1>2, <1>4, <2>1, <2>2 DEF RowsBefore
<1> QED
  BY <1>1, <1>3, <1>5, <1>6, <1>7 DEF here

\* A thread that is not overtaken between its two reads decides for its own pixels.
LEMMA DecidesRight ==
  ASSUME TypeOK, NumbersInv, ~Overtaken, threads_mode = "numbers", NEW t \in Threads,
         step[t] = "value"
  PROVE  Value(t) % threads_num = Owner(pos[t])
<1>1. pos[t] \in Pixels /\ original[pos[t]] \in 0 .. MaxPixel
  BY DEF TypeOK
<1>2. values[pos[t]] \in {original[pos[t]], MaxPixel - original[pos[t]]}
  BY <1>1 DEF NumbersInv, OwnedRight
<1>3. Value(t) = Lower(values[pos[t]])
  BY DEF Overtaken, Value, Lower
<1>4. Lower(values[pos[t]]) = Lower(original[pos[t]])
  BY <1>1, <1>2, LowerRight
<1> QED
  BY <1>3, <1>4 DEF Owner

\* What its owner has passed is negated, and stays so whatever the others do.
LEMMA NextKeepsNumbers == TypeOK /\ NumbersInv /\ ~Overtaken /\ [Next]_vars => NumbersInv'
<1> SUFFICES ASSUME TypeOK, NumbersInv, ~Overtaken, [Next]_vars, threads_mode' = "numbers"
             PROVE  /\ \A u \in Threads' : ThreadInRows(u)'
                    /\ \A p \in Pixels' : OwnedRight(p)'
  BY DEF NumbersInv
<1>1. CASE UNCHANGED vars
  BY <1>1 DEF vars, NumbersInv, ThreadInRows, OwnedRight, RowsBefore, Owner, Pixels, Threads
<1>2. ASSUME NEW t \in Threads, start_routine_numbers(t) \/ start_routine_block(t)
      PROVE  /\ \A u \in Threads' : ThreadInRows(u)'
             /\ \A p \in Pixels' : OwnedRight(p)'
  <2>1. /\ UNCHANGED given
        /\ Pixels' = Pixels /\ Threads' = Threads /\ height' = height
        /\ threads_mode = "numbers"
    BY <1>2 DEF start_routine_numbers, start_routine_block, Test, Decide, Load, Store,
                given, Pixels, Threads
  <2>2. /\ \A u \in Threads : ThreadInRows(u)
        /\ \A p \in Pixels : OwnedRight(p)
    BY <2>1 DEF NumbersInv
  <2>3. \A p : Owner(p)' = Owner(p)
    BY <2>1 DEF Owner, given
  <2>4. \A u \in Threads \ {t} : step'[u] = step[u] /\ pos'[u] = pos[u] /\ reg'[u] = reg[u]
    BY <1>2 DEF start_routine_numbers, start_routine_block, Test, Decide, Load, Store,
                Goes, GoesOn, TypeOK
  <2>5. step[t] # "done" /\ pos[t] \in Pixels
    BY <1>2 DEF start_routine_numbers, start_routine_block, Test, Decide, Load, Store, TypeOK
  <2>6. \A p \in Pixels : Owner(p) \in Threads
    BY OwnerIsThread
  <2>7. CASE values' = values /\ pos' = pos
    <3>1. ThreadInRows(t)'
      <4>1. CASE Test(t)
        <5>1. step'[t] = "value"
          BY <4>1 DEF Test, Goes, TypeOK
        <5> QED
          BY <5>1 DEF ThreadInRows
      <4>2. CASE Load(t)
        <5>1. step[t] = "load" /\ step'[t] = "store" /\ reg'[t] = values[pos[t]]
          BY <4>2 DEF Load, Goes, TypeOK
        <5>2. Owner(pos[t]) = t
          BY <2>2, <5>1 DEF ThreadInRows
        <5>3. Owner(pos[t])' = t
          BY <2>3, <2>7, <5>2
        <5> QED
          BY <2>7, <5>1, <5>3 DEF ThreadInRows
      <4>3. CASE Decide(t) /\ Goes(t, "load")
        <5>1. step[t] = "value" /\ step'[t] = "load"
          BY <4>3 DEF Decide, Goes, TypeOK
        <5>2. Owner(pos[t]) = t
          <6>1. Value(t) % threads_num = t
            BY <2>5, <4>3, <5>1, <2>1, GoesOnInRows DEF Decide
          <6> QED
            BY <2>1, <5>1, <6>1, DecidesRight
        <5>3. Owner(pos[t])' = t
          BY <2>3, <2>7, <5>2
        <5> QED
          BY <5>1, <5>3 DEF ThreadInRows
      <4>4. CASE GoesOn(t)
        <5>1. step'[t] \in {"test", "done"} /\ (step'[t] = "done" => pos'[t][2] >= height)
          BY <2>1, <2>5, <4>4, GoesOnInRows
        <5> QED
          BY <2>1, <5>1 DEF ThreadInRows
      <4> QED
        BY <1>2, <2>1, <4>1, <4>2, <4>3, <4>4
           DEF start_routine_numbers, start_routine_block, Decide, Store
    <3>2. ASSUME NEW u \in Threads \ {t} PROVE ThreadInRows(u)'
      <4>1. Owner(pos[u])' = Owner(pos[u])
        BY <2>3, <2>7
      <4> QED
        BY <2>1, <2>2, <2>4, <2>7, <4>1 DEF ThreadInRows
    <3>3. ASSUME NEW p \in Pixels PROVE OwnedRight(p)'
      <4>1. values'[p] = values[p] /\ original' = original /\ pos'[Owner(p)'] = pos[Owner(p)]
        BY <2>1, <2>3, <2>7 DEF given
      <4> QED
        BY <2>2, <4>1 DEF OwnedRight, RowsBefore
    <3> QED
      BY <2>1, <3>1, <3>2, <3>3
  <2>8. CASE Decide(t) /\ GoesOn(t)
    <3>1. /\ step[t] = "value" /\ values' = values
          /\ step'[t] \in {"test", "done"} /\ (step'[t] = "done" => pos'[t][2] >= height)
          /\ \A p \in Pixels : RowsBefore(p, pos'[t]) <=> RowsBefore(p, pos[t]) \/ p = pos[t]
      BY <2>1, <2>5, <2>8, GoesOnInRows DEF Decide
    <3>2. Owner(pos[t]) # t
      <4>1. Value(t) % threads_num # t
        BY <2>8, <3>1 DEF Decide, Goes, TypeOK
      <4> QED
        BY <2>1, <3>1, <4>1, DecidesRight
    <3>3. ThreadInRows(t)'
      BY <2>1, <3>1 DEF ThreadInRows
    <3>4. ASSUME NEW u \in Threads \ {t} PROVE ThreadInRows(u)'
      <4>1. Owner(pos[u])' = Owner(pos[u])
        BY <2>3, <2>4
      <4> QED
        BY <2>1, <2>2, <2>4, <3>1, <4>1 DEF ThreadInRows
    <3>5. ASSUME NEW p \in Pixels PROVE OwnedRight(p)'
      <4>1. values'[p] = values[p] /\ original' = original /\ Owner(p)' = Owner(p)
        BY <2>1, <2>3, <3>1 DEF given
      <4>2. RowsBefore(p, pos'[Owner(p)]) <=> RowsBefore(p, pos[Owner(p)])
        <5>1. CASE Owner(p) = t
          BY <3>1, <3>2, <5>1
        <5>2. CASE Owner(p) # t
          BY <2>4, <2>6, <5>2
        <5> QED
          BY <5>1, <5>2
      <4>3. RowsBefore(p, pos[Owner(p)])' <=> RowsBefore(p, pos'[Owner(p)])
        BY <4>1 DEF RowsBefore
      <4> QED
        BY <2>2, <4>1, <4>2, <4>3 DEF OwnedRight
    <3> QED
      BY <2>1, <3>3, <3>4, <3>5
  <2>9. CASE Store(t)
    <3>1. /\ step[t] = "store" /\ GoesOn(t) /\ Owner(pos[t]) = t /\ reg[t] = values[pos[t]]
          /\ reg' = reg
          /\ values' = [values EXCEPT ![pos[t]] = MaxPixel - values[pos[t]]]
      BY <2>2, <2>9 DEF Store, ThreadInRows
    <3>2. /\ step'[t] \in {"test", "done"} /\ (step'[t] = "done" => pos'[t][2] >= height)
          /\ \A p \in Pixels : RowsBefore(p, pos'[t]) <=> RowsBefore(p, pos[t]) \/ p = pos[t]
      BY <2>1, <2>5, <3>1, GoesOnInRows
    <3>3. ThreadInRows(t)'
      BY <2>1, <3>2 DEF ThreadInRows
    <3>4. ASSUME NEW u \in Threads \ {t} PROVE ThreadInRows(u)'
      <4>1. Owner(pos[u])' = Owner(pos[u])
        BY <2>3, <2>4
      <4>2. step[u] = "store" => pos[u] \in Pixels /\ pos[u] # pos[t]
        BY <2>2, <3>1 DEF ThreadInRows, TypeOK
      <4>3. step[u] = "store" => values'[pos[u]] = values[pos[u]]
        BY <3>1, <4>2 DEF TypeOK
      <4> QED
        BY <2>1, <2>2, <2>4, <4>1, <4>3 DEF ThreadInRows
    <3>5. ASSUME NEW p \in Pixels PROVE OwnedRight(p)'
      <4>1. original' = original /\ Owner(p)' = Owner(p)
        BY <2>1, <2>3 DEF given
      <4>2. RowsBefore(p, pos[Owner(p)])' <=> RowsBefore(p, pos'[Owner(p)])
        BY <4>1 DEF RowsBefore
      <4>3. CASE p = pos[t]
        <5>1. ~RowsBefore(p, pos[t])
          BY <2>5, <4>3 DEF RowsBefore, Pixels
        <5>2. values[p] = original[p]
          BY <2>2, <3>1, <4>3, <5>1 DEF OwnedRight
        <5>3. values'[p] = MaxPixel - original[p]
          BY <3>1, <4>3, <5>2 DEF TypeOK
        <5>4. RowsBefore(p, pos'[Owner(p)])
          BY <3>1, <3>2, <4>3
        <5> QED
          BY <4>1, <4>2, <5>3, <5>4 DEF OwnedRight
      <4>4. CASE p # pos[t]
        <5>1. values'[p] = values[p]
          BY <3>1, <4>4 DEF TypeOK
        <5>2. RowsBefore(p, pos'[Owner(p)]) <=> RowsBefore(p, pos[Owner(p)])
          <6>1. CASE Owner(p) = t
            BY <3>2, <4>4, <6>1
          <6>2. CASE Owner(p) # t
            BY <2>4, <2>6, <6>2
          <6> QED
            BY <6>1, <6>2
        <5> QED
          BY <2>2, <4>1, <4>2, <5>1, <5>2 DEF OwnedRight
      <4> QED
        BY <4>3, <4>4
    <3> QED
      BY <2>1, <3>3, <3>4, <3>5
  <2>10. Test(t) \/ Load(t) \/ (Decide(t) /\ Goes(t, "load")) => values' = values /\ pos' = pos
    BY DEF Test, Load, Decide, Goes
  <2>11. Decide(t) => Goes(t, "load") \/ GoesOn(t)
    BY DEF Decide
  <2> QED
    BY <1>2, <2>1, <2>7, <2>8, <2>9, <2>10, <2>11 DEF start_routine_numbers, start_routine_block
<1> QED
  BY <1>1, <1>2 DEF Next

\* At the end every thread has passed all its pixels, and each pixel is some thread's.
LEMMA NumbersEnd == TypeOK /\ NumbersInv /\ threads_mode = "numbers" /\ Joined => Negated
<1> SUFFICES ASSUME TypeOK, NumbersInv, threads_mode = "numbers", Joined
             PROVE  Negated
  OBVIOUS
<1>1. ASSUME NEW p \in Pixels PROVE values[p] = MaxPixel - original[p]
  <2>1. Owner(p) \in Threads /\ pos[Owner(p)] \in Nat \X Nat
    BY OwnerIsThread DEF TypeOK
  <2>2. pos[Owner(p)][2] >= height
    BY <2>1 DEF NumbersInv, ThreadInRows, Joined
  <2>3. height \in Nat /\ p[2] \in 0 .. height - 1
    BY Sized DEF Pixels
  <2>4. RowsBefore(p, pos[Owner(p)])
    BY <2>1, <2>2, <2>3 DEF RowsBefore
  <2> QED
    BY <2>4 DEF NumbersInv, OwnedRight
<1> QED
  BY <1>1 DEF Negated, TypeOK

\* In either mode, for every image and every number of threads, the saved image is the
\* negative, unless a thread is overtaken between its two reads of a pixel.
THEOREM NegatedRight == Spec => NegatedOnce
<1> DEFINE BothModes == TypeOK /\ BlockInv /\ NumbersInv
<1>1. Init => BothModes
  BY InitTyped, InitBlocks, InitNumbers
<1>2. BothModes /\ ~Overtaken /\ [Next]_vars => BothModes'
  BY NextKeepsTypes, NextKeepsBlocks, NextKeepsNumbers
<1>3. BothModes => (Joined => Negated)
  BY BlocksEnd, NumbersEnd DEF BlocksNegated, TypeOK
<1> HIDE DEF BothModes
<1> QED
  BY <1>1, <1>2, <1>3, PTL DEF Spec, NegatedOnce

-----------------------------------------------------------------------------
(* The mains of cw07: what is known of the run before when a main begins.     *)

\* main checks both numbers: strtol(...) <= 0 ends it.
Numbers == cook_number \in Nat \ {0} /\ deliverer_number \in Nat \ {0}

\* The first n pids are recorded, the others are 0.
Recorded(n) ==
  /\ n \in 0 .. cook_number + deliverer_number
  /\ pids = [w \in M!Workers |-> IF w <= n THEN w ELSE 0]

\* Where main is, the arrays it has and the pids it knows go together.
Progress ==
  /\ main \in M!Running \union {"exits", "removes", "ended"}
  /\ pids \in [M!Workers -> M!Group \union {-1}]
  /\ main = "begins" => arrays = 0 /\ Recorded(0)
  /\ main = "callocs" => (arrays = 0 /\ Recorded(0)) \/ (arrays = 1 /\ Recorded(cook_number))
  /\ main \in {"forks", "records"} => \E n \in 0 .. cook_number + deliverer_number - 1 :
       /\ Recorded(n)
       /\ arrays = IF n < cook_number THEN 1 ELSE 2
  /\ main = "waits" => arrays = 2 /\ Recorded(cook_number + deliverer_number)

\* A main that begins has no children, and only a child that is not a worker yet, or
\* a main that has not ended, has a SIGINT to handle.
Children ==
  /\ child \in [M!Workers -> {"unborn", "forked", "starts", "works", "leaves", "dead"}]
  /\ main = "begins" => \A w \in M!Workers : child[w] = "unborn"
  /\ told \subseteq M!Group
  /\ \A w \in told \ {M!Main} : child[w] = "forked"
  /\ main = "ended" => M!Main \notin told

\* As long as nothing has gone wrong: a SIGINT comes when all children are workers, main
\* comes to handle_exit with all pids, and it ends when it has removed the semaphores.
Orderly == accidents = {} =>
  /\ told \subseteq {M!Main}
  /\ M!Main \in told => main = "waits" /\ \A w \in M!Workers : child[w] # "forked"
  /\ main \in {"exits", "removes"} =>
       /\ arrays = 2 /\ Recorded(cook_number + deliverer_number)
       /\ \A w \in M!Workers : child[w] # "forked"
  /\ main \in {"begins", "ended"} => sems = "none"

MainInv == Progress /\ Children /\ Orderly

\* The first main begins with nothing.
LEMMA MainInit == ASSUME Numbers, M!Init PROVE MainInv
BY DEF Numbers, M!Init, MainInv, Progress, Children, Orderly, Recorded, M!Running, M!Workers,
       M!Group, M!Main

\* The next worker is the one after those recorded.
LEMMA NextAfter ==
  ASSUME Numbers, NEW n \in 0 .. cook_number + deliverer_number - 1, Recorded(n)
  PROVE  M!NextChild = n + 1 /\ n + 1 \in M!Workers
<1> DEFINE First(w) == pids[w] = 0 /\ \A v \in 1 .. w - 1 : pids[v] # 0
<1>1. n + 1 \in M!Workers /\ M!Workers = 1 .. cook_number + deliverer_number
  BY DEF Numbers, M!Workers
<1>2. First(n + 1)
  BY <1>1 DEF Recorded, Numbers
<1>3. ASSUME NEW w \in M!Workers, First(w) PROVE w = n + 1
  <2>1. pids[w] = IF w <= n THEN w ELSE 0
    BY DEF Recorded
  <2>2. w > n
    BY <1>1, <1>3, <2>1
  <2>3. w > n + 1 => pids[n + 1] # 0
    BY <1>1, <1>3, <2>2
  <2> QED
    BY <1>1, <1>2, <2>2, <2>3
<1> QED
  <2> HIDE DEF First
  <2>1. \A w \in M!Workers : First(w) <=> w = n + 1
    BY <1>1, <1>2, <1>3
  <2>2. (CHOOSE w \in M!Workers : First(w)) = n + 1
    BY <1>1, <2>1
  <2> QED
    BY <1>1, <2>2 DEF First, M!NextChild

\* Every step of main, of its children and of the user keeps the invariant.
LEMMA MainNext == ASSUME Numbers, MainInv, [M!Next]_(M!vars) PROVE MainInv'
<1> USE DEF M!Main, M!Group, M!Workers, M!fixed, M!Running, M!Accident, M!At, Recorded, Numbers
<1>1. ASSUME UNCHANGED M!vars PROVE MainInv'
  BY <1>1 DEF M!vars, MainInv, Progress, Children, Orderly
<1>2. ASSUME M!Open PROVE MainInv'
  BY <1>2 DEF M!Open, MainInv, Progress, Children, Orderly
<1>3. ASSUME M!Calloc PROVE MainInv'
  BY <1>3, SMTT(60) DEF M!Calloc, MainInv, Progress, Children, Orderly
<1>4. ASSUME M!Fork PROVE MainInv'
  <2>1. M!NextChild \in M!Workers
    BY <1>4, NextAfter DEF M!Fork, MainInv, Progress
  <2> QED
    BY <1>4, <2>1 DEF M!Fork, MainInv, Progress, Children, Orderly
<1>5. ASSUME M!Record PROVE MainInv'
  <2>1. PICK n \in 0 .. cook_number + deliverer_number - 1 :
          Recorded(n) /\ arrays = IF n < cook_number THEN 1 ELSE 2
    BY <1>5 DEF M!Record, MainInv, Progress
  <2>2. M!NextChild = n + 1 /\ n + 1 \in M!Workers
    BY <2>1, NextAfter
  <2>3. pids' = [w \in M!Workers |-> IF w <= n + 1 THEN w ELSE 0]
    BY <1>5, <2>1, <2>2 DEF M!Record
  <2>4. main' = IF n + 1 = cook_number THEN "callocs"
                ELSE IF n + 1 = cook_number + deliverer_number THEN "waits" ELSE "forks"
    BY <1>5, <2>2 DEF M!Record
  <2>5. n + 1 \in 0 .. cook_number + deliverer_number /\ arrays' = arrays
    BY <1>5 DEF M!Record
  <2>6. Progress'
    <3>1. Recorded(n + 1)'
      BY <2>3, <2>5
    <3>2. CASE n + 1 = cook_number
      BY <2>1, <2>4, <2>5, <3>1, <3>2 DEF Progress
    <3>3. CASE n + 1 = cook_number + deliverer_number
      BY <2>1, <2>4, <2>5, <3>1, <3>3 DEF Progress
    <3>4. CASE n + 1 # cook_number /\ n + 1 # cook_number + deliverer_number
      <4>1. main' = "forks" /\ n + 1 \in 0 .. cook_number + deliverer_number - 1
        BY <2>4, <2>5, <3>4
      <4>2. arrays' = IF n + 1 < cook_number THEN 1 ELSE 2
        BY <2>1, <2>5, <3>4
      <4> QED
        BY <3>1, <4>1, <4>2 DEF Progress
    <3> QED
      BY <3>2, <3>3, <3>4
  <2> QED
    BY <1>5, <2>6 DEF M!Record, MainInv, Children, Orderly
<1>6. ASSUME M!Wait PROVE MainInv'
  BY <1>6 DEF M!Wait, MainInv, Progress, Children, Orderly
<1>7. ASSUME M!HandlesSigint PROVE MainInv'
  BY <1>7 DEF M!HandlesSigint, MainInv, Progress, Children, Orderly
<1>8. ASSUME M!Kills PROVE MainInv'
  <2> DEFINE EndsIn(set) == 0 \in set /\ handles # "SIGINT"
             cooks == IF arrays = 0 THEN {} ELSE M!CookPids
             deliverers == IF arrays < 2 \/ EndsIn(cooks) THEN {} ELSE M!DelivererPids
             hit == M!Hit(cooks \union deliverers)
  <2>1. /\ main = "exits" /\ M!Main \notin told
        /\ told' = (told \union {p \in hit : M!HasHandler(p)}) \ {M!Main}
        /\ child' = [w \in M!Workers |->
             IF w \in hit /\ child[w] \in {"starts", "works"} THEN "dead" ELSE child[w]]
        /\ main' \in {"removes", "ended"}
        /\ ~EndsIn(cooks \union deliverers) /\ arrays = 2 => main' = "removes"
        /\ UNCHANGED <<arrays, pids, accidents>>
    BY <1>8 DEF M!Kills, M!Kill, M!Told, M!Ended
  <2>2. hit \subseteq M!Group
    <3>1. cooks \union deliverers \subseteq M!Group \union {-1}
      <4>1. \A w \in M!Workers : pids[w] \in M!Group \union {-1}
        BY DEF MainInv, Progress
      <4> QED
        BY <4>1 DEF M!CookPids, M!DelivererPids, M!Cooks
    <3> HIDE DEF cooks, deliverers
    <3> QED
      BY <3>1 DEF M!Hit
  <2>3. \A p \in hit \ {M!Main} : M!HasHandler(p) => p \in M!Workers /\ child[p] = "forked"
    BY <2>2 DEF M!HasHandler
  <2> HIDE DEF hit
  <2>4. Progress'
    BY <2>1 DEF MainInv, Progress
  <2>5. Children'
    BY <2>1, <2>2, <2>3 DEF MainInv, Children
  <2>6. ASSUME accidents = {}
        PROVE  main' = "removes" /\ told' = {} /\ \A w \in M!Workers : child'[w] # "forked"
    <3>1. arrays = 2 /\ \A w \in M!Workers : pids[w] = w /\ child[w] # "forked"
      BY <2>1, <2>6 DEF MainInv, Orderly
    <3>2. ~EndsIn(cooks \union deliverers)
      BY <3>1 DEF M!CookPids, M!DelivererPids, M!Cooks
    <3> QED
      BY <2>1, <2>3, <2>6, <3>1, <3>2 DEF MainInv, Orderly
  <2>7. Orderly'
    BY <2>1, <2>6 DEF MainInv, Orderly
  <2> QED
    BY <2>4, <2>5, <2>7 DEF MainInv
<1>9. ASSUME M!Removes PROVE MainInv'
  BY <1>9 DEF M!Removes, MainInv, Progress, Children, Orderly
<1>10. ASSUME M!HandlesSignal PROVE MainInv'
  BY <1>10 DEF M!HandlesSignal, M!InTime, MainInv, Progress, Children, Orderly
<1>11. ASSUME M!CtrlC PROVE MainInv'
  BY <1>11 DEF M!CtrlC, M!InTime, M!Told, M!Ended, M!HasHandler,
               MainInv, Progress, Children, Orderly
<1>12. ASSUME M!CutShort PROVE MainInv'
  BY <1>12 DEF M!CutShort, MainInv, Progress, Children, Orderly
<1>13. ASSUME M!ForkFails PROVE MainInv'
  BY <1>13 DEF M!ForkFails, MainInv, Progress, Children, Orderly
<1>14. ASSUME M!Again PROVE MainInv'
  BY <1>14, SMTT(60) DEF M!Again, M!Alive, MainInv, Progress, Children, Orderly
<1>15. ASSUME NEW w \in M!Workers, M!Exec(w) \/ M!ChildRemoves(w) \/ M!Attach(w) \/ M!HangsUp(w)
       PROVE  MainInv'
  <2>1. Progress'
    BY <1>15 DEF M!Exec, M!ChildRemoves, M!Attach, M!HangsUp, M!Becomes, MainInv, Progress
  <2>2. Children'
    BY <1>15 DEF M!Exec, M!ChildRemoves, M!Attach, M!HangsUp, M!Becomes, MainInv, Children
  <2>3. Orderly'
    BY <1>15 DEF M!Exec, M!ChildRemoves, M!Attach, M!HangsUp, M!Becomes, MainInv, Orderly, Children
  <2> QED
    BY <2>1, <2>2, <2>3 DEF MainInv
<1>16. ASSUME NEW w \in M!Workers, M!Work(w) PROVE MainInv'
  BY <1>16 DEF M!Work, M!Becomes, MainInv, Progress, Children, Orderly
<1>17. ASSUME NEW w \in M!Workers, M!ChildHandlesSigint(w) \/ M!ExecFails(w) PROVE MainInv'
  <2>1. Progress'
    BY <1>17 DEF M!ChildHandlesSigint, M!ExecFails, M!ChildExits, M!Told, M!Ended,
               M!HasHandler, MainInv, Progress
  <2>2. Children'
    BY <1>17 DEF M!ChildHandlesSigint, M!ExecFails, M!ChildExits, M!Told, M!Ended,
               M!HasHandler, MainInv, Children
  <2>3. Orderly'
    BY <1>17 DEF M!ChildHandlesSigint, M!ExecFails, M!ChildExits, M!Told, M!Ended,
               M!HasHandler, MainInv, Orderly, Children
  <2> QED
    BY <2>1, <2>2, <2>3 DEF MainInv
<1> QED
  BY <1>1, <1>2, <1>3, <1>4, <1>5, <1>6, <1>7, <1>8, <1>9, <1>10, <1>11, <1>12, <1>13, <1>14,
     <1>15, <1>16, <1>17 DEF M!Next, M!MainStep, M!FromOutside, M!ChildStep

\* A main begins with semaphores set, in zad1 after any accidents (SETVAL), in zad2 unless
\* something went wrong in the run before (sem_open keeps what it finds).
LEMMA FreshInMain ==
  ASSUME Numbers
  PROVE  M!Spec => M!StartsFresh
<1> DEFINE Fresh == main = "begins" /\ main' = "callocs" /\ (pizzeria = "zad1" \/ accidents = {})
                    => sems' = "set"
<1>1. M!Init => MainInv
  BY MainInit
<1>2. MainInv /\ [M!Next]_(M!vars) => MainInv'
  BY MainNext
<1>3. MainInv /\ [M!Next]_(M!vars) => [Fresh]_(M!vars)
  <2> SUFFICES ASSUME MainInv, M!Next, main = "begins", main' = "callocs",
                      pizzeria = "zad1" \/ accidents = {}
               PROVE  sems' = "set"
    OBVIOUS
  <2>1. M!Open
    BY DEF M!Next, M!MainStep, M!FromOutside, M!ChildStep, M!Calloc, M!Fork, M!Record, M!Wait,
           M!HandlesSigint, M!Kills, M!Removes, M!HandlesSignal, M!CtrlC, M!CutShort, M!ForkFails,
           M!Again, M!Exec, M!ChildHandlesSigint, M!ChildRemoves, M!Attach, M!ExecFails, M!Work,
           M!HangsUp, M!At
  <2> QED
    BY <2>1 DEF M!Open, MainInv, Orderly
<1> QED
  BY <1>1, <1>2, <1>3, PTL DEF M!Spec, M!StartsFresh

\* A main of cw07 begins with semaphores as it sets them, whatever became of the run before
\* in zad1, and if nothing went wrong in it in zad2: alone and beside the small programs.
THEOREM FreshStart ==
  ASSUME Numbers
  PROVE  (M!Spec => M!StartsFresh) /\ (SpecOfOne => StartsFresh)
<1>1. InitOfOne => M!Init
  BY DEF InitOfOne, MainIdle
<1>2. [NextOfOne]_all => [M!Next]_(M!vars)
  BY DEF NextOfOne, InSignals, InPipeline, InFifo, InMain, InNegative, all, mains,
         M!vars, M!fixed
<1>3. SpecOfOne => M!Spec
  BY <1>1, <1>2, PTL DEF SpecOfOne, M!Spec
<1> QED
  BY <1>3, FreshInMain DEF StartsFresh

-----------------------------------------------------------------------------
(* The senders and catchers of cw04: what each signal that was sent has       *)
(* become.                                                                    *)

Steps ==
  {"sends", "waits", "suspended", "count", "report", "confirms", "installs"}
Frame == [at : Steps, mask : SUBSET S!Sigs]

SignalsTyped ==
  /\ zad \in {"zad3a", "zad3b"}
  /\ S!ToSend \in Nat
  /\ frames \in [S!Processes -> Seq(Frame)]
  /\ handled \in [S!Processes -> SUBSET S!Sigs] /\ handled["sender"] = S!Sigs
  /\ pending \in [S!Processes -> [S!Sigs -> Nat]]
  /\ recieved \in [S!Processes -> Nat]
  /\ sent \in Nat
  /\ sent_back \in Nat

Stands(p, steps) == frames[p] # <<>> /\ S!Top(p).at \in steps
Quiet(p) == \A s \in S!Sigs : pending[p][s] = 0
Only(p, s) == \A t \in S!Sigs : pending[p][t] = IF t = s THEN 1 ELSE 0

\* The last signal the sender has sent, and how many sig1 before it and with it.
LastSig == IF sent <= S!ToSend THEN S!sig1 ELSE S!sig2
Prior == IF sent <= S!ToSend THEN sent - 1 ELSE S!ToSend
Now == IF sent <= S!ToSend THEN sent ELSE S!ToSend
HandlerStep == IF LastSig = S!sig1 THEN "count" ELSE "report"

\* In zad3b one thing is under way at a time: the sender's turn, a signal, its handler, the
\* confirmation, and its handler; or nothing any more, when a process has ended, or when the
\* catcher or a confirmation was too early.
Main(steps) == Len(frames["sender"]) = 1 /\ frames["sender"][1].at \in steps
Handling(place) ==
  /\ Len(frames["sender"]) = 2
  /\ frames["sender"][1].at \in {"waits", "suspended"} /\ frames["sender"][2].at = place
Idle == frames["catcher"] = <<>> \/ Stands("catcher", {"installs", "waits", "suspended"})
Counted(sender, catcher) == recieved["sender"] = sender /\ recieved["catcher"] = catcher

Turn == Main({"sends"}) /\ Quiet("sender") /\ Quiet("catcher") /\ Idle /\ Counted(Now, Now)
Signalled ==
  Main({"waits", "suspended"}) /\ Quiet("sender") /\ Only("catcher", LastSig) /\ Idle
    /\ Counted(Prior, Prior)
Caught ==
  Main({"waits", "suspended"}) /\ Quiet("sender") /\ Quiet("catcher")
    /\ Stands("catcher", {HandlerStep}) /\ Counted(Prior, Prior)
Confirming ==
  Main({"waits", "suspended"}) /\ Quiet("sender") /\ Quiet("catcher")
    /\ Stands("catcher", {"confirms"}) /\ LastSig = S!sig1 /\ Counted(Prior, Now)
Confirmed ==
  Main({"waits", "suspended"}) /\ Only("sender", LastSig) /\ Quiet("catcher") /\ Idle
    /\ Counted(Prior, Now)
Heard ==
  Handling(HandlerStep) /\ Quiet("sender") /\ Quiet("catcher") /\ Idle /\ Counted(Prior, Now)
Silent == Main({"waits", "suspended"}) /\ Quiet("sender") /\ Quiet("catcher") /\ Idle
Over == S!Ended("sender") /\ Quiet("sender") /\ Quiet("catcher") /\ Idle
        /\ Counted(S!ToSend, S!ToSend)

Exchange ==
  /\ sent <= S!ToSend + 1 /\ (sent = 0 => Turn)
  /\ Turn \/ Signalled \/ Caught \/ Confirming \/ Confirmed \/ Heard \/ Silent \/ Over

\* In zad3a a counting handler is the top frame or just below the last report, which keeps
\* its signal blocked; so what was counted, is being counted, and pends, was sent.
Holds(p) == \E i \in 1 .. Len(frames[p]) : frames[p][i].at = "count"
Frames(p) ==
  /\ \A i \in 1 .. Len(frames[p]) : frames[p][i].at = "count" =>
       /\ S!sig1 \in S!Top(p).mask
       /\ i = Len(frames[p]) \/ (i = Len(frames[p]) - 1 /\ S!Top(p).at = "report")
  /\ frames[p] # <<>> /\ S!Top(p).at = "report" => S!sig2 \in S!Top(p).mask
Gets(p) == recieved[p] + (IF Holds(p) THEN 1 ELSE 0) + pending[p][S!sig1]
AsSent ==
  /\ \A p \in S!Processes : Frames(p)
  /\ Gets("catcher") <= IF sent <= S!ToSend THEN sent ELSE S!ToSend
  /\ Gets("sender") <= sent_back
  /\ sent_back <= recieved["catcher"]

SignalsInv ==
  /\ SignalsTyped
  /\ zad = "zad3b" => Exchange
  /\ zad = "zad3a" => AsSent

\* A process goes on in its top frame, and the others stay as they are ...
LEMMA GoesEffect ==
  ASSUME SignalsTyped, NEW p \in S!Processes, NEW place \in Steps, frames[p] # <<>>,
         S!Goes(p, place)
  PROVE  /\ frames' \in [S!Processes -> Seq(Frame)]
         /\ Len(frames'[p]) = Len(frames[p]) /\ Len(frames[p]) \in Nat \ {0}
         /\ \A i \in 1 .. Len(frames[p]) - 1 : frames'[p][i] = frames[p][i]
         /\ frames'[p][Len(frames[p])].at = place
         /\ frames'[p][Len(frames[p])].mask = frames[p][Len(frames[p])].mask
         /\ \A q \in S!Processes \ {p} : frames'[q] = frames[q]
<1> DEFINE n == Len(frames[p])
           top == [frames[p][n] EXCEPT !.at = place]
           now == [frames[p] EXCEPT ![n] = top]
<1>1. frames[p] \in Seq(Frame) /\ n \in Nat \ {0} /\ frames[p][n] \in Frame
  BY DEF SignalsTyped
<1>2. top \in Frame /\ top.at = place /\ top.mask = frames[p][n].mask
  BY <1>1 DEF Frame
<1>3. frames' = [frames EXCEPT ![p] = now]
  BY DEF S!Goes
<1> HIDE DEF top
<1>4. /\ now \in Seq(Frame) /\ Len(now) = n /\ now[n] = top
      /\ \A i \in 1 .. n - 1 : now[i] = frames[p][i]
  BY <1>1, <1>2
<1> HIDE DEF now
<1> QED
  BY <1>1, <1>2, <1>3, <1>4 DEF SignalsTyped

\* ... a handler is a new frame ...
LEMMA AppendEffect ==
  ASSUME NEW s \in Seq(Frame), NEW f \in Frame
  PROVE  /\ Append(s, f) \in Seq(Frame) /\ Len(Append(s, f)) = Len(s) + 1 /\ Len(s) \in Nat
         /\ \A i \in 1 .. Len(s) : Append(s, f)[i] = s[i]
         /\ Append(s, f)[Len(s) + 1] = f
OBVIOUS

\* ... and the end of one takes it off: the frame below goes on past a sigsuspend.
LEMMA ReturnsEffect ==
  ASSUME SignalsTyped, NEW p \in S!Processes, Len(frames[p]) = 2, S!Returns(p)
  PROVE  /\ frames' \in [S!Processes -> Seq(Frame)]
         /\ Len(frames'[p]) = 1
         /\ frames'[p][1].at = IF frames[p][1].at = "suspended" THEN "sends" ELSE frames[p][1].at
         /\ \A q \in S!Processes \ {p} : frames'[q] = frames[q]
<1> DEFINE below == S!Front(frames[p])
           resumed == [below[1] EXCEPT !.at = "sends"]
           now == IF below[1].at = "suspended" THEN [below EXCEPT ![1] = resumed] ELSE below
<1>1. below \in Seq(Frame) /\ Len(below) = 1 /\ below[1] = frames[p][1] /\ below[1] \in Frame
  <2>1. frames[p] \in Seq(Frame)
    BY DEF SignalsTyped
  <2>2. \A s \in Seq(Frame) : Len(s) = 2 =>
          SubSeq(s, 1, 1) \in Seq(Frame) /\ Len(SubSeq(s, 1, 1)) = 1 /\ SubSeq(s, 1, 1)[1] = s[1]
    OBVIOUS
  <2> HIDE DEF Frame
  <2> QED
    BY <2>1, <2>2 DEF S!Front
<1>2. S!Last(below) = below[1]
  BY <1>1 DEF S!Last
<1>3. resumed \in Frame /\ resumed.at = "sends"
  BY <1>1 DEF Frame, Steps
<1>4. frames' = [frames EXCEPT ![p] = now]
  BY <1>1, <1>2 DEF S!Returns
<1> HIDE DEF below, resumed
<1>5. now \in Seq(Frame) /\ Len(now) = 1
      /\ now[1].at = IF below[1].at = "suspended" THEN "sends" ELSE below[1].at
  BY <1>1, <1>3, SMTT(60)
<1> HIDE DEF now
<1> QED
  BY <1>1, <1>4, <1>5 DEF SignalsTyped

\* A signal that is sent is pending, unless the process has ended.
LEMMA RaiseEffect ==
  ASSUME SignalsTyped, NEW p \in S!Processes, NEW s \in S!Sigs, S!Raise(p, s)
  PROVE  /\ pending' \in [S!Processes -> [S!Sigs -> Nat]]
         /\ pending'[p][s] <= pending[p][s] + 1
         /\ frames[p] # <<>> /\ pending[p][s] = 0 => pending'[p][s] = 1
         /\ frames[p] = <<>> => pending'[p][s] = pending[p][s]
         /\ \A q \in S!Processes : \A t \in S!Sigs :
              q # p \/ t # s => pending'[q][t] = pending[q][t]
<1> DEFINE n == IF frames[p] = <<>> THEN pending[p][s]
                ELSE IF mode = "sigrt" THEN pending[p][s] + 1 ELSE 1
<1>1. n \in Nat /\ n <= pending[p][s] + 1
      /\ (frames[p] # <<>> /\ pending[p][s] = 0 => n = 1)
      /\ (frames[p] = <<>> => n = pending[p][s])
  BY DEF SignalsTyped
<1>2. pending' = [pending EXCEPT ![p] = [pending[p] EXCEPT ![s] = n]]
  BY DEF S!Raise
<1> HIDE DEF n
<1> QED
  BY <1>1, <1>2 DEF SignalsTyped

\* A signal that is delivered starts its handler, or ends a process that has none.
LEMMA DeliverEffect ==
  ASSUME SignalsTyped, NEW p \in S!Processes, S!Deliver(p)
  PROVE  \E s \in S!Sigs :
           /\ frames[p] # <<>> /\ s \notin S!Blocked(p) /\ pending[p][s] > 0
           /\ pending' \in [S!Processes -> [S!Sigs -> Nat]]
           /\ pending'[p][s] = pending[p][s] - 1
           /\ \A q \in S!Processes : \A t \in S!Sigs :
                q # p \/ t # s => pending'[q][t] = pending[q][t]
           /\ frames' \in [S!Processes -> Seq(Frame)]
           /\ \A q \in S!Processes \ {p} : frames'[q] = frames[q]
           /\ \/ s \notin handled[p] /\ frames'[p] = <<>>
              \/ /\ s \in handled[p]
                 /\ Len(frames'[p]) = Len(frames[p]) + 1 /\ Len(frames[p]) \in Nat \ {0}
                 /\ \A i \in 1 .. Len(frames[p]) : frames'[p][i] = frames[p][i]
                 /\ frames'[p][Len(frames'[p])].at = IF s = S!sig1 THEN "count" ELSE "report"
                 /\ frames'[p][Len(frames'[p])].mask = S!Blocked(p) \union {s}
<1>1. PICK s \in S!Deliverable(p) :
        /\ pending' = [pending EXCEPT ![p] = [pending[p] EXCEPT ![s] = pending[p][s] - 1]]
        /\ IF s \in handled[p]
           THEN frames' = [frames EXCEPT ![p] = Append(frames[p],
                  [at |-> IF s = S!sig1 THEN "count" ELSE "report",
                   mask |-> S!Blocked(p) \union {s}])]
           ELSE frames' = [frames EXCEPT ![p] = <<>>]
  BY DEF S!Deliver, S!Exits
<1>2. s \in S!Sigs /\ s \notin S!Blocked(p) /\ pending[p][s] > 0 /\ frames[p] # <<>>
  BY DEF S!Deliver, S!Deliverable
<1>3. frames[p] \in Seq(Frame) /\ Len(frames[p]) \in Nat \ {0} /\ pending[p][s] - 1 \in Nat
  BY <1>2 DEF SignalsTyped
<1>4. S!Blocked(p) \subseteq S!Sigs
  <2>1. frames[p][Len(frames[p])] \in Frame
    BY <1>3
  <2> QED
    BY <2>1 DEF S!Blocked, S!Top, S!Last, Frame
<1> DEFINE f == [at |-> IF s = S!sig1 THEN "count" ELSE "report", mask |-> S!Blocked(p) \union {s}]
<1>5. /\ f \in Frame /\ f.mask = S!Blocked(p) \union {s}
      /\ f.at = IF s = S!sig1 THEN "count" ELSE "report"
  BY <1>2, <1>4 DEF Frame, Steps
<1>6. /\ pending' \in [S!Processes -> [S!Sigs -> Nat]]
      /\ pending'[p][s] = pending[p][s] - 1
      /\ \A q \in S!Processes : \A t \in S!Sigs : q # p \/ t # s => pending'[q][t] = pending[q][t]
  BY <1>1, <1>2, <1>3 DEF SignalsTyped
<1>7. CASE s \in handled[p]
  <2> DEFINE now == Append(frames[p], f)
  <2>1. frames' = [frames EXCEPT ![p] = now]
    BY <1>1, <1>7
  <2>2. /\ now \in Seq(Frame) /\ Len(now) = Len(frames[p]) + 1
        /\ \A i \in 1 .. Len(frames[p]) : now[i] = frames[p][i]
        /\ now[Len(now)] = f
    <3> HIDE DEF f
    <3> QED
      BY <1>3, <1>5, AppendEffect
  <2> HIDE DEF now, f
  <2> QED
    BY <1>2, <1>3, <1>5, <1>6, <1>7, <2>1, <2>2 DEF SignalsTyped
<1>8. CASE s \notin handled[p]
  <2>1. frames' = [frames EXCEPT ![p] = <<>>] /\ <<>> \in Seq(Frame)
    BY <1>1, <1>8
  <2> QED
    BY <1>2, <1>6, <1>8, <2>1 DEF SignalsTyped
<1> QED
  BY <1>7, <1>8

\* At the start it is the sender's turn.
LEMMA SignalsInit == ASSUME MaxSignals \in Nat, S!Init PROVE SignalsInv
<1> DEFINE f(place) == [at |-> place, mask |-> {}]
<1>1. \A place \in Steps : f(place) \in Frame /\ f(place).at = place
  BY DEF Frame
<1>2. "sends" \in Steps /\ "installs" \in Steps
  BY DEF Steps
<1>3. frames = [sender |-> <<f("sends")>>, catcher |-> <<f("installs")>>]
  BY DEF S!Init
<1> HIDE DEF f, Frame
<1>4. \A x \in Frame : <<x>> \in Seq(Frame) /\ Len(<<x>>) = 1 /\ <<x>>[1] = x /\ <<x>> # <<>>
  OBVIOUS
<1>5. /\ frames["sender"] = <<f("sends")>> /\ frames["catcher"] = <<f("installs")>>
      /\ frames = [p \in S!Processes |-> frames[p]]
  BY <1>3 DEF S!Processes
<1>6. frames \in [S!Processes -> Seq(Frame)]
  <2>1. \A p \in S!Processes : frames[p] \in Seq(Frame)
    BY <1>1, <1>2, <1>4, <1>5, ZenonT(60) DEF S!Processes
  <2> QED
    BY <1>5, <2>1
<1>7. /\ \A p \in S!Processes : Len(frames[p]) = 1 /\ frames[p] # <<>>
      /\ frames["sender"][1].at = "sends" /\ frames["catcher"][1].at = "installs"
  BY <1>1, <1>2, <1>4, <1>5, ZenonT(60) DEF S!Processes
<1>8. SignalsTyped
  <2>1. handled \in [S!Processes -> SUBSET S!Sigs] /\ handled["sender"] = S!Sigs
    BY DEF S!Init, S!Processes
  <2>2. /\ pending \in [S!Processes -> [S!Sigs -> Nat]] /\ recieved \in [S!Processes -> Nat]
        /\ zad \in {"zad3a", "zad3b"} /\ S!ToSend \in Nat /\ sent \in Nat /\ sent_back \in Nat
    BY DEF S!Init, S!ToSend
  <2> QED
    BY <1>6, <2>1, <2>2 DEF SignalsTyped
<1>9. Exchange
  <2>1. Turn
    BY <1>7, <1>8 DEF S!Init, Turn, Main, Quiet, Idle, Stands, S!Top, S!Last, Counted, Now,
      SignalsTyped, S!Processes
  <2> QED
    BY <2>1, <1>8 DEF Exchange, S!Init, SignalsTyped
<1>10. AsSent
  <2>1. \A p \in S!Processes : ~Holds(p) /\ Frames(p)
    BY <1>7 DEF Frames, Holds, S!Top, S!Last, S!Processes
  <2> QED
    BY <1>8, <2>1 DEF AsSent, Gets, S!Init, SignalsTyped, S!Processes, S!Sigs, S!sig1
<1> QED
  BY <1>8, <1>9, <1>10 DEF SignalsInv

\* A frame that is at no handler's first step lets go of its count.
LEMMA FramesGo ==
  ASSUME SignalsTyped, NEW p \in S!Processes, NEW place \in Steps, frames[p] # <<>>,
         S!Goes(p, place),
         Frames(p), S!Top(p).at # "report", place \notin {"count", "report"}
  PROVE  Frames(p)' /\ ~Holds(p)' /\ (S!Top(p).at = "count" => Holds(p))
<1> DEFINE n == Len(frames[p])
<1>1. /\ Len(frames'[p]) = n /\ n \in Nat \ {0}
      /\ \A i \in 1 .. n - 1 : frames'[p][i] = frames[p][i]
      /\ frames'[p][n].at = place
  BY GoesEffect
<1>2. \A i \in 1 .. n - 1 : frames[p][i].at # "count"
  BY <1>1 DEF Frames
<1>3. \A i \in 1 .. n : frames'[p][i].at # "count"
  BY <1>1, <1>2
<1> QED
  BY <1>1, <1>3 DEF Frames, Holds, S!Top, S!Last

\* What a process does changes no frame of the other ...
LEMMA OthersStay ==
  ASSUME NEW q \in S!Processes, frames'[q] = frames[q], Frames(q)
  PROVE  Frames(q)' /\ (Holds(q)' <=> Holds(q))
BY DEF Frames, Holds, S!Top, S!Last

\* ... and the sum is a number ...
LEMMA GetsTyped ==
  ASSUME SignalsTyped, NEW q \in S!Processes
  PROVE  Gets(q) \in Nat /\ recieved[q] \in Nat /\ pending[q][S!sig1] \in Nat
BY DEF Gets, SignalsTyped, S!Sigs, S!sig1

\* ... that does not grow when no handler starts.
LEMMA NothingCounted ==
  ASSUME SignalsTyped, SignalsTyped', AsSent,
         \A q \in S!Processes : Frames(q)' /\ (Holds(q)' => Holds(q)),
         UNCHANGED <<S!ToSend, pending, recieved, sent, sent_back>>
  PROVE  AsSent'
<1>1. ASSUME NEW q \in S!Processes PROVE Gets(q)' <= Gets(q) /\ Gets(q)' \in Nat /\ Gets(q) \in Nat
  <2>1. recieved[q] \in Nat /\ pending[q][S!sig1] \in Nat
    BY GetsTyped
  <2>2. recieved'[q] = recieved[q] /\ pending'[q][S!sig1] = pending[q][S!sig1]
    OBVIOUS
  <2>3. CASE Holds(q)
    BY <2>1, <2>2, <2>3 DEF Gets
  <2>4. CASE ~Holds(q)
    BY <2>1, <2>2, <2>4 DEF Gets
  <2> QED
    BY <2>3, <2>4
<1>2. sent \in Nat /\ S!ToSend \in Nat /\ sent_back \in Nat
  BY DEF SignalsTyped
<1> QED
  BY <1>1, <1>2 DEF AsSent, S!Processes

\* The sigsuspend of main and of most handlers.
LEMMA Suspends ==
  ASSUME SignalsInv, NEW p \in S!Processes, S!Suspend(p)
  PROVE  SignalsInv'
<1>1. /\ SignalsTyped /\ frames[p] # <<>> /\ S!Goes(p, "suspended") /\ S!Top(p).at = "waits"
      /\ UNCHANGED <<zad, S!ToSend, handled, pending, recieved, sent, sent_back>>
  BY DEF SignalsInv, S!Suspend, S!Runs, S!given, S!ToSend
<1>2. "suspended" \in Steps
  BY DEF Steps
<1>3. /\ frames' \in [S!Processes -> Seq(Frame)]
      /\ Len(frames'[p]) = Len(frames[p]) /\ Len(frames[p]) \in Nat \ {0}
      /\ \A i \in 1 .. Len(frames[p]) - 1 : frames'[p][i] = frames[p][i]
      /\ frames'[p][Len(frames[p])].at = "suspended"
      /\ \A q \in S!Processes \ {p} : frames'[q] = frames[q]
  BY <1>1, <1>2, GoesEffect
<1>4. SignalsTyped'
  BY <1>1, <1>3 DEF SignalsTyped
<1>5. ASSUME zad = "zad3b" PROVE Exchange'
  <2>1. Exchange
    BY <1>5 DEF SignalsInv
  <2>2. /\ LastSig' = LastSig /\ Prior' = Prior /\ Now' = Now
        /\ \A q \in S!Processes : \A s : Quiet(q)' = Quiet(q) /\ Only(q, s)' = Only(q, s)
        /\ \A m, n : Counted(m, n)' = Counted(m, n)
    BY <1>1 DEF LastSig, Prior, Now, Quiet, Only, Counted
  <2>3. CASE p = "sender"
    <3>1. Main({"waits", "suspended"})
      BY <1>1, <2>1, <2>3
        DEF Exchange, Turn, Signalled, Caught, Confirming, Confirmed, Heard, Silent,
        Over, Main, Handling, HandlerStep, S!Top, S!Last, S!Ended
    <3>2. Main({"waits", "suspended"})' /\ frames'["catcher"] = frames["catcher"]
      BY <1>3, <2>3, <3>1 DEF Main, S!Processes
    <3> QED
      BY <1>1, <2>1, <2>2, <3>1, <3>2
        DEF Exchange, Turn, Signalled, Caught, Confirming, Confirmed, Heard, Silent,
        Over, Main, Handling, Idle, Stands, HandlerStep, S!Top, S!Last, S!Ended, S!Processes
  <2>4. CASE p = "catcher"
    <3>1. Idle' /\ frames'["sender"] = frames["sender"]
      BY <1>3, <2>4 DEF Idle, Stands, S!Top, S!Last, S!Processes
    <3>2. ~Caught /\ ~Confirming
      BY <1>1, <2>4 DEF Caught, Confirming, Stands, HandlerStep
    <3> QED
      BY <1>1, <2>1, <2>2, <3>1, <3>2 DEF Exchange, Turn, Signalled, Confirmed, Heard, Silent,
        Over, Main, Handling, HandlerStep, S!Ended, S!Processes
  <2> QED
    BY <2>3, <2>4 DEF S!Processes
<1>6. ASSUME zad = "zad3a" PROVE AsSent'
  <2>1. AsSent
    BY <1>6 DEF SignalsInv
  <2>2. Frames(p)' /\ ~Holds(p)'
    BY <1>1, <1>2, <2>1, FramesGo DEF AsSent
  <2>3. \A q \in S!Processes : Frames(q)' /\ (Holds(q)' => Holds(q))
    BY <1>3, <2>1, <2>2, OthersStay DEF AsSent
  <2> QED
    BY <1>1, <1>4, <2>1, <2>3, NothingCounted
<1> QED
  BY <1>1, <1>4, <1>5, <1>6 DEF SignalsInv

\* The catcher gets its handlers.
LEMMA Installs ==
  ASSUME SignalsInv, S!install
  PROVE  SignalsInv'
<1>1. /\ SignalsTyped /\ frames["catcher"] # <<>> /\ S!Top("catcher").at = "installs"
      /\ UNCHANGED <<zad, S!ToSend, pending, recieved, sent, sent_back>>
      /\ S!Goes("catcher", "waits") \/ UNCHANGED frames
      /\ \/ handled' = [handled EXCEPT !["catcher"] = S!Sigs]
         \/ handled' = [handled EXCEPT !["catcher"] = {S!sig1}]
  BY DEF SignalsInv, S!install, S!Runs, S!given, S!ToSend
<1>2. "waits" \in Steps /\ "catcher" \in S!Processes /\ "sender" \in S!Processes
  BY DEF Steps, S!Processes
<1>3. /\ frames' \in [S!Processes -> Seq(Frame)]
      /\ frames'["catcher"] # <<>>
      /\ S!Top("catcher")'.at \in {"installs", "waits"}
      /\ frames'["sender"] = frames["sender"]
  <2>1. CASE S!Goes("catcher", "waits")
    <3>1. /\ frames' \in [S!Processes -> Seq(Frame)]
          /\ Len(frames'["catcher"]) = Len(frames["catcher"])
          /\ Len(frames["catcher"]) \in Nat \ {0}
          /\ frames'["catcher"][Len(frames["catcher"])].at = "waits"
          /\ frames'["sender"] = frames["sender"]
      BY <1>1, <1>2, <2>1, GoesEffect
    <3> QED
      BY <1>2, <3>1 DEF S!Top, S!Last
  <2>2. CASE UNCHANGED frames
    BY <1>1, <2>2 DEF S!Top, S!Last, SignalsTyped
  <2> QED
    BY <1>1, <2>1, <2>2
<1>4. SignalsTyped'
  <2>1. handled' \in [S!Processes -> SUBSET S!Sigs] /\ handled'["sender"] = S!Sigs
    BY <1>1 DEF SignalsTyped, S!Processes, S!Sigs, S!sig1
  <2> QED
    BY <1>1, <1>3, <2>1 DEF SignalsTyped
<1>5. ASSUME zad = "zad3b" PROVE Exchange'
  <2>1. Exchange /\ ~Caught /\ ~Confirming
    BY <1>1, <1>5 DEF SignalsInv, Caught, Confirming, Stands, HandlerStep
  <2>2. Idle'
    BY <1>3 DEF Idle, Stands
  <2> QED
    BY <1>1, <1>3, <2>1, <2>2 DEF Exchange, Turn, Signalled, Confirmed, Heard, Silent,
      Over, Main, Handling, HandlerStep, S!Ended, Quiet, Only, Counted, Prior, Now, LastSig
<1>6. ASSUME zad = "zad3a" PROVE AsSent'
  <2>1. AsSent
    BY <1>6 DEF SignalsInv
  <2>2. Frames("catcher")' /\ (Holds("catcher")' => Holds("catcher"))
    <3>1. CASE S!Goes("catcher", "waits")
      BY <1>1, <1>2, <2>1, <3>1, FramesGo DEF AsSent
    <3>2. CASE UNCHANGED frames
      BY <1>2, <2>1, <3>2, OthersStay DEF AsSent
    <3> QED
      BY <1>1, <3>1, <3>2
  <2>3. \A q \in S!Processes : Frames(q)' /\ (Holds(q)' => Holds(q))
    <3>1. Frames("sender")' /\ (Holds("sender")' => Holds("sender"))
      BY <1>2, <1>3, <2>1, OthersStay DEF AsSent
    <3> QED
      BY <2>2, <3>1 DEF S!Processes
  <2> QED
    BY <1>1, <1>4, <2>1, <2>3, NothingCounted
<1> QED
  BY <1>1, <1>4, <1>5, <1>6 DEF SignalsInv

\* A handler starts in zad3a: what pended is being counted.
LEMMA DeliversA ==
  ASSUME SignalsTyped, SignalsTyped', AsSent, NEW p \in S!Processes, S!Deliver(p)
  PROVE  AsSent'
<1>1. PICK s \in S!Sigs :
           /\ frames[p] # <<>> /\ s \notin S!Blocked(p) /\ pending[p][s] > 0
           /\ pending'[p][s] = pending[p][s] - 1
           /\ \A q \in S!Processes : \A t \in S!Sigs :
                q # p \/ t # s => pending'[q][t] = pending[q][t]
           /\ \A q \in S!Processes \ {p} : frames'[q] = frames[q]
           /\ \/ frames'[p] = <<>>
              \/ /\ Len(frames'[p]) = Len(frames[p]) + 1 /\ Len(frames[p]) \in Nat \ {0}
                 /\ \A i \in 1 .. Len(frames[p]) : frames'[p][i] = frames[p][i]
                 /\ frames'[p][Len(frames'[p])].at = IF s = S!sig1 THEN "count" ELSE "report"
                 /\ frames'[p][Len(frames'[p])].mask = S!Blocked(p) \union {s}
  BY DeliverEffect
<1>2. UNCHANGED <<S!ToSend, recieved, sent, sent_back>>
  BY DEF S!Deliver, S!given, S!ToSend
<1>3. Holds(p) => S!sig1 \in S!Blocked(p)
  BY DEF AsSent, Frames, Holds, S!Blocked, S!Top, S!Last
<1>4. Frames(p)' /\ Gets(p)' <= Gets(p)
  <2>1. /\ recieved[p] \in Nat /\ pending[p][S!sig1] \in Nat /\ recieved'[p] = recieved[p]
        /\ pending'[p][S!sig1] = IF s = S!sig1 THEN pending[p][S!sig1] - 1 ELSE pending[p][S!sig1]
    BY <1>1, <1>2, GetsTyped DEF S!Sigs, S!sig1
  <2>2. CASE frames'[p] = <<>>
    <3>1. Len(frames'[p]) = 0
      BY <2>2
    <3>2. ~Holds(p)' /\ Frames(p)'
      BY <2>2, <3>1 DEF Holds, Frames
    <3> QED
      BY <2>1, <3>2 DEF Gets
  <2>3. CASE frames'[p] # <<>> /\ s = S!sig1
    <3>1. ~Holds(p)
      BY <1>1, <1>3, <2>3
    <3>2. Frames(p)'
      BY <1>1, <2>3, <3>1 DEF Frames, Holds, S!Top, S!Last
    <3> QED
      BY <2>1, <2>3, <3>1, <3>2 DEF Gets
  <2>4. CASE frames'[p] # <<>> /\ s # S!sig1
    <3>1. s = S!sig2 /\ S!sig1 # S!sig2
      BY <2>4 DEF S!Sigs, S!sig1, S!sig2
    <3>2. S!Top(p).at # "report" \/ ~Holds(p)
      BY <1>1, <3>1 DEF AsSent, Frames, Holds, S!Blocked
    <3>3. \A i \in 1 .. Len(frames[p]) : frames[p][i].at = "count" => i = Len(frames[p])
      BY <1>1, <3>2 DEF AsSent, Frames, Holds
    <3>4. S!Top(p)'.at = "report" /\ S!Top(p)'.mask = S!Blocked(p) \union {s}
      BY <1>1, <2>4, <3>1 DEF S!Top, S!Last
    <3>5. \A i \in 1 .. Len(frames'[p]) : frames'[p][i].at = "count" =>
             i = Len(frames[p]) /\ frames[p][i].at = "count" /\ i = Len(frames'[p]) - 1
      <4> TAKE i \in 1 .. Len(frames'[p])
      <4>1. CASE i = Len(frames'[p])
        BY <1>1, <2>4, <3>1, <4>1
      <4>2. CASE i # Len(frames'[p])
        <5>1. i \in 1 .. Len(frames[p])
          BY <1>1, <2>4, <4>2
        <5> QED
          BY <1>1, <2>4, <3>3, <5>1
      <4> QED
        BY <4>1, <4>2
    <3>6. Holds(p)' => Holds(p)
      BY <1>1, <2>4, <3>5 DEF Holds
    <3>7. Frames(p)'
      BY <1>3, <3>1, <3>4, <3>5, <3>6 DEF Frames, Holds
    <3> QED
      BY <2>1, <2>4, <3>6, <3>7 DEF Gets
  <2> QED
    BY <2>2, <2>3, <2>4
<1>5. \A q \in S!Processes \ {p} : Frames(q)' /\ Gets(q)' = Gets(q)
  <2> TAKE q \in S!Processes \ {p}
  <2>1. Frames(q)' /\ (Holds(q)' <=> Holds(q))
    BY <1>1, OthersStay DEF AsSent
  <2>2. pending'[q][S!sig1] = pending[q][S!sig1] /\ recieved'[q] = recieved[q]
    BY <1>1, <1>2 DEF S!Sigs
  <2> QED
    BY <2>1, <2>2 DEF Gets
<1>6. \A q \in S!Processes : Gets(q) \in Nat /\ Gets(q)' \in Nat
  <2> TAKE q \in S!Processes
  <2>1. recieved'[q] \in Nat /\ pending'[q][S!sig1] \in Nat
    BY DEF SignalsTyped, S!Sigs
  <2>2. Gets(q)' \in Nat
    BY <2>1 DEF Gets
  <2> QED
    BY <2>2, GetsTyped
<1>7. sent \in Nat /\ S!ToSend \in Nat /\ sent_back \in Nat
  BY DEF SignalsTyped
<1> QED
  BY <1>2, <1>4, <1>5, <1>6, <1>7 DEF AsSent, S!Processes

\* A handler starts in zad3b, or the catcher, without one, is killed.
LEMMA DeliversB ==
  ASSUME SignalsTyped, SignalsTyped', Exchange, NEW p \in S!Processes, S!Deliver(p)
  PROVE  Exchange'
<1>1. PICK s \in S!Sigs :
           /\ frames[p] # <<>> /\ s \notin S!Blocked(p) /\ pending[p][s] > 0
           /\ pending'[p][s] = pending[p][s] - 1
           /\ \A q \in S!Processes : \A t \in S!Sigs :
                q # p \/ t # s => pending'[q][t] = pending[q][t]
           /\ \A q \in S!Processes \ {p} : frames'[q] = frames[q]
           /\ \/ s \notin handled[p] /\ frames'[p] = <<>>
              \/ /\ s \in handled[p]
                 /\ Len(frames'[p]) = Len(frames[p]) + 1 /\ Len(frames[p]) \in Nat \ {0}
                 /\ \A i \in 1 .. Len(frames[p]) : frames'[p][i] = frames[p][i]
                 /\ frames'[p][Len(frames'[p])].at = IF s = S!sig1 THEN "count" ELSE "report"
  BY DeliverEffect
<1>2. UNCHANGED <<S!ToSend, recieved, sent, sent_back>>
  BY DEF S!Deliver, S!given, S!ToSend
<1>3. /\ ~Quiet(p)
      /\ \A t \in S!Sigs : Only(p, t) => t = s /\ Quiet(p)'
      /\ \A q \in S!Processes \ {p} : Quiet(q) => Quiet(q)'
  <2>1. pending[p][s] # 0
    BY <1>1 DEF SignalsTyped
  <2>2. ~Quiet(p)
    BY <1>1, <2>1 DEF Quiet
  <2>3. ASSUME NEW t \in S!Sigs, Only(p, t) PROVE t = s /\ Quiet(p)'
    BY <1>1, <2>1, <2>3 DEF Only, Quiet
  <2>4. \A q \in S!Processes \ {p} : Quiet(q) => Quiet(q)'
    BY <1>1 DEF Quiet
  <2> QED
    BY <2>2, <2>3, <2>4
<1>4. /\ LastSig \in S!Sigs /\ LastSig' = LastSig /\ HandlerStep' = HandlerStep
      /\ Prior' = Prior /\ Now' = Now
  BY <1>2 DEF LastSig, Prior, Now, HandlerStep, S!Sigs
<1>5. CASE p = "sender"
  <2>1. Confirmed
    BY <1>3, <1>5 DEF Exchange, Turn, Signalled, Caught, Confirming, Heard, Silent, Over
  <2>2. s = LastSig /\ Quiet("sender")' /\ Quiet("catcher")' /\ Main({"waits", "suspended"})
    BY <1>3, <1>4, <1>5, <2>1 DEF Confirmed, S!Processes
  <2>3. s \in handled["sender"]
    BY DEF SignalsTyped
  <2>4. Handling(HandlerStep)'
    BY <1>1, <1>4, <1>5, <2>2, <2>3 DEF Main, Handling, HandlerStep
  <2>5. Idle' /\ Counted(Prior, Now)'
    BY <1>1, <1>2, <1>4, <1>5, <2>1 DEF Confirmed, Idle, Stands, S!Top, S!Last, Counted, S!Processes
  <2>6. Heard'
    BY <1>4, <2>2, <2>4, <2>5 DEF Heard
  <2>7. sent # 0
    <3>1. Len(frames["sender"]) = 1 /\ frames["sender"][1].at # "sends"
      BY <2>2 DEF Main
    <3> QED
      BY <3>1 DEF Exchange, Turn, Main
  <2> QED
    BY <1>2, <2>6, <2>7 DEF Exchange
<1>6. CASE p = "catcher"
  <2>1. Signalled
    BY <1>3, <1>6 DEF Exchange, Turn, Caught, Confirming, Confirmed, Heard, Silent, Over
  <2>2. s = LastSig /\ Quiet("sender")' /\ Quiet("catcher")' /\ Main({"waits", "suspended"})
    BY <1>3, <1>4, <1>6, <2>1 DEF Signalled, S!Processes
  <2>3. Main({"waits", "suspended"})'
    BY <1>1, <1>6, <2>2 DEF Main, S!Processes
  <2>4. Counted(Prior, Prior)'
    BY <1>2, <1>4, <2>1 DEF Signalled, Counted
  <2>5. CASE s \in handled["catcher"]
    <3>1. Stands("catcher", {HandlerStep})'
      BY <1>1, <1>4, <1>6, <2>2, <2>5 DEF Stands, S!Top, S!Last, HandlerStep
    <3> QED
      BY <1>2, <2>1, <2>2, <2>3, <2>4, <3>1 DEF Exchange, Caught, Main, Turn
  <2>6. CASE s \notin handled["catcher"]
    <3>1. Idle'
      BY <1>1, <1>6, <2>6 DEF Idle
    <3> QED
      BY <1>2, <2>1, <2>2, <2>3, <3>1 DEF Exchange, Silent, Main, Turn
  <2> QED
    BY <2>5, <2>6
<1> QED
  BY <1>5, <1>6 DEF S!Processes

\* The kernel delivers a signal, in either pair.
LEMMA Delivers ==
  ASSUME SignalsInv, NEW p \in S!Processes, S!Deliver(p)
  PROVE  SignalsInv'
<1>1. SignalsTyped /\ UNCHANGED <<zad, S!ToSend, handled, recieved, sent, sent_back>>
  BY DEF SignalsInv, S!Deliver, S!given, S!ToSend
<1>2. frames' \in [S!Processes -> Seq(Frame)] /\ pending' \in [S!Processes -> [S!Sigs -> Nat]]
  BY <1>1, DeliverEffect
<1>3. SignalsTyped'
  BY <1>1, <1>2 DEF SignalsTyped
<1> QED
  BY <1>1, <1>3, DeliversA, DeliversB DEF SignalsInv

\* The sender of zad3b sends the next signal, when it is its turn.
LEMMA SendB == ASSUME SignalsInv, S!send_signals_b PROVE SignalsInv'
<1>1. /\ SignalsTyped /\ zad = "zad3b" /\ Exchange
      /\ frames["sender"] # <<>> /\ S!Goes("sender", "waits")
      /\ S!Raise("catcher", S!NextSig) /\ S!NextSig \in S!Sigs
      /\ sent' = sent + 1 /\ sent <= S!ToSend
      /\ UNCHANGED <<zad, S!ToSend, handled, recieved, sent_back>>
  BY DEF SignalsInv, S!send_signals_b, S!Runs, S!NextSig, S!Sigs, S!given, S!ToSend
<1>2. Turn
  BY <1>1 DEF Exchange, S!send_signals_b, S!Runs, S!Top, S!Last, Signalled, Caught, Confirming,
    Confirmed, Heard, Silent, Over, Main, Handling, HandlerStep, S!Ended
<1>3. "waits" \in Steps /\ "sender" \in S!Processes /\ "catcher" \in S!Processes
  BY DEF Steps, S!Processes
<1>4. /\ frames' \in [S!Processes -> Seq(Frame)]
         /\ Len(frames'["sender"]) = Len(frames["sender"])
         /\ frames'["sender"][Len(frames["sender"])].at = "waits"
         /\ frames'["catcher"] = frames["catcher"]
  BY <1>1, <1>3, GoesEffect
<1>5. /\ pending' \in [S!Processes -> [S!Sigs -> Nat]]
      /\ frames["catcher"] # <<>> /\ pending["catcher"][S!NextSig] = 0
           => pending'["catcher"][S!NextSig] = 1
      /\ frames["catcher"] = <<>> => pending'["catcher"][S!NextSig] = pending["catcher"][S!NextSig]
      /\ \A q \in S!Processes : \A t \in S!Sigs :
           q # "catcher" \/ t # S!NextSig => pending'[q][t] = pending[q][t]
  BY <1>1, <1>3, RaiseEffect
<1>6. SignalsTyped'
  BY <1>1, <1>4, <1>5 DEF SignalsTyped
<1>7. /\ Main({"waits", "suspended"})' /\ Quiet("sender")' /\ Idle'
      /\ S!NextSig = LastSig' /\ Counted(Prior, Prior)'
  <2>1. Main({"waits", "suspended"})'
    BY <1>2, <1>4 DEF Turn, Main
  <2>2. Quiet("sender")'
    BY <1>2, <1>3, <1>5 DEF Turn, Quiet
  <2>3. Idle'
    BY <1>2, <1>4 DEF Turn, Idle, Stands, S!Top, S!Last
  <2>4. S!NextSig = LastSig' /\ Prior' = Now
    BY <1>1 DEF LastSig, S!NextSig, SignalsTyped, Prior, Now
  <2>5. Counted(Prior, Prior)'
    BY <1>1, <1>2, <2>4 DEF Turn, Counted
  <2> QED
    BY <2>1, <2>2, <2>3, <2>4, <2>5
<1>8. Signalled' \/ Silent'
  BY <1>1, <1>2, <1>3, <1>5, <1>7 DEF Turn, Signalled, Silent, Only, Quiet
<1> QED
  BY <1>1, <1>6, <1>8 DEF SignalsInv, Exchange, SignalsTyped

\* It ends when all signals are sent and confirmed.
LEMMA ReturnB == ASSUME SignalsInv, S!return_b PROVE SignalsInv'
<1>1. /\ SignalsTyped /\ zad = "zad3b" /\ Exchange /\ S!Exits("sender")
      /\ frames["sender"] # <<>> /\ S!Top("sender").at = "sends" /\ sent > S!ToSend
      /\ UNCHANGED <<zad, S!ToSend, handled, pending, recieved, sent, sent_back>>
  BY DEF SignalsInv, S!return_b, S!Runs, S!given, S!ToSend
<1>2. Turn
  BY <1>1 DEF Exchange, S!Top, S!Last, Signalled, Caught, Confirming, Confirmed, Heard, Silent, Over,
    Main, Handling, HandlerStep, S!Ended
<1>3. /\ frames' \in [S!Processes -> Seq(Frame)]
      /\ frames'["sender"] = <<>> /\ frames'["catcher"] = frames["catcher"]
  <2>1. <<>> \in Seq(Frame) /\ frames' = [frames EXCEPT !["sender"] = <<>>]
    BY <1>1 DEF S!Exits
  <2> QED
    BY <1>1, <2>1 DEF SignalsTyped, S!Processes
<1>4. SignalsTyped'
  BY <1>1, <1>3 DEF SignalsTyped
<1>5. Now = S!ToSend /\ sent # 0
  BY <1>1 DEF Now, SignalsTyped
<1>6. Over'
  BY <1>1, <1>2, <1>3, <1>5 DEF Over, Turn, S!Ended, Quiet, Idle, Stands, S!Top, S!Last, Counted
<1> QED
  BY <1>1, <1>4, <1>5, <1>6 DEF SignalsInv, Exchange

\* A confirmation is handled: the sender's turn, or, when it came too early, nobody's.
LEMMA SenderHandlerB == ASSUME SignalsInv, S!sender_handler_b PROVE SignalsInv'
<1>1. /\ SignalsTyped /\ zad = "zad3b" /\ Exchange /\ S!Returns("sender") /\ frames["sender"] # <<>>
      /\ \/ /\ S!Top("sender").at = "count"
            /\ recieved' = [recieved EXCEPT !["sender"] = recieved["sender"] + 1]
         \/ S!Top("sender").at = "report" /\ recieved' = recieved
      /\ UNCHANGED <<zad, S!ToSend, handled, pending, sent, sent_back>>
  BY DEF SignalsInv, S!sender_handler_b, S!Runs, S!Counts, S!given, S!ToSend
<1>2. Heard
  BY <1>1 DEF Exchange, S!Top, S!Last, Turn, Signalled, Caught, Confirming, Confirmed, Silent, Over,
    Main, S!Ended
<1>3. /\ frames' \in [S!Processes -> Seq(Frame)]
      /\ Len(frames'["sender"]) = 1
      /\ frames'["sender"][1].at = IF frames["sender"][1].at = "suspended" THEN "sends"
                                   ELSE frames["sender"][1].at
      /\ frames'["catcher"] = frames["catcher"]
  BY <1>1, <1>2, ReturnsEffect DEF Heard, Handling, S!Processes
<1>4. recieved' \in [S!Processes -> Nat]
  <2>1. recieved \in [S!Processes -> Nat] /\ recieved["sender"] \in Nat
    BY <1>1 DEF SignalsTyped, S!Processes
  <2> QED
    BY <1>1, <2>1
<1>5. SignalsTyped'
  BY <1>1, <1>3, <1>4 DEF SignalsTyped
<1>6. S!Top("sender").at = HandlerStep /\ frames["sender"][1].at \in {"waits", "suspended"}
  BY <1>2 DEF Heard, Handling, S!Top, S!Last
<1>7. sent # 0
  BY <1>1, <1>2 DEF Exchange, Turn, Heard, Main, Handling
<1>8. Counted(Now, Now)'
  <2>1. recieved["sender"] = Prior /\ recieved["catcher"] = Now /\ Now' = Now
    BY <1>1, <1>2 DEF Heard, Counted, Now
  <2>2. recieved'["sender"] = Now
    <3>1. sent \in Nat /\ S!ToSend \in Nat
      BY <1>1 DEF SignalsTyped
    <3>2. CASE S!Top("sender").at = "count"
      <4>1. sent <= S!ToSend
        BY <1>6, <3>2 DEF HandlerStep, LastSig, S!sig1, S!sig2
      <4>2. recieved'["sender"] = recieved["sender"] + 1
        BY <1>1, <3>2 DEF SignalsTyped, S!Processes
      <4> QED
        BY <2>1, <3>1, <4>1, <4>2 DEF Prior, Now
    <3>3. CASE S!Top("sender").at = "report"
      <4>1. ~(sent <= S!ToSend)
        BY <1>6, <3>3 DEF HandlerStep, LastSig
      <4> QED
        BY <1>1, <2>1, <3>3, <4>1 DEF Prior, Now
    <3> QED
      BY <1>1, <3>2, <3>3
  <2>3. recieved'["catcher"] = Now
    BY <1>1, <2>1 DEF SignalsTyped, S!Processes
  <2> QED
    BY <2>1, <2>2, <2>3 DEF Counted
<1>9. Quiet("sender")' /\ Quiet("catcher")' /\ Idle'
  BY <1>1, <1>2, <1>3 DEF Heard, Quiet, Idle, Stands, S!Top, S!Last
<1>10. Turn' \/ Silent'
  BY <1>3, <1>6, <1>8, <1>9 DEF Turn, Silent, Main
<1> QED
  BY <1>1, <1>5, <1>7, <1>10 DEF SignalsInv, Exchange

\* The catcher of zad3b counts, confirms, or confirms the end and ends.
LEMMA CatcherB == ASSUME SignalsInv, S!catcher_handler_b PROVE SignalsInv'
<1>1. /\ SignalsTyped /\ zad = "zad3b" /\ Exchange /\ frames["catcher"] # <<>>
      /\ UNCHANGED <<zad, S!ToSend, handled, sent, sent_back>>
  BY DEF SignalsInv, S!catcher_handler_b, S!Runs, S!given, S!ToSend
<1>2. /\ "catcher" \in S!Processes /\ "sender" \in S!Processes
      /\ "waits" \in Steps /\ "confirms" \in Steps
      /\ S!sig1 \in S!Sigs /\ S!sig2 \in S!Sigs
  BY DEF S!Processes, Steps, S!Sigs
<1>3. LastSig' = LastSig /\ Prior' = Prior /\ Now' = Now
  BY <1>1 DEF LastSig, Prior, Now
<1>4. CASE /\ S!Top("catcher").at = "count" /\ S!Counts("catcher")
           /\ S!Goes("catcher", "confirms") /\ UNCHANGED pending
  <2>1. /\ frames' \in [S!Processes -> Seq(Frame)]
        /\ Len(frames'["catcher"]) = Len(frames["catcher"]) /\ Len(frames["catcher"]) \in Nat \ {0}
        /\ frames'["catcher"][Len(frames["catcher"])].at = "confirms"
        /\ frames'["sender"] = frames["sender"]
    BY <1>1, <1>2, <1>4, GoesEffect
  <2>2. Caught /\ HandlerStep = "count"
    BY <1>1, <1>4 DEF Exchange, Turn, Signalled, Caught, Confirming, Confirmed, Heard, Silent, Over,
      Idle, Stands
  <2>3. LastSig = S!sig1 /\ sent # 0 /\ sent <= S!ToSend
    BY <1>1, <2>2 DEF HandlerStep, LastSig, S!sig1, S!sig2, Exchange, Caught, Turn, Main
  <2>4. /\ recieved' \in [S!Processes -> Nat]
        /\ recieved'["catcher"] = recieved["catcher"] + 1
        /\ recieved'["sender"] = recieved["sender"]
    BY <1>2, <1>4, <1>1 DEF S!Counts, SignalsTyped
  <2>5. Counted(Prior, Now)'
    BY <1>1, <1>3, <2>2, <2>3, <2>4 DEF Caught, Counted, Prior, Now, SignalsTyped
  <2>6. Confirming'
    <3>1. Main({"waits", "suspended"})' /\ Quiet("sender")' /\ Quiet("catcher")'
      BY <1>4, <2>1, <2>2 DEF Caught, Main, Quiet
    <3>2. Stands("catcher", {"confirms"})'
      BY <2>1 DEF Stands, S!Top, S!Last
    <3> QED
      BY <1>3, <2>3, <2>5, <3>1, <3>2 DEF Confirming
  <2>7. SignalsTyped'
    BY <1>1, <1>4, <2>1, <2>4 DEF SignalsTyped
  <2> QED
    BY <1>1, <2>3, <2>6, <2>7 DEF SignalsInv, Exchange
<1>5. CASE /\ S!Top("catcher").at = "confirms" /\ S!Raise("sender", S!sig1)
           /\ S!Goes("catcher", "waits") /\ UNCHANGED recieved
  <2>1. /\ frames' \in [S!Processes -> Seq(Frame)]
        /\ Len(frames'["catcher"]) = Len(frames["catcher"]) /\ Len(frames["catcher"]) \in Nat \ {0}
        /\ frames'["catcher"][Len(frames["catcher"])].at = "waits"
        /\ frames'["sender"] = frames["sender"]
    BY <1>1, <1>2, <1>5, GoesEffect
  <2>2. Confirming
    BY <1>1, <1>5 DEF Exchange, Turn, Signalled, Caught, Confirmed, Heard, Silent, Over,
      Idle, Stands, HandlerStep
  <2>3. /\ pending' \in [S!Processes -> [S!Sigs -> Nat]]
        /\ frames["sender"] # <<>> /\ pending["sender"][S!sig1] = 0
             => pending'["sender"][S!sig1] = 1
        /\ \A q \in S!Processes : \A t \in S!Sigs :
             q # "sender" \/ t # S!sig1 => pending'[q][t] = pending[q][t]
    BY <1>1, <1>2, <1>5, RaiseEffect
  <2>4. frames["sender"] # <<>>
    BY <2>2 DEF Confirming, Main
  <2>5. Only("sender", LastSig)' /\ Quiet("catcher")'
    BY <1>2, <1>3, <2>2, <2>3, <2>4 DEF Confirming, Only, Quiet
  <2>6. Main({"waits", "suspended"})' /\ Idle' /\ Counted(Prior, Now)' /\ sent # 0
    BY <1>1, <1>3, <1>5, <2>1, <2>2
      DEF Confirming, Main, Idle, Stands, S!Top, S!Last, Counted, Exchange, Turn
  <2>7. SignalsTyped' /\ Confirmed'
    BY <1>1, <1>5, <2>1, <2>3, <2>5, <2>6 DEF SignalsTyped, Confirmed
  <2> QED
    BY <1>1, <2>6, <2>7 DEF SignalsInv, Exchange
<1>6. CASE /\ S!Top("catcher").at = "report" /\ S!Raise("sender", S!sig2)
           /\ S!Exits("catcher") /\ UNCHANGED recieved
  <2>1. /\ frames' \in [S!Processes -> Seq(Frame)]
        /\ frames'["catcher"] = <<>> /\ frames'["sender"] = frames["sender"]
    <3>1. <<>> \in Seq(Frame) /\ frames' = [frames EXCEPT !["catcher"] = <<>>]
      BY <1>6 DEF S!Exits
    <3> QED
      BY <1>1, <3>1 DEF SignalsTyped, S!Processes
  <2>2. Caught /\ HandlerStep = "report"
    BY <1>1, <1>6 DEF Exchange, Turn, Signalled, Caught, Confirming, Confirmed, Heard, Silent, Over,
      Idle, Stands
  <2>3. LastSig = S!sig2 /\ Prior = Now /\ sent # 0
    BY <1>1, <2>2 DEF HandlerStep, LastSig, Prior, Now, S!sig1, S!sig2, Exchange, Caught, Turn, Main
  <2>4. /\ pending' \in [S!Processes -> [S!Sigs -> Nat]]
        /\ frames["sender"] # <<>> /\ pending["sender"][S!sig2] = 0
             => pending'["sender"][S!sig2] = 1
        /\ \A q \in S!Processes : \A t \in S!Sigs :
             q # "sender" \/ t # S!sig2 => pending'[q][t] = pending[q][t]
    BY <1>1, <1>2, <1>6, RaiseEffect
  <2>5. frames["sender"] # <<>>
    BY <2>2 DEF Caught, Main
  <2>6. Only("sender", LastSig)' /\ Quiet("catcher")'
    BY <1>2, <1>3, <2>2, <2>3, <2>4, <2>5 DEF Caught, Only, Quiet
  <2>7. Main({"waits", "suspended"})' /\ Idle' /\ Counted(Prior, Now)'
    BY <1>1, <1>3, <1>6, <2>1, <2>2, <2>3 DEF Caught, Main, Idle, Counted
  <2>8. SignalsTyped' /\ Confirmed'
    BY <1>1, <1>6, <2>1, <2>4, <2>6, <2>7 DEF SignalsTyped, Confirmed
  <2> QED
    BY <1>1, <2>3, <2>8 DEF SignalsInv, Exchange
<1> QED
  BY <1>4, <1>5, <1>6 DEF S!catcher_handler_b, S!Runs

\* The sender of zad3a sends its signals, of which some may be merged.
LEMMA SendA == ASSUME SignalsInv, S!send_signals_a PROVE SignalsInv'
<1>1. /\ SignalsTyped /\ zad = "zad3a" /\ AsSent /\ frames["sender"] # <<>>
      /\ S!Top("sender").at = "sends"
      /\ S!Goes("sender", IF S!NextSig = S!sig1 THEN "sends" ELSE "waits")
      /\ S!Raise("catcher", S!NextSig) /\ S!NextSig \in S!Sigs
      /\ sent' = sent + 1 /\ UNCHANGED <<zad, S!ToSend, handled, recieved, sent_back>>
  BY DEF SignalsInv, S!send_signals_a, S!Runs, S!NextSig, S!Sigs, S!given, S!ToSend
<1>2. PICK place \in {"sends", "waits"} : S!Goes("sender", place)
  BY <1>1
<1>3. place \in Steps /\ place \notin {"count", "report"}
      /\ "sender" \in S!Processes /\ "catcher" \in S!Processes
  BY DEF Steps, S!Processes
<1>4. frames' \in [S!Processes -> Seq(Frame)] /\ frames'["catcher"] = frames["catcher"]
  BY <1>1, <1>2, <1>3, GoesEffect
<1>5. /\ pending' \in [S!Processes -> [S!Sigs -> Nat]]
      /\ pending'["catcher"][S!NextSig] <= pending["catcher"][S!NextSig] + 1
      /\ \A q \in S!Processes : \A t \in S!Sigs :
           q # "catcher" \/ t # S!NextSig => pending'[q][t] = pending[q][t]
  BY <1>1, <1>3, RaiseEffect
<1>6. SignalsTyped'
  BY <1>1, <1>4, <1>5 DEF SignalsTyped
<1>7. /\ Frames("sender")' /\ ~Holds("sender")'
      /\ Frames("catcher")' /\ (Holds("catcher")' <=> Holds("catcher"))
  BY <1>1, <1>2, <1>3, <1>4, FramesGo, OthersStay DEF AsSent
<1>8. Gets("sender")' <= Gets("sender")
  <2>1. pending'["sender"][S!sig1] = pending["sender"][S!sig1] /\ recieved' = recieved
    BY <1>1, <1>3, <1>5 DEF S!Sigs
  <2>2. pending["sender"][S!sig1] \in Nat /\ recieved["sender"] \in Nat
    BY <1>1, <1>3, GetsTyped
  <2> QED
    BY <1>7, <2>1, <2>2 DEF Gets
<1>9. Gets("catcher")' <= Gets("catcher") + IF sent < S!ToSend THEN 1 ELSE 0
  <2>1. pending'["catcher"][S!sig1] <=
          pending["catcher"][S!sig1] + IF sent < S!ToSend THEN 1 ELSE 0
    BY <1>1, <1>3, <1>5, GetsTyped DEF S!NextSig, S!Sigs, S!sig1, S!sig2
  <2>2. pending'["catcher"][S!sig1] \in Nat
    BY <1>3, <1>5 DEF S!Sigs
  <2> QED
    BY <1>1, <1>3, <1>7, <2>1, <2>2, GetsTyped, SMTT(60) DEF Gets
<1>10. \A q \in S!Processes : Gets(q) \in Nat /\ Gets(q)' \in Nat
  <2> TAKE q \in S!Processes
  <2>1. recieved'[q] \in Nat /\ pending'[q][S!sig1] \in Nat
    BY <1>6 DEF SignalsTyped, S!Sigs
  <2>2. Gets(q)' \in Nat
    BY <2>1 DEF Gets
  <2> QED
    BY <1>1, <2>2, GetsTyped
<1>11. AsSent'
  <2>1. sent \in Nat /\ S!ToSend \in Nat /\ sent_back \in Nat
    BY <1>1 DEF SignalsTyped
  <2> QED
    BY <1>1, <1>3, <1>7, <1>8, <1>9, <1>10, <2>1 DEF AsSent, S!Processes
<1> QED
  BY <1>1, <1>6, <1>11 DEF SignalsInv

\* A handler of zad3a counts its signal.
LEMMA CountsA ==
  ASSUME SignalsInv, zad = "zad3a", NEW p \in S!Processes, frames[p] # <<>>, S!Top(p).at = "count",
         S!Counts(p), S!Goes(p, "waits"),
         UNCHANGED <<zad, S!ToSend, handled, pending, sent, sent_back>>
  PROVE  SignalsInv'
<1>1. SignalsTyped /\ AsSent /\ "waits" \in Steps
  BY DEF SignalsInv, Steps
<1>2. frames' \in [S!Processes -> Seq(Frame)] /\ \A q \in S!Processes \ {p} : frames'[q] = frames[q]
  BY <1>1, GoesEffect
<1>3. /\ recieved' \in [S!Processes -> Nat] /\ recieved'[p] = recieved[p] + 1
      /\ \A q \in S!Processes \ {p} : recieved'[q] = recieved[q]
  BY <1>1 DEF S!Counts, SignalsTyped
<1>4. SignalsTyped'
  BY <1>1, <1>2, <1>3 DEF SignalsTyped
<1>5. /\ Frames(p)' /\ ~Holds(p)' /\ Holds(p)
      /\ \A q \in S!Processes \ {p} : Frames(q)' /\ (Holds(q)' <=> Holds(q))
  BY <1>1, <1>2, FramesGo, OthersStay DEF AsSent
<1>6. ASSUME NEW q \in S!Processes
      PROVE  Frames(q)' /\ Gets(q)' = Gets(q) /\ Gets(q) \in Nat /\ recieved[q] <= recieved'[q]
             /\ recieved[q] \in Nat /\ recieved'[q] \in Nat
  <2>1. /\ recieved[q] \in Nat /\ pending[q][S!sig1] \in Nat /\ pending'[q] = pending[q]
        /\ Gets(q) \in Nat
    BY <1>1, GetsTyped
  <2>2. CASE q = p
    BY <1>3, <1>5, <2>1, <2>2 DEF Gets
  <2>3. CASE q # p
    BY <1>3, <1>5, <2>1, <2>3 DEF Gets
  <2> QED
    BY <2>2, <2>3
<1>7. sent_back \in Nat
  BY <1>1 DEF SignalsTyped
<1>8. AsSent'
  BY <1>1, <1>6, <1>7 DEF AsSent, S!Processes
<1> QED
  BY <1>4, <1>8 DEF SignalsInv

\* The catcher of zad3a sends back no more than it has counted.
LEMMA SendBackA == ASSUME SignalsInv, zad = "zad3a", S!send_back PROVE SignalsInv'
<1>1. /\ SignalsTyped /\ AsSent /\ "sender" \in S!Processes /\ "catcher" \in S!Processes
      /\ S!sig1 \in S!Sigs /\ S!sig2 \in S!Sigs
      /\ UNCHANGED <<zad, S!ToSend, handled, recieved, sent>>
      /\ \/ sent_back < recieved["catcher"] /\ S!Raise("sender", S!sig1) /\ sent_back' = sent_back + 1
            /\ UNCHANGED frames
         \/ S!Raise("sender", S!sig2) /\ S!Exits("catcher") /\ sent_back' = sent_back
  BY DEF SignalsInv, S!send_back, S!given, S!ToSend, S!Sigs, S!Processes
<1>2. PICK s \in S!Sigs : S!Raise("sender", s) /\ (s = S!sig1 => sent_back' = sent_back + 1)
  BY <1>1 DEF S!sig1, S!sig2
<1>3. /\ pending' \in [S!Processes -> [S!Sigs -> Nat]]
      /\ pending'["sender"][s] <= pending["sender"][s] + 1
      /\ \A q \in S!Processes : \A t \in S!Sigs :
           q # "sender" \/ t # s => pending'[q][t] = pending[q][t]
  BY <1>1, <1>2, RaiseEffect
<1>4. /\ sent_back \in Nat /\ sent_back' \in Nat /\ recieved["catcher"] \in Nat
      /\ sent_back' \in {sent_back, sent_back + 1}
      /\ sent_back' <= recieved["catcher"]
  BY <1>1 DEF SignalsTyped, AsSent
<1>5. /\ frames' \in [S!Processes -> Seq(Frame)]
      /\ frames'["sender"] = frames["sender"]
      /\ frames'["catcher"] \in {frames["catcher"], <<>>}
  <2>1. CASE UNCHANGED frames
    BY <1>1, <2>1 DEF SignalsTyped
  <2>2. CASE S!Exits("catcher")
    <3>1. <<>> \in Seq(Frame) /\ frames' = [frames EXCEPT !["catcher"] = <<>>]
      BY <2>2 DEF S!Exits
    <3> QED
      BY <1>1, <3>1 DEF SignalsTyped, S!Processes
  <2> QED
    BY <1>1, <2>1, <2>2
<1>6. SignalsTyped'
  BY <1>1, <1>3, <1>4, <1>5 DEF SignalsTyped
<1>7. /\ Frames("sender")' /\ (Holds("sender")' <=> Holds("sender"))
      /\ Frames("catcher")' /\ (Holds("catcher")' => Holds("catcher"))
  <2>1. CASE frames'["catcher"] = frames["catcher"]
    BY <1>1, <1>5, <2>1, OthersStay DEF AsSent
  <2>2. CASE frames'["catcher"] = <<>>
    <3>1. Len(frames'["catcher"]) = 0
      BY <2>2
    <3>2. Frames("catcher")' /\ ~Holds("catcher")'
      BY <2>2, <3>1 DEF Frames, Holds
    <3> QED
      BY <1>1, <1>5, <3>2, OthersStay DEF AsSent
  <2> QED
    BY <1>5, <2>1, <2>2
<1>8. \A q \in S!Processes : /\ recieved'[q] = recieved[q] /\ recieved[q] \in Nat
                             /\ pending[q][S!sig1] \in Nat /\ pending'[q][S!sig1] \in Nat
  BY <1>1, <1>3, GetsTyped
<1>9. Gets("catcher")' <= Gets("catcher")
  <2>1. pending'["catcher"][S!sig1] = pending["catcher"][S!sig1]
    BY <1>1, <1>3
  <2> QED
    BY <1>1, <1>7, <1>8, <2>1 DEF Gets
<1>10. Gets("sender")' <= Gets("sender") + (sent_back' - sent_back)
  <2>1. pending'["sender"][S!sig1] <= pending["sender"][S!sig1] + (sent_back' - sent_back)
    BY <1>1, <1>2, <1>3, <1>4, <1>8
  <2> QED
    BY <1>1, <1>4, <1>7, <1>8, <2>1 DEF Gets
<1>11. \A q \in S!Processes : Gets(q) \in Nat /\ Gets(q)' \in Nat
  BY <1>8 DEF Gets
<1>12. AsSent'
  <2>1. sent \in Nat /\ S!ToSend \in Nat
    BY <1>1 DEF SignalsTyped
  <2> QED
    BY <1>1, <1>4, <1>7, <1>9, <1>10, <1>11, <2>1 DEF AsSent, S!Processes
<1> QED
  BY <1>1, <1>6, <1>12 DEF SignalsInv

\* The sender of zad3a ends.
LEMMA ReportA ==
  ASSUME SignalsInv, zad = "zad3a", S!Exits("sender"),
         UNCHANGED <<zad, S!ToSend, handled, pending, recieved, sent, sent_back>>
  PROVE  SignalsInv'
<1>1. SignalsTyped /\ AsSent
  BY DEF SignalsInv
<1>2. /\ frames' \in [S!Processes -> Seq(Frame)]
      /\ frames'["sender"] = <<>> /\ frames'["catcher"] = frames["catcher"]
  <2>1. <<>> \in Seq(Frame) /\ frames' = [frames EXCEPT !["sender"] = <<>>]
    BY DEF S!Exits
  <2> QED
    BY <1>1, <2>1 DEF SignalsTyped, S!Processes
<1>3. SignalsTyped'
  BY <1>1, <1>2 DEF SignalsTyped
<1>4. Frames("sender")' /\ ~Holds("sender")'
  <2>1. Len(frames'["sender"]) = 0
    BY <1>2
  <2> QED
    BY <1>2, <2>1 DEF Frames, Holds
<1>5. \A q \in S!Processes : Frames(q)' /\ (Holds(q)' => Holds(q))
  BY <1>1, <1>2, <1>4, OthersStay DEF AsSent, S!Processes
<1>6. AsSent'
  BY <1>1, <1>3, <1>5, NothingCounted
<1> QED
  BY <1>3, <1>6 DEF SignalsInv

\* Every step of either pair of programs.
LEMMA SignalsNext == ASSUME SignalsInv, [S!Next]_(S!vars) PROVE SignalsInv'
<1>1. CASE UNCHANGED S!vars
  <2>1. /\ UNCHANGED <<zad, S!ToSend, frames, handled>>
        /\ UNCHANGED <<pending, recieved, sent, sent_back>>
    BY <1>1 DEF S!vars, S!given, S!ToSend
  <2> QED
    BY SMTT(60), <2>1 DEF SignalsInv, SignalsTyped, Exchange, Turn, Signalled, Caught,
      Confirming, Confirmed, Heard, Silent, Over, Main, Handling, Idle, Stands, Quiet, Only,
      Counted, Prior, Now, LastSig, HandlerStep, AsSent, Frames, Gets, Holds, S!Top, S!Last,
      S!Ended
<1>2. CASE S!send_signals_a
  BY <1>2, SendA
<1>3. CASE S!send_signals_b
  BY <1>3, SendB
<1>4. CASE S!return_b
  BY <1>4, ReturnB
<1>5. CASE S!sender_handler_a
  <2>1. "sender" \in S!Processes
    BY DEF S!Processes
  <2> QED
    BY <1>5, <2>1, CountsA, ReportA DEF S!sender_handler_a, S!Runs, S!given, S!ToSend
<1>6. CASE S!sender_handler_b
  BY <1>6, SenderHandlerB
<1>7. CASE S!install
  BY <1>7, Installs
<1>8. CASE S!catcher_handler_a
  <2>1. "catcher" \in S!Processes
    BY DEF S!Processes
  <2> QED
    BY <1>8, <2>1, CountsA, SendBackA DEF S!catcher_handler_a, S!Runs, S!given, S!ToSend
<1>9. CASE S!catcher_handler_b
  BY <1>9, CatcherB
<1>10. ASSUME NEW p \in S!Processes, S!Suspend(p) \/ S!Deliver(p) PROVE SignalsInv'
  BY <1>10, Suspends, Delivers
<1> QED
  BY <1>1, <1>2, <1>3, <1>4, <1>5, <1>6, <1>7, <1>8, <1>9, <1>10
    DEF S!Next, S!Sender, S!Catcher, S!Processes

\* What sender and catcher print: in zad3b exactly what was sent, in zad3a never more.
LEMMA CountsInSignals ==
  ASSUME MaxSignals \in Nat
  PROVE  S!Spec => []S!CountsRight
<1>1. S!Init => SignalsInv
  BY SignalsInit
<1>2. SignalsInv /\ [S!Next]_(S!vars) => SignalsInv'
  BY SignalsNext
<1>3. SignalsInv => S!CountsRight
  <2> SUFFICES ASSUME SignalsInv PROVE S!CountsRight
    OBVIOUS
  <2>1. ASSUME zad = "zad3b", S!Ended("sender")
        PROVE  \A p \in S!Processes : recieved[p] = S!ToSend
    <3>1. Over
      BY <2>1 DEF SignalsInv, Exchange, Turn, Signalled, Caught, Confirming, Confirmed, Heard, Silent,
        Main, Handling, S!Ended
    <3> QED
      BY <3>1 DEF Over, Counted, S!Processes
  <2>2. ASSUME zad = "zad3a"
        PROVE  /\ recieved["sender"] <= sent_back
               /\ sent_back <= recieved["catcher"]
               /\ recieved["catcher"] <= S!ToSend
    <3>1. SignalsTyped /\ AsSent
      BY <2>2 DEF SignalsInv
    <3>2. \A p \in S!Processes : Gets(p) \in Nat /\ recieved[p] \in Nat /\ recieved[p] <= Gets(p)
      BY <3>1, GetsTyped DEF Gets
    <3>3. sent \in Nat /\ S!ToSend \in Nat /\ sent_back \in Nat
      BY <3>1 DEF SignalsTyped
    <3> QED
      BY <3>1, <3>2, <3>3 DEF AsSent, S!Processes
  <2> QED
    BY <2>1, <2>2 DEF S!CountsRight
<1> QED
  BY <1>1, <1>2, <1>3, PTL DEF S!Spec

\* cw04/zad3b: a sender that ends, and its catcher, have counted every signal sent; zad3a:
\* nobody counts a signal that was not sent to it.  Alone and beside the small programs.
THEOREM CountsAreRight ==
  ASSUME MaxSignals \in Nat
  PROVE  (S!Spec => []S!CountsRight) /\ (SpecOfOne => []CountsRight)
<1>1. InitOfOne => S!Init
  BY DEF InitOfOne, SignalsIdle
<1>2. [NextOfOne]_all => [S!Next]_(S!vars)
  BY DEF NextOfOne, InSignals, InPipeline, InFifo, InMain, InNegative, all, signals,
         S!vars, S!given, S!ToSend
<1>3. SpecOfOne => S!Spec
  BY <1>1, <1>2, PTL DEF SpecOfOne, S!Spec
<1>4. S!CountsRight => CountsRight
  BY DEF CountsRight
<1>5. S!Spec => []S!CountsRight
  BY CountsInSignals
<1> QED
  BY <1>3, <1>4, <1>5, PTL

-----------------------------------------------------------------------------
(* Producers and consumer of a FIFO (cw05/zad3).  What is on its way to the   *)
(* file is a stream of records of three units: a header and two parts.        *)

\* What is in the FIFO, and a whole record.
Unit == [by : Producers, chunk : Nat, part : Nat]
Triple(p, n) == <<F!Header(p), F!Part(p, n, 1), F!Part(p, n, 2)>>

\* Record k of s is the n-th of p; the chunks of p among the first k records of s.
RecordAt(s, k, p, n) ==
  s[3 * k - 2] = F!Header(p) /\ s[3 * k - 1] = F!Part(p, n, 1) /\ s[3 * k] = F!Part(p, n, 2)
Among(p, s, k) == {s[3 * l - 1].chunk : l \in {l \in 1 .. k : s[3 * l - 1].by = p}}

\* s consists of q records, each after those its producer has cut before it: done says
\* which of them are in the file, and cuts how many there are in all.
Follows(s, q, done, cuts) ==
  /\ Len(s) = 3 * q
  /\ \A k \in 1 .. q : \E p \in Producers, n \in 1 .. Chunks :
       RecordAt(s, k, p, n) /\ done[p] \union Among(p, s, k - 1) = 1 .. n - 1
  /\ \A p \in Producers : done[p] \union Among(p, s, q) = 1 .. cuts[p]

\* The header and the parts of a record, and the record they make.
LEMMA PartIs ==
  ASSUME NEW p \in Producers, NEW n \in Nat
  PROVE  /\ F!Header(p) \in Unit /\ F!Part(p, n, 1) \in Unit /\ F!Part(p, n, 2) \in Unit
         /\ F!Header(p).by = p /\ F!Header(p).part = 0
         /\ F!Part(p, n, 1).by = p /\ F!Part(p, n, 2).by = p
         /\ F!Part(p, n, 1).chunk = n /\ F!Part(p, n, 1).part = 1 /\ F!Part(p, n, 2).part = 2
         /\ Triple(p, n) \in Seq(Unit) /\ Len(Triple(p, n)) = 3
         /\ Triple(p, n)[1] = F!Header(p) /\ Triple(p, n)[2] = F!Part(p, n, 1)
         /\ Triple(p, n)[3] = F!Part(p, n, 2)
<1>1. F!Header(p) \in Unit /\ F!Part(p, n, 1) \in Unit /\ F!Part(p, n, 2) \in Unit
  BY DEF F!Header, F!Part, Unit
<1>2. \A a, b, c \in Unit : /\ <<a, b, c>> \in Seq(Unit) /\ Len(<<a, b, c>>) = 3
        /\ <<a, b, c>>[1] = a /\ <<a, b, c>>[2] = b /\ <<a, b, c>>[3] = c
  <2> HIDE DEF Unit
  <2> QED OBVIOUS
<1> QED
  BY <1>1, <1>2 DEF F!Header, F!Part, Triple

\* t begins with the first q records of s.
Begins(t, s, q) == \A i \in 1 .. 3 * q : t[i] = s[i]

\* Then the chunks among them are the same.
LEMMA AmongSame ==
  ASSUME NEW s, NEW t, NEW q \in Nat, Begins(t, s, q)
  PROVE  \A k \in 0 .. q, x \in Producers : Among(x, t, k) = Among(x, s, k)
<1> TAKE k \in 0 .. q, x \in Producers
<1>1. \A l \in 1 .. k : 3 * l - 1 \in 1 .. 3 * q
  OBVIOUS
<1>2. \A l \in 1 .. k : t[3 * l - 1] = s[3 * l - 1]
  BY <1>1 DEF Begins
<1>3. {l \in 1 .. k : t[3 * l - 1].by = x} = {l \in 1 .. k : s[3 * l - 1].by = x}
  BY <1>2
<1> QED
  BY <1>2, <1>3 DEF Among

\* The chunks among one record more.
LEMMA AmongLast ==
  ASSUME NEW s, NEW k \in Nat, NEW x
  PROVE  Among(x, s, k + 1) = Among(x, s, k) \union
           (IF s[3 * k + 2].by = x THEN {s[3 * k + 2].chunk} ELSE {})
<1> DEFINE a(l) == s[3 * l - 1]
<1>1. a(k + 1) = s[3 * k + 2]
  <2>1. 3 * (k + 1) - 1 = 3 * k + 2
    OBVIOUS
  <2> QED BY <2>1
<1>2. 1 .. k + 1 = (1 .. k) \union {k + 1}
  OBVIOUS
<1>3. Among(x, s, k) = {a(l).chunk : l \in {l \in 1 .. k : a(l).by = x}}
      /\ Among(x, s, k + 1) = {a(l).chunk : l \in {l \in 1 .. k + 1 : a(l).by = x}}
  BY DEF Among
<1> HIDE DEF a
<1> QED
  BY <1>1, <1>2, <1>3

\* A producer's next record at the end of a stream of whole records in order.
LEMMA FollowsAppend ==
  ASSUME NEW s \in Seq(Unit), NEW q \in Nat, NEW done, NEW cuts \in [Producers -> Nat],
         Chunks \in Nat, Follows(s, q, done, cuts),
         NEW p \in Producers, NEW n \in 1 .. Chunks, n = cuts[p] + 1
  PROVE  Follows(s \o Triple(p, n), q + 1, done, [cuts EXCEPT ![p] = n])
<1> DEFINE t == s \o Triple(p, n)
           later == [cuts EXCEPT ![p] = n]
<1>1. /\ Len(s) = 3 * q /\ Len(t) = 3 * (q + 1)
      /\ \A i \in 1 .. 3 * q : t[i] = s[i]
      /\ t[3 * q + 1] = F!Header(p) /\ t[3 * q + 2] = F!Part(p, n, 1)
      /\ t[3 * q + 3] = F!Part(p, n, 2)
  <2>1. Triple(p, n) \in Seq(Unit) /\ Len(Triple(p, n)) = 3
    BY PartIs
  <2>2. Len(s) = 3 * q
    BY DEF Follows
  <2> DEFINE u == Triple(p, n)
  <2>3. u[1] = F!Header(p) /\ u[2] = F!Part(p, n, 1) /\ u[3] = F!Part(p, n, 2)
    BY PartIs
  <2> HIDE DEF u, Unit
  <2>4. Len(s \o u) = Len(s) + Len(u)
        /\ \A i \in 1 .. Len(s) + Len(u) : (s \o u)[i] = IF i <= Len(s) THEN s[i] ELSE u[i - Len(s)]
    BY <2>1 DEF u
  <2>5. Len(u) = 3
    BY <2>1 DEF u
  <2>6. t = s \o u
    BY DEF u
  <2> HIDE DEF t
  <2>7. Len(t) = 3 * q + 3
        /\ \A i \in 1 .. 3 * q + 3 : t[i] = IF i <= 3 * q THEN s[i] ELSE u[i - 3 * q]
    BY <2>2, <2>4, <2>5, <2>6
  <2>8. /\ t[3 * q + 1] = u[1] /\ t[3 * q + 2] = u[2] /\ t[3 * q + 3] = u[3]
    <3>1. /\ 3 * q + 1 \in 1 .. 3 * q + 3 /\ 3 * q + 1 - 3 * q = 1
          /\ 3 * q + 2 \in 1 .. 3 * q + 3 /\ 3 * q + 2 - 3 * q = 2
          /\ 3 * q + 3 \in 1 .. 3 * q + 3 /\ 3 * q + 3 - 3 * q = 3
          /\ ~(3 * q + 1 <= 3 * q) /\ ~(3 * q + 2 <= 3 * q) /\ ~(3 * q + 3 <= 3 * q)
      OBVIOUS
    <3>2. t[3 * q + 1] = u[1]
      BY <2>7, <3>1
    <3>3. t[3 * q + 2] = u[2]
      BY <2>7, <3>1
    <3>4. t[3 * q + 3] = u[3]
      BY <2>7, <3>1
    <3> QED
      BY <3>2, <3>3, <3>4
  <2>9. \A i \in 1 .. 3 * q : t[i] = s[i]
    BY <2>7
  <2> QED
    BY <2>2, <2>3, <2>7, <2>8, <2>9
<1> HIDE DEF t
<1>2. \A k \in 0 .. q, x \in Producers : Among(x, t, k) = Among(x, s, k)
  <2>1. Begins(t, s, q)
    BY <1>1 DEF Begins
  <2> QED
    BY <2>1, AmongSame
<1>3. \A x \in Producers :
        Among(x, t, q + 1) = Among(x, s, q) \union (IF x = p THEN {n} ELSE {})
  <2> TAKE x \in Producers
  <2>1. t[3 * q + 2].by = p /\ t[3 * q + 2].chunk = n
    BY SMTT(60), <1>1, PartIs
  <2>2. q \in 0 .. q
    OBVIOUS
  <2>3. Among(x, t, q + 1) =
          Among(x, t, q) \union (IF t[3 * q + 2].by = x THEN {t[3 * q + 2].chunk} ELSE {})
    BY AmongLast
  <2>4. Among(x, t, q) = Among(x, s, q)
    BY <1>2, <2>2
  <2> QED
    BY <2>1, <2>3, <2>4
<1>4. \A k \in 1 .. q + 1 : \E x \in Producers, m \in 1 .. Chunks :
        RecordAt(t, k, x, m) /\ done[x] \union Among(x, t, k - 1) = 1 .. m - 1
  <2> TAKE k \in 1 .. q + 1
  <2>1. CASE k <= q
    <3>1. PICK x \in Producers, m \in 1 .. Chunks :
            RecordAt(s, k, x, m) /\ done[x] \union Among(x, s, k - 1) = 1 .. m - 1
      <4>1. k \in 1 .. q
        BY <2>1
      <4> QED
        BY <4>1 DEF Follows
    <3>2. t[3 * k - 2] = s[3 * k - 2] /\ t[3 * k - 1] = s[3 * k - 1] /\ t[3 * k] = s[3 * k]
      BY <1>1, <2>1
    <3>3. Among(x, t, k - 1) = Among(x, s, k - 1)
      BY <1>2, <2>1
    <3> QED
      BY <3>1, <3>2, <3>3 DEF RecordAt
  <2>2. CASE k = q + 1
    <3>1. RecordAt(t, q + 1, p, n)
      <4>1. 3 * (q + 1) - 2 = 3 * q + 1 /\ 3 * (q + 1) - 1 = 3 * q + 2 /\ 3 * (q + 1) = 3 * q + 3
        OBVIOUS
      <4> QED
        BY <1>1, <4>1 DEF RecordAt
    <3>2. done[p] \union Among(p, t, q) = 1 .. n - 1
      BY <1>2 DEF Follows
    <3> QED
      BY <2>2, <3>1, <3>2
  <2> QED
    BY <2>1, <2>2
<1>5. \A x \in Producers : done[x] \union Among(x, t, q + 1) = 1 .. later[x]
  <2> TAKE x \in Producers
  <2>1. done[x] \union Among(x, s, q) = 1 .. cuts[x]
    BY DEF Follows
  <2>2. later[x] = IF x = p THEN n ELSE cuts[x]
    OBVIOUS
  <2>3. 1 .. n = (1 .. cuts[p]) \union {n}
    OBVIOUS
  <2> HIDE DEF later
  <2> QED
    BY <1>3, <2>1, <2>2, <2>3
<1> QED
  BY <1>1, <1>4, <1>5 DEF Follows, t

\* The first record leaves the stream and is in the file.
LEMMA FollowsDrop ==
  ASSUME NEW s \in Seq(Unit), NEW t \in Seq(Unit), NEW q \in Nat,
         NEW done \in [Producers -> SUBSET Nat], NEW cuts,
         Chunks \in Nat, Follows(s, q + 1, done, cuts),
         Len(t) = Len(s) - 3, \A i \in 1 .. Len(t) : t[i] = s[i + 3],
         NEW p \in Producers, NEW n \in Nat, RecordAt(s, 1, p, n)
  PROVE  Follows(t, q, [done EXCEPT ![p] = @ \union {n}], cuts)
<1> DEFINE more == [done EXCEPT ![p] = @ \union {n}]
<1>1. Len(s) = 3 * q + 3 /\ Len(t) = 3 * q /\ \A i \in 1 .. 3 * q : t[i] = s[i + 3]
  BY DEF Follows
<1>2. \A x \in Producers : more[x] = done[x] \union IF x = p THEN {n} ELSE {}
  OBVIOUS
<1> HIDE DEF more
<1>3. \A k \in 0 .. q, x \in Producers :
        Among(x, s, k + 1) = Among(x, t, k) \union IF x = p THEN {n} ELSE {}
  <2> TAKE k \in 0 .. q, x \in Producers
  <2>1. s[2].by = p /\ s[2].chunk = n
    BY PartIs DEF RecordAt
  <2> DEFINE a(l) == s[3 * l - 1]
             b(l) == t[3 * l - 1]
  <2>2. \A l \in 1 .. k : b(l) = a(l + 1)
    <3> TAKE l \in 1 .. k
    <3>1. 3 * (l + 1) - 1 = 3 * l - 1 + 3 /\ 3 * l - 1 \in 1 .. 3 * q
      OBVIOUS
    <3> QED
      BY <1>1, <3>1
  <2>3. a(1) = s[2]
    OBVIOUS
  <2>4. Among(x, s, k + 1) = {a(l).chunk : l \in {l \in 1 .. k + 1 : a(l).by = x}}
        /\ Among(x, t, k) = {b(l).chunk : l \in {l \in 1 .. k : b(l).by = x}}
    BY DEF Among
  <2> HIDE DEF a, b
  <2>5. \A l \in 1 .. k + 1 : l = 1 \/ l - 1 \in 1 .. k
    OBVIOUS
  <2>6. ASSUME NEW c \in Among(x, s, k + 1)
        PROVE  c \in Among(x, t, k) \union IF x = p THEN {n} ELSE {}
    <3>1. PICK l \in 1 .. k + 1 : a(l).by = x /\ c = a(l).chunk
      BY <2>4, <2>6
    <3>2. CASE l = 1
      BY <2>1, <2>3, <3>1, <3>2
    <3>3. CASE l - 1 \in 1 .. k
      <4>1. b(l - 1) = a(l)
        BY <2>2, <3>3
      <4> QED
        BY <2>4, <3>1, <3>3, <4>1
    <3> QED
      BY <2>5, <3>2, <3>3
  <2>7. ASSUME NEW c \in Among(x, t, k) PROVE c \in Among(x, s, k + 1)
    <3>1. PICK l \in 1 .. k : b(l).by = x /\ c = b(l).chunk
      BY <2>4, <2>7
    <3>2. l + 1 \in 1 .. k + 1 /\ a(l + 1) = b(l)
      BY <2>2
    <3> QED
      BY <2>4, <3>1, <3>2
  <2>8. x = p => n \in Among(x, s, k + 1)
    <3>1. 1 \in 1 .. k + 1
      OBVIOUS
    <3> QED
      BY <2>1, <2>3, <2>4, <3>1
  <2> QED
    BY <2>6, <2>7, <2>8
<1>4. \A k \in 1 .. q : \E x \in Producers, m \in 1 .. Chunks :
        RecordAt(t, k, x, m) /\ more[x] \union Among(x, t, k - 1) = 1 .. m - 1
  <2> TAKE k \in 1 .. q
  <2>1. k + 1 \in 1 .. q + 1 /\ k - 1 \in 0 .. q /\ k - 1 + 1 = k /\ k + 1 - 1 = k
    OBVIOUS
  <2>2. PICK x \in Producers, m \in 1 .. Chunks :
          RecordAt(s, k + 1, x, m) /\ done[x] \union Among(x, s, k) = 1 .. m - 1
    <3>1. PICK j \in 1 .. q + 1 : j = k + 1 /\ j - 1 = k
      BY <2>1
    <3>2. PICK x \in Producers, m \in 1 .. Chunks :
            RecordAt(s, j, x, m) /\ done[x] \union Among(x, s, j - 1) = 1 .. m - 1
      BY DEF Follows
    <3> QED
      BY <3>1, <3>2
  <2>3. /\ t[3 * k - 2] = s[3 * (k + 1) - 2] /\ t[3 * k - 1] = s[3 * (k + 1) - 1]
        /\ t[3 * k] = s[3 * (k + 1)]
    <3>1. 3 * (k + 1) - 2 = 3 * k - 2 + 3 /\ 3 * k - 2 \in 1 .. 3 * q
      OBVIOUS
    <3>2. 3 * (k + 1) - 1 = 3 * k - 1 + 3 /\ 3 * k - 1 \in 1 .. 3 * q
      OBVIOUS
    <3>3. 3 * (k + 1) = 3 * k + 3 /\ 3 * k \in 1 .. 3 * q
      OBVIOUS
    <3> QED
      BY <1>1, <3>1, <3>2, <3>3
  <2>4. RecordAt(t, k, x, m)
    BY <2>2, <2>3 DEF RecordAt
  <2>5. Among(x, s, k) = Among(x, t, k - 1) \union IF x = p THEN {n} ELSE {}
    BY <1>3, <2>1
  <2> QED
    BY <1>2, <2>2, <2>4, <2>5
<1>5. \A x \in Producers : more[x] \union Among(x, t, q) = 1 .. cuts[x]
  <2> TAKE x \in Producers
  <2>1. done[x] \union Among(x, s, q + 1) = 1 .. cuts[x]
    BY DEF Follows
  <2>2. Among(x, s, q + 1) = Among(x, t, q) \union IF x = p THEN {n} ELSE {}
    <3>1. q \in 0 .. q
      OBVIOUS
    <3> QED
      BY <1>3, <3>1
  <2> QED
    BY <1>2, <2>1, <2>2
<1> QED
  BY <1>1, <1>4, <1>5 DEF Follows, more

\* The chunks among one record more of a line.
LEMMA StoredLast ==
  ASSUME NEW s, NEW k \in Nat, NEW x
  PROVE  F!Stored(x, s, k + 1) = F!Stored(x, s, k) \union
           (IF s[2 * k + 1].by = x THEN {s[2 * k + 1].chunk} ELSE {})
<1> DEFINE a(l) == s[2 * l - 1]
<1>1. a(k + 1) = s[2 * k + 1]
  <2>1. 2 * (k + 1) - 1 = 2 * k + 1
    OBVIOUS
  <2> QED BY <2>1
<1>2. 1 .. k + 1 = (1 .. k) \union {k + 1}
  OBVIOUS
<1>3. F!Stored(x, s, k) = {a(l).chunk : l \in {l \in 1 .. k : a(l).by = x}}
      /\ F!Stored(x, s, k + 1) = {a(l).chunk : l \in {l \in 1 .. k + 1 : a(l).by = x}}
  BY DEF F!Stored
<1> HIDE DEF a
<1> QED
  BY <1>1, <1>2, <1>3

\* Only the first parts of the first k records of a line matter to the chunks among them.
LEMMA StoredSame ==
  ASSUME NEW s, NEW t, NEW k \in Nat, NEW x,
         \A l \in 1 .. k : t[2 * l - 1] = s[2 * l - 1]
  PROVE  F!Stored(x, t, k) = F!Stored(x, s, k)
<1>1. {l \in 1 .. k : t[2 * l - 1].by = x} = {l \in 1 .. k : s[2 * l - 1].by = x}
  OBVIOUS
<1> QED
  BY <1>1 DEF F!Stored

\* t is old, a line of q records, with record n of p after them.
Extended(t, old, q, p, n) ==
  /\ Len(old) = 2 * q /\ Len(t) = 2 * q + 2
  /\ \A i \in 1 .. 2 * q : t[i] = old[i]
  /\ t[2 * q + 1] = F!Part(p, n, 1) /\ t[2 * q + 2] = F!Part(p, n, 2)

\* What is stored in a line that grows by a record.
LEMMA StoredGrows ==
  ASSUME NEW old, NEW t, NEW q \in Nat, NEW p \in Producers, NEW n \in Nat,
         Extended(t, old, q, p, n)
  PROVE  /\ \A x \in Producers, k \in 0 .. q : F!Stored(x, t, k) = F!Stored(x, old, k)
         /\ \A x \in Producers :
              F!Stored(x, t, q + 1) = F!Stored(x, old, q) \union IF x = p THEN {n} ELSE {}
<1>0. \A i \in 1 .. 2 * q : t[i] = old[i]
  BY DEF Extended
<1>1. \A x \in Producers, k \in 0 .. q : F!Stored(x, t, k) = F!Stored(x, old, k)
  <2> TAKE x \in Producers, k \in 0 .. q
  <2>1. \A l \in 1 .. k : t[2 * l - 1] = old[2 * l - 1]
    BY <1>0
  <2>2. k \in Nat
    OBVIOUS
  <2> QED
    BY <2>1, <2>2, StoredSame
<1>2. t[2 * q + 1].by = p /\ t[2 * q + 1].chunk = n
  BY PartIs DEF Extended
<1>3. \A x \in Producers :
        F!Stored(x, t, q + 1) = F!Stored(x, old, q) \union IF x = p THEN {n} ELSE {}
  <2> TAKE x \in Producers
  <2>1. F!Stored(x, t, q + 1) =
          F!Stored(x, t, q) \union (IF t[2 * q + 1].by = x THEN {t[2 * q + 1].chunk} ELSE {})
    BY StoredLast
  <2>2. q \in 0 .. q
    OBVIOUS
  <2>3. F!Stored(x, t, q) = F!Stored(x, old, q)
    BY <1>1, <2>2
  <2> QED
    BY <1>2, <2>1, <2>3
<1> QED
  BY <1>1, <1>3

\* A line stays complete when the record that is added is the next of its producer.
LEMMA RecordStored ==
  ASSUME NEW r, NEW old, F!Complete(r, old), Chunks \in Nat,
         NEW p \in Producers, row_num[p] = r, NEW n \in 1 .. Chunks,
         NEW q \in Nat, F!Stored(p, old, q) = 1 .. n - 1,
         NEW t, Extended(t, old, q, p, n)
  PROVE  F!Complete(r, t)
<1>1. /\ \A i \in 1 .. 2 * q : t[i] = old[i]
      /\ t[2 * q + 1] = F!Part(p, n, 1) /\ t[2 * q + 2] = F!Part(p, n, 2)
  BY DEF Extended
<1>2. \A x \in Producers :
        /\ \A k \in 0 .. q : F!Stored(x, t, k) = F!Stored(x, old, k)
        /\ F!Stored(x, t, q + 1) = F!Stored(x, old, q) \union IF x = p THEN {n} ELSE {}
  <2>1. n \in Nat
    OBVIOUS
  <2>2. \A x \in Producers :
          F!Stored(x, t, q + 1) = F!Stored(x, old, q) \union IF x = p THEN {n} ELSE {}
    BY <2>1, StoredGrows
  <2>3. ASSUME NEW x \in Producers, NEW k \in 0 .. q PROVE F!Stored(x, t, k) = F!Stored(x, old, k)
    BY <2>1, StoredGrows
  <2> QED
    BY <2>2, <2>3
<1>3. Len(old) \div 2 = q /\ Len(t) % 2 = 0 /\ Len(t) \div 2 = q + 1
  <2>1. \A k \in Nat : (2 * k) \div 2 = k /\ (2 * k) % 2 = 0
    OBVIOUS
  <2>2. Len(old) = 2 * q /\ Len(t) = 2 * (q + 1)
    BY DEF Extended
  <2> QED
    BY <2>1, <2>2
<1>4. \A k \in 1 .. q + 1 : \E x \in Producers, m \in 1 .. Chunks :
        /\ row_num[x] = r
        /\ t[2 * k - 1] = F!Part(x, m, 1) /\ t[2 * k] = F!Part(x, m, 2)
        /\ F!Stored(x, t, k - 1) = 1 .. m - 1
  <2> TAKE k \in 1 .. q + 1
  <2>1. CASE k <= q
    <3>1. PICK x \in Producers, m \in 1 .. Chunks :
            /\ row_num[x] = r
            /\ old[2 * k - 1] = F!Part(x, m, 1) /\ old[2 * k] = F!Part(x, m, 2)
            /\ F!Stored(x, old, k - 1) = 1 .. m - 1
      <4>1. \A j \in 1 .. q : \E x \in Producers, m \in 1 .. Chunks :
              /\ row_num[x] = r
              /\ old[2 * j - 1] = F!Part(x, m, 1) /\ old[2 * j] = F!Part(x, m, 2)
              /\ F!Stored(x, old, j - 1) = 1 .. m - 1
        BY <1>3 DEF F!Complete
      <4>2. k \in 1 .. q
        BY <2>1
      <4> QED
        BY <4>1, <4>2
    <3>2. t[2 * k - 1] = old[2 * k - 1] /\ t[2 * k] = old[2 * k]
      <4>1. 2 * k - 1 \in 1 .. 2 * q /\ 2 * k \in 1 .. 2 * q
        BY <2>1
      <4> QED
        BY <1>1, <4>1
    <3>3. F!Stored(x, t, k - 1) = F!Stored(x, old, k - 1)
      BY <1>2, <2>1
    <3> QED
      BY <3>1, <3>2, <3>3
  <2>2. CASE k = q + 1
    <3>1. 2 * k - 1 = 2 * q + 1 /\ 2 * k = 2 * q + 2 /\ k - 1 = q /\ q \in 0 .. q
      BY <2>2
    <3>2. t[2 * k - 1] = F!Part(p, n, 1) /\ t[2 * k] = F!Part(p, n, 2)
      BY <1>1, <3>1
    <3>3. F!Stored(p, t, k - 1) = 1 .. n - 1
      BY <1>2, <3>1
    <3> QED
      BY <3>2, <3>3
  <2> QED
    BY <2>1, <2>2
<1> QED
  BY <1>3, <1>4 DEF F!Complete

\* A line grows by a record that its producer has cut after those in it.
LEMMA LineGrows ==
  ASSUME NEW r, NEW old \in Seq(Unit), F!Complete(r, old), Chunks \in Nat,
         NEW p \in Producers, row_num[p] = r, NEW n \in 1 .. Chunks,
         F!Stored(p, old, Len(old) \div 2) = 1 .. n - 1,
         NEW u \in Seq(Unit), Len(u) = 2, u[1] = F!Part(p, n, 1), u[2] = F!Part(p, n, 2)
  PROVE  /\ F!Complete(r, old \o u)
         /\ \A x \in Producers : F!Stored(x, old \o u, Len(old \o u) \div 2) =
              F!Stored(x, old, Len(old) \div 2) \union IF x = p THEN {n} ELSE {}
<1> HIDE DEF Unit
<1>1. PICK t : t = old \o u
  OBVIOUS
<1>2. PICK q \in Nat : Len(old) = 2 * q /\ Len(old) \div 2 = q
  BY DEF F!Complete
<1>3. Len(t) = 2 * q + 2
      /\ \A i \in 1 .. 2 * q + 2 : t[i] = IF i <= 2 * q THEN old[i] ELSE u[i - 2 * q]
  <2>1. /\ Len(t) = Len(old) + Len(u)
        /\ \A i \in 1 .. Len(old) + Len(u) :
             t[i] = IF i <= Len(old) THEN old[i] ELSE u[i - Len(old)]
    BY <1>1, ConcatProperties
  <2> QED
    BY <1>2, <2>1
<1>4. Extended(t, old, q, p, n)
  <2>1. \A i \in 1 .. 2 * q : t[i] = old[i]
    BY <1>3
  <2>2. t[2 * q + 1] = F!Part(p, n, 1) /\ t[2 * q + 2] = F!Part(p, n, 2)
    <3>1. /\ 2 * q + 1 \in 1 .. 2 * q + 2 /\ ~(2 * q + 1 <= 2 * q) /\ 2 * q + 1 - 2 * q = 1
          /\ 2 * q + 2 \in 1 .. 2 * q + 2 /\ ~(2 * q + 2 <= 2 * q) /\ 2 * q + 2 - 2 * q = 2
      OBVIOUS
    <3> QED
      BY <1>3, <3>1
  <2> QED
    BY <1>2, <1>3, <2>1, <2>2 DEF Extended
<1>5. F!Complete(r, t)
  BY <1>2, <1>4, RecordStored
<1>6. \A x \in Producers : F!Stored(x, t, q + 1) =
        F!Stored(x, old, q) \union IF x = p THEN {n} ELSE {}
  <2>1. n \in Nat
    OBVIOUS
  <2> QED
    BY <1>4, <2>1, StoredGrows
<1>7. Len(t) \div 2 = q + 1
  BY <1>3
<1> QED
  BY <1>1, <1>2, <1>5, <1>6, <1>7

-----------------------------------------------------------------------------
FifoTyped ==
  /\ large \in BOOLEAN /\ row_num \in [Producers -> Rows]
  /\ at \in [Producers -> {"starts", "opens", "reads", "locks", "writes", "unlocks", "flushes",
                           "ended"}]
  /\ cut \in [Producers -> 0 .. Chunks]
  /\ buffer \in [Producers -> Seq(Unit)] /\ fifo \in Seq(Unit)
  /\ consumer \in {"starts", "opens", "row", "content", "ended"}
  /\ record \in Seq(Unit) /\ file \in [Rows -> Seq(Unit)]

\* Producers and consumer wait for each other before the first record is cut.
Opened ==
  /\ consumer = "starts" => \A p \in Producers : at[p] \in {"starts", "opens"}
  /\ \A p \in Producers :
       /\ at[p] \in {"starts", "opens"} => cut[p] = 0
       /\ at[p] \in {"locks", "writes", "unlocks", "flushes"} => cut[p] > 0

\* What stdio keeps between fwrite and fflush, and the consumer of a record.
Kept == consumer # "ended" =>
  /\ \A p \in Producers : buffer[p] =
       IF at[p] \notin {"unlocks", "flushes"} THEN <<>>
       ELSE IF large THEN <<F!Part(p, cut[p], 2)>> ELSE Triple(p, cut[p])
  /\ IF consumer = "content" THEN Len(record) \in 1 .. 3 ELSE record = <<>>

\* The records of each producer in the file, and how many it has written or, if it
\* writes alone, has begun to write.
InFile == [p \in Producers |->
  F!Stored(p, file[row_num[p]], Len(file[row_num[p]]) \div 2)]
Cutting == IF large THEN {"locks", "writes"} ELSE {"locks", "writes", "unlocks", "flushes"}
Begun == [p \in Producers |-> IF at[p] \in Cutting THEN cut[p] - 1 ELSE cut[p]]

\* Producer w writes alone, or records are small.  What is on its way to the file then
\* consists of whole records.
Alone(w) == large => \A p \in Producers \ {w} : cut[p] = 0
Stream(w) == record \o fifo \o (IF large THEN buffer[w] ELSE <<>>)
StreamRight == consumer # "ended" =>
  \A w \in Producers : Alone(w) => \E q \in Nat : Follows(Stream(w), q, InFile, Begun)
FileRight == \A w \in Producers : Alone(w) => \A r \in Rows : F!Complete(r, file[r])

FifoInv == FifoTyped /\ Opened /\ Kept /\ StreamRight /\ FileRight

\* Sequences of units, one after another.
LEMMA Concat ==
  \A a, b, c \in Seq(Unit) :
    /\ a \o b \in Seq(Unit) /\ Len(a \o b) = Len(a) + Len(b)
    /\ (a \o b) \o c = a \o (b \o c) /\ a \o <<>> = a /\ <<>> \o a = a
<1> HIDE DEF Unit
<1> TAKE a, b, c \in Seq(Unit)
<1>1. a \o b \in Seq(Unit) /\ Len(a \o b) = Len(a) + Len(b)
  BY ConcatProperties
<1>2. (a \o b) \o c = a \o (b \o c)
  BY ConcatAssociative
<1>3. a \o <<>> = a /\ <<>> \o a = a
  BY ConcatEmptySeq
<1> QED
  BY <1>1, <1>2, <1>3

\* A unit goes from the head of a sequence to the end of another.
LEMMA TakeOne ==
  ASSUME NEW r \in Seq(Unit), NEW f \in Seq(Unit), f # <<>>
  PROVE  /\ Append(r, Head(f)) \in Seq(Unit) /\ Len(Append(r, Head(f))) = Len(r) + 1
         /\ Tail(f) \in Seq(Unit)
         /\ Append(r, Head(f)) \o Tail(f) = r \o f
<1> HIDE DEF Unit
<1>1. Head(f) \in Unit /\ Head(f) = f[1] /\ Tail(f) \in Seq(Unit) /\ Len(Tail(f)) = Len(f) - 1
      /\ \A i \in 1 .. Len(f) - 1 : Tail(f)[i] = f[i + 1]
  BY HeadTailProperties
<1> DEFINE a == Append(r, Head(f))
           b == Tail(f)
<1>2. a \in Seq(Unit) /\ Len(a) = Len(r) + 1 /\ a[Len(r) + 1] = f[1]
      /\ \A i \in 1 .. Len(r) : a[i] = r[i]
  BY <1>1
<1>3. b \in Seq(Unit) /\ Len(b) = Len(f) - 1 /\ \A i \in 1 .. Len(f) - 1 : b[i] = f[i + 1]
  BY <1>1
<1> HIDE DEF a, b
<1>4. Len(r) \in Nat /\ Len(f) \in Nat /\ Len(f) > 0
  BY EmptySeq
<1>5. /\ a \o b \in Seq(Unit) /\ Len(a \o b) = Len(r) + Len(f)
      /\ \A i \in 1 .. Len(r) + Len(f) : (a \o b)[i] =
           IF i <= Len(r) + 1 THEN a[i] ELSE b[i - (Len(r) + 1)]
  <2>1. /\ a \o b \in Seq(Unit) /\ Len(a \o b) = Len(a) + Len(b)
        /\ \A i \in 1 .. Len(a) + Len(b) : (a \o b)[i] =
             IF i <= Len(a) THEN a[i] ELSE b[i - Len(a)]
    BY <1>2, <1>3, ConcatProperties
  <2>2. Len(a) = Len(r) + 1 /\ Len(a) + Len(b) = Len(r) + Len(f)
    BY <1>2, <1>3, <1>4
  <2> QED
    BY <2>1, <2>2
<1>6. /\ r \o f \in Seq(Unit) /\ Len(r \o f) = Len(r) + Len(f)
      /\ \A i \in 1 .. Len(r) + Len(f) : (r \o f)[i] = IF i <= Len(r) THEN r[i] ELSE f[i - Len(r)]
  BY <1>4, ConcatProperties
<1>7. \A i \in 1 .. Len(r) + Len(f) : (a \o b)[i] = (r \o f)[i]
  <2> TAKE i \in 1 .. Len(r) + Len(f)
  <2>1. CASE i <= Len(r)
    BY <1>2, <1>4, <1>5, <1>6, <2>1
  <2>2. CASE i = Len(r) + 1
    <3>1. i - Len(r) = 1 /\ i <= Len(r) + 1 /\ ~(i <= Len(r))
      BY <1>4, <2>2
    <3> QED
      BY <1>2, <1>5, <1>6, <2>2, <3>1
  <2>3. CASE i > Len(r) + 1
    <3>1. /\ i - (Len(r) + 1) \in 1 .. Len(f) - 1 /\ i - (Len(r) + 1) + 1 = i - Len(r)
          /\ ~(i <= Len(r) + 1) /\ ~(i <= Len(r))
      BY <1>4, <2>3
    <3>2. b[i - (Len(r) + 1)] = f[i - (Len(r) + 1) + 1]
      BY <1>3, <3>1
    <3>3. (a \o b)[i] = b[i - (Len(r) + 1)] /\ (r \o f)[i] = f[i - Len(r)]
      BY <1>5, <1>6, <3>1
    <3> QED
      BY <3>1, <3>2, <3>3
  <2>4. i <= Len(r) \/ i = Len(r) + 1 \/ i > Len(r) + 1
    BY <1>4
  <2> QED
    BY <2>1, <2>2, <2>3, <2>4
<1>8. a \o b = r \o f
  BY <1>5, <1>6, <1>7, SeqEqual
<1> QED
  BY <1>2, <1>3, <1>8 DEF a, b

\* The first state: the FIFO and the file are empty.
LEMMA FifoInit == ASSUME Chunks \in Nat, F!Init PROVE FifoInv
<1>1. FifoTyped /\ Opened /\ Kept
  <2>1. <<>> \in Seq(Unit)
    OBVIOUS
  <2> QED
    BY <2>1 DEF F!Init, FifoTyped, Opened, Kept
<1>2. \A r \in Rows : file[r] = <<>>
  BY DEF F!Init
<1>3. \A r \in Rows : F!Complete(r, file[r]) /\ Len(file[r]) \div 2 = 0
  <2>1. Len(<<>>) % 2 = 0 /\ Len(<<>>) \div 2 = 0
    OBVIOUS
  <2>2. \A r \in Rows : F!Complete(r, <<>>)
    BY <2>1 DEF F!Complete
  <2> QED
    BY <1>2, <2>1, <2>2
<1>4. \A w \in Producers : Stream(w) = <<>>
  <2>1. <<>> \o <<>> \o <<>> = <<>>
    OBVIOUS
  <2> QED
    BY <2>1 DEF Stream, F!Init
<1>5. \A p \in Producers : InFile[p] = {} /\ Begun[p] = 0
  <2>1. \A p \in Producers : row_num[p] \in Rows
    BY DEF F!Init
  <2> QED
    <3>1. \A p \in Producers : F!Stored(p, file[row_num[p]], 0) = {}
      BY DEF F!Stored
    <3>2. \A p \in Producers : InFile[p] = {}
      BY <1>3, <2>1, <3>1 DEF InFile
    <3>3. \A p \in Producers : Begun[p] = 0
      BY DEF Begun, Cutting, F!Init
    <3> QED
      BY <3>2, <3>3
<1>6. Follows(<<>>, 0, InFile, Begun)
  BY <1>5 DEF Follows, Among
<1> QED
  BY <1>1, <1>3, <1>4, <1>6 DEF FifoInv, StreamRight, FileRight

\* How many records each producer has written, or begun to write.
LEMMA BegunTyped == ASSUME FifoInv PROVE Begun \in [Producers -> Nat]
<1>1. \A p \in Producers : cut[p] \in 0 .. Chunks
  BY DEF FifoInv, FifoTyped
<1>2. \A p \in Producers : at[p] \in Cutting => cut[p] > 0
  BY DEF FifoInv, Opened, Cutting
<1>3. \A p \in Producers : cut[p] \in Nat /\ (at[p] \in Cutting => cut[p] - 1 \in Nat)
  BY <1>1, <1>2
<1> QED
  BY <1>3 DEF Begun

\* The stream is as it was: so is the invariant.
LEMMA StreamKept ==
  ASSUME FifoInv, FifoTyped', UNCHANGED <<large, row_num, file>>,
         consumer' # "ended" => consumer # "ended",
         \A p \in Producers : cut[p] <= cut'[p],
         consumer' # "ended" =>
           /\ \A w \in Producers : Alone(w)' => Stream(w)' = Stream(w)
           /\ Begun' = Begun
  PROVE  StreamRight' /\ FileRight'
<1>1. \A w \in Producers : Alone(w)' => Alone(w)
  BY DEF Alone, FifoInv, FifoTyped
<1>2. InFile' = InFile
  BY DEF InFile
<1>3. FileRight'
  <2> SUFFICES ASSUME NEW w \in Producers, Alone(w)', NEW r \in Rows
               PROVE  F!Complete(r, file[r])'
    BY DEF FileRight, FifoInv, FifoTyped
  <2>1. F!Complete(r, file[r])
    BY <1>1 DEF FifoInv, FileRight
  <2> QED
    BY <2>1 DEF F!Complete
<1>4. StreamRight'
  <2> SUFFICES ASSUME consumer' # "ended", NEW w \in Producers, Alone(w)'
               PROVE  \E q \in Nat : Follows(Stream(w)', q, InFile', Begun')
    BY DEF StreamRight
  <2>1. PICK q \in Nat : Follows(Stream(w), q, InFile, Begun)
    BY <1>1 DEF FifoInv, StreamRight
  <2> QED
    BY <1>2, <2>1
<1> QED
  BY <1>3, <1>4

\* Record n of producer p has been written: it is new at the end of the stream.
LEMMA StreamGrows ==
  ASSUME FifoInv, Chunks \in Nat, UNCHANGED <<large, row_num, file, cut, consumer>>,
         NEW p \in Producers, NEW n \in 1 .. Chunks, n = Begun[p] + 1,
         large => cut[p] > 0,
         \A w \in Producers : ~large \/ w = p => Stream(w)' = Stream(w) \o Triple(p, n),
         Begun' = [Begun EXCEPT ![p] = n]
  PROVE  StreamRight' /\ FileRight'
<1>1. \A w \in Producers : Alone(w)' => Alone(w) /\ (~large \/ w = p)
  BY DEF Alone, FifoInv, FifoTyped
<1>2. InFile' = InFile
  BY DEF InFile
<1>3. FileRight'
  <2> SUFFICES ASSUME NEW w \in Producers, Alone(w)', NEW r \in Rows
               PROVE  F!Complete(r, file[r])'
    BY DEF FileRight, FifoInv, FifoTyped
  <2>1. F!Complete(r, file[r])
    BY <1>1 DEF FifoInv, FileRight
  <2> QED
    BY <2>1 DEF F!Complete
<1>4. StreamRight'
  <2> SUFFICES ASSUME consumer # "ended", NEW w \in Producers, Alone(w)'
               PROVE  \E q \in Nat : Follows(Stream(w)', q, InFile', Begun')
    BY DEF StreamRight
  <2>1. PICK q \in Nat : Follows(Stream(w), q, InFile, Begun)
    BY <1>1 DEF FifoInv, StreamRight
  <2>2. Stream(w) \in Seq(Unit)
    BY ConcatProperties DEF FifoInv, FifoTyped, Stream
  <2>3. Begun \in [Producers -> Nat]
    BY BegunTyped
  <2>4. Follows(Stream(w) \o Triple(p, n), q + 1, InFile, [Begun EXCEPT ![p] = n])
    BY <2>1, <2>2, <2>3, FollowsAppend
  <2>5. Stream(w)' = Stream(w) \o Triple(p, n)
    BY <1>1
  <2> QED
    BY <1>2, <2>4, <2>5
<1> QED
  BY <1>3, <1>4

\* A producer opens the FIFO, or takes or gives back the lock.
LEMMA ProducerGoes ==
  ASSUME FifoInv, Chunks \in Nat, NEW p \in Producers,
         F!FopenProducer(p) \/ F!OpenedProducer(p) \/ F!Lock(p) \/ F!Unlock(p)
  PROVE  FifoInv'
<1>1. PICK from \in {"starts", "opens", "locks", "unlocks"},
           to \in {"opens", "reads", "writes", "flushes"} :
        /\ at[p] = from /\ at' = [at EXCEPT ![p] = to]
        /\ <<from, to>> \in
             {<<"starts", "opens">>, <<"opens", "reads">>, <<"locks", "writes">>,
              <<"unlocks", "flushes">>}
        /\ to = "reads" => consumer # "starts"
        /\ UNCHANGED <<large, row_num, cut, buffer, fifo, consumer, record, file>>
  BY DEF F!FopenProducer, F!OpenedProducer, F!Lock, F!Unlock, F!Goes, F!HasReader, F!consuming
<1>2. /\ at \in [Producers -> {"starts", "opens", "reads", "locks", "writes", "unlocks", "flushes",
                               "ended"}]
      /\ \A x \in Producers : at'[x] = IF x = p THEN to ELSE at[x]
  BY <1>1 DEF FifoInv, FifoTyped
<1>3. FifoTyped'
  BY <1>1 DEF FifoInv, FifoTyped
<1>4. Opened'
  BY <1>1, <1>2 DEF FifoInv, Opened
<1>5. \A x \in Producers :
        (at'[x] \in {"unlocks", "flushes"}) = (at[x] \in {"unlocks", "flushes"})
  BY <1>1, <1>2
<1>6. Kept'
  BY <1>1, <1>5 DEF FifoInv, Kept
<1>7. Begun' = Begun
  <2>1. \A x \in Producers :
          Begun'[x] = Begun[x]
    BY <1>1, <1>2 DEF Begun, Cutting
  <2> QED
    BY <2>1 DEF Begun
<1>8. \A w \in Producers : Stream(w)' = Stream(w)
  BY <1>1 DEF Stream
<1>9. StreamRight' /\ FileRight'
  BY <1>1, <1>3, <1>7, <1>8, StreamKept DEF FifoInv, FifoTyped
<1> QED
  BY <1>3, <1>4, <1>6, <1>9 DEF FifoInv

\* A producer cuts the next record, or ends at the end of its file.
LEMMA FreadKeeps ==
  ASSUME FifoInv, Chunks \in Nat, NEW p \in Producers, F!Fread(p)
  PROVE  FifoInv'
<1>1. /\ at[p] = "reads"
      /\ UNCHANGED <<large, row_num, buffer, fifo, consumer, record, file>>
      /\ \/ /\ cut[p] < Chunks /\ cut' = [cut EXCEPT ![p] = @ + 1]
            /\ at' = [at EXCEPT ![p] = "locks"]
         \/ cut' = cut /\ at' = [at EXCEPT ![p] = "ended"]
  BY DEF F!Fread, F!Goes, F!consuming
<1>2. /\ \A x \in Producers : cut[x] \in 0 .. Chunks
      /\ at \in [Producers -> {"starts", "opens", "reads", "locks", "writes", "unlocks", "flushes",
                               "ended"}]
  BY DEF FifoInv, FifoTyped
<1>3. PICK to \in {"locks", "ended"}, n \in 0 .. Chunks :
        /\ at' = [at EXCEPT ![p] = to] /\ cut' = [cut EXCEPT ![p] = n]
        /\ n = IF to = "locks" THEN cut[p] + 1 ELSE cut[p]
  <2>1. CASE cut[p] < Chunks /\ cut' = [cut EXCEPT ![p] = @ + 1] /\ at' = [at EXCEPT ![p] = "locks"]
    <3>1. cut[p] + 1 \in 0 .. Chunks /\ cut' = [cut EXCEPT ![p] = cut[p] + 1]
      BY <1>2, <2>1
    <3> QED
      BY <2>1, <3>1
  <2>2. CASE cut' = cut /\ at' = [at EXCEPT ![p] = "ended"]
    <3>1. cut' = [cut EXCEPT ![p] = cut[p]]
      BY <2>2 DEF FifoInv, FifoTyped
    <3> QED
      BY <1>2, <2>2, <3>1
  <2> QED
    BY <1>1, <2>1, <2>2
<1>4. \A x \in Producers : /\ at'[x] = IF x = p THEN to ELSE at[x]
                           /\ cut'[x] = IF x = p THEN n ELSE cut[x]
  BY <1>2, <1>3 DEF FifoInv, FifoTyped
<1>5. FifoTyped'
  BY <1>1, <1>3 DEF FifoInv, FifoTyped
<1>6. Opened'
  BY <1>1, <1>2, <1>3, <1>4 DEF FifoInv, Opened
<1>7. Kept'
  BY <1>1, <1>4 DEF FifoInv, Kept
<1>8. Begun' = Begun
  <2>1. \A x \in Producers : Begun'[x] = Begun[x]
    BY <1>1, <1>2, <1>3, <1>4 DEF Begun, Cutting
  <2> QED
    BY <2>1 DEF Begun
<1>9. \A w \in Producers : Stream(w)' = Stream(w)
  BY <1>1 DEF Stream
<1>10. \A x \in Producers : cut[x] <= cut'[x]
  BY <1>2, <1>3, <1>4
<1>11. StreamRight' /\ FileRight'
  BY <1>1, <1>5, <1>8, <1>9, <1>10, StreamKept
<1> QED
  BY <1>5, <1>6, <1>7, <1>11 DEF FifoInv

\* fwrite and fflush: a small record arrives with fflush, the header and first part of a
\* large one with fwrite; its second part, in the buffer until fflush, is in the stream.
LEMMA FwriteKeeps ==
  ASSUME FifoInv, Chunks \in Nat, NEW p \in Producers, F!Fwrite(p)
  PROVE  FifoInv'
<1> DEFINE n == cut[p]
           written == IF large THEN <<F!Header(p), F!Part(p, n, 1)>> ELSE <<>>
           kept == IF large THEN <<F!Part(p, n, 2)>> ELSE Triple(p, n)
<1>1. /\ at[p] = "writes" /\ at' = [at EXCEPT ![p] = "unlocks"]
      /\ fifo' = fifo \o written /\ buffer' = [buffer EXCEPT ![p] = kept]
      /\ UNCHANGED <<cut, large, row_num, consumer, record, file>>
  BY DEF F!Fwrite, F!Goes, F!consuming, Triple
<1>2. n \in 1 .. Chunks
  BY <1>1 DEF FifoInv, FifoTyped, Opened
<1>3. /\ F!Header(p) \in Unit /\ F!Part(p, n, 1) \in Unit /\ F!Part(p, n, 2) \in Unit
      /\ Triple(p, n) \in Seq(Unit)
  BY <1>2, PartIs
<1>4. written \in Seq(Unit) /\ kept \in Seq(Unit)
  BY <1>3
<1>5. /\ record \in Seq(Unit) /\ fifo \in Seq(Unit) /\ fifo' \in Seq(Unit)
  BY <1>1, <1>4, ConcatProperties DEF FifoInv, FifoTyped
<1>6. \A x \in Producers :
        /\ at'[x] = IF x = p THEN "unlocks" ELSE at[x]
        /\ buffer'[x] = IF x = p THEN kept ELSE buffer[x]
  BY <1>1 DEF FifoInv, FifoTyped
<1>7. FifoTyped'
  BY <1>1, <1>4, <1>5 DEF FifoInv, FifoTyped
<1>8. Opened'
  BY <1>1, <1>6 DEF FifoInv, Opened
<1>9. Kept'
  BY <1>1, <1>6 DEF FifoInv, Kept
<1>10. CASE ~large
  <2>1. Begun' = Begun
    <3>1. \A x \in Producers : Begun'[x] = Begun[x]
      BY <1>1, <1>6, <1>10 DEF Begun, Cutting
    <3> QED
      BY <3>1 DEF Begun
  <2>2. \A w \in Producers : Stream(w)' = Stream(w)
    <3>1. fifo' = fifo
      BY <1>1, <1>5, <1>10, ConcatEmptySeq
    <3> QED
      BY <1>1, <1>10, <3>1 DEF Stream
  <2>3. StreamRight' /\ FileRight'
    BY <1>1, <1>7, <2>1, <2>2, StreamKept DEF FifoInv, FifoTyped
  <2> QED
    BY <1>7, <1>8, <1>9, <2>3 DEF FifoInv
<1>11. CASE large
  <2>1. CASE consumer = "ended"
    <3>1. StreamRight' /\ FileRight'
      BY <1>1, <1>7, <2>1, StreamKept DEF FifoInv, FifoTyped
    <3> QED
      BY <1>7, <1>8, <1>9, <3>1 DEF FifoInv
  <2>2. CASE consumer # "ended"
    <3>1. Begun' = [Begun EXCEPT ![p] = n] /\ n = Begun[p] + 1
      <4>1. Begun[p] = n - 1 /\ \A x \in Producers : Begun'[x] = IF x = p THEN n ELSE Begun[x]
        BY <1>1, <1>6, <1>11 DEF Begun, Cutting
      <4>2. DOMAIN Begun = Producers /\ DOMAIN Begun' = Producers
            /\ Begun = [x \in Producers |-> Begun[x]] /\ Begun' = [x \in Producers |-> Begun'[x]]
        BY DEF Begun
      <4> HIDE DEF n
      <4> QED
        BY <1>2, <4>1, <4>2
    <3>2. Stream(p)' = Stream(p) \o Triple(p, n)
      <4>1. buffer[p] = <<>>
        BY <1>1, <2>2 DEF FifoInv, Kept
      <4>2. Stream(p) = record \o fifo
        <5>1. Stream(p) = record \o fifo \o <<>>
          BY <1>11, <4>1 DEF Stream
        <5>2. record \o fifo \in Seq(Unit)
          BY <1>5, ConcatProperties
        <5> QED
          BY <5>1, <5>2, ConcatEmptySeq
      <4> DEFINE first == <<F!Header(p), F!Part(p, n, 1)>>
                 last == <<F!Part(p, n, 2)>>
      <4>3. Stream(p)' = record \o (fifo \o first) \o last
        BY <1>1, <1>6, <1>11 DEF Stream
      <4>4. first \in Seq(Unit) /\ last \in Seq(Unit) /\ first \o last = Triple(p, n)
        <5> HIDE DEF n, Unit
        <5>1. \A a, b, c \in Unit : <<a, b>> \o <<c>> = <<a, b, c>>
          <6> TAKE a, b, c \in Unit
          <6> DEFINE s == <<a, b>> \o <<c>>
                     t == <<a, b, c>>
          <6>1. s \in Seq(Unit) /\ Len(s) = 3 /\ s[1] = a /\ s[2] = b /\ s[3] = c
            OBVIOUS
          <6>2. t \in Seq(Unit) /\ Len(t) = 3 /\ t[1] = a /\ t[2] = b /\ t[3] = c
            OBVIOUS
          <6> HIDE DEF s, t
          <6>3. \A i \in 1 .. 3 : s[i] = t[i]
            BY <6>1, <6>2
          <6>4. s = t
            BY <6>1, <6>2, <6>3, SeqEqual
          <6> QED
            BY <6>4 DEF s, t
        <5> QED
          BY <1>3, <5>1 DEF Triple
      <4> HIDE DEF first, last, n
      <4>5. record \o (fifo \o first) = (record \o fifo) \o first
        <5>1. record \in Seq(Unit) /\ fifo \in Seq(Unit) /\ first \in Seq(Unit)
          BY <1>5, <4>4
        <5> QED
          BY <5>1, Concat
      <4>6. record \o fifo \in Seq(Unit)
        BY <1>5, ConcatProperties
      <4>7. ((record \o fifo) \o first) \o last = (record \o fifo) \o (first \o last)
        <5>1. first \in Seq(Unit) /\ last \in Seq(Unit)
          BY <4>4
        <5> QED
          BY SMTT(60), <4>6, <5>1, Concat
      <4> QED
        BY <4>2, <4>3, <4>4, <4>5, <4>7
    <3>3. \A w \in Producers : ~large \/ w = p => Stream(w)' = Stream(w) \o Triple(p, n)
      BY <1>11, <3>2
    <3>4. large => cut[p] > 0
      BY <1>2
    <3>5. StreamRight' /\ FileRight'
      <4> HIDE DEF n
      <4> QED
        BY <1>1, <1>2, <3>1, <3>3, <3>4, StreamGrows
    <3> QED
      BY <1>7, <1>8, <1>9, <3>5 DEF FifoInv
  <2> QED
    BY <2>1, <2>2
<1> QED
  BY <1>10, <1>11

\* fflush writes what fwrite has left: a small record, or the end of a large one.
LEMMA FflushKeeps ==
  ASSUME FifoInv, Chunks \in Nat, NEW p \in Producers, F!Fflush(p)
  PROVE  FifoInv'
<1> DEFINE n == cut[p]
<1>1. /\ at[p] = "flushes" /\ at' = [at EXCEPT ![p] = "reads"]
      /\ fifo' = fifo \o buffer[p] /\ buffer' = [buffer EXCEPT ![p] = <<>>]
      /\ UNCHANGED <<cut, large, row_num, consumer, record, file>>
  BY DEF F!Fflush, F!Goes, F!consuming
<1>2. n \in 1 .. Chunks
  BY <1>1 DEF FifoInv, FifoTyped, Opened
<1>3. /\ record \in Seq(Unit) /\ fifo \in Seq(Unit) /\ buffer[p] \in Seq(Unit)
      /\ fifo' \in Seq(Unit) /\ record \o fifo \in Seq(Unit) /\ <<>> \in Seq(Unit)
  BY <1>1, Concat DEF FifoInv, FifoTyped
<1>4. \A x \in Producers :
        /\ at'[x] = IF x = p THEN "reads" ELSE at[x]
        /\ buffer'[x] = IF x = p THEN <<>> ELSE buffer[x]
  BY <1>1 DEF FifoInv, FifoTyped
<1>5. FifoTyped'
  BY <1>1, <1>3 DEF FifoInv, FifoTyped
<1>6. Opened'
  BY <1>1, <1>4 DEF FifoInv, Opened
<1>7. Kept'
  BY <1>1, <1>4 DEF FifoInv, Kept
<1>8. CASE consumer = "ended"
  <2>1. \A x \in Producers : cut[x] <= cut'[x]
    BY <1>1 DEF FifoInv, FifoTyped
  <2>2. StreamRight' /\ FileRight'
    BY <1>1, <1>5, <1>8, <2>1, StreamKept
  <2> QED
    BY <1>5, <1>6, <1>7, <2>2 DEF FifoInv
<1>9. CASE consumer # "ended" /\ large
  <2>1. Begun' = Begun
    <3>1. \A x \in Producers : Begun'[x] = Begun[x]
      BY <1>1, <1>4, <1>9 DEF Begun, Cutting
    <3> QED
      BY <3>1 DEF Begun
  <2>2. \A w \in Producers : Alone(w)' => Stream(w)' = Stream(w)
    <3> SUFFICES ASSUME NEW w \in Producers, Alone(w)' PROVE Stream(w)' = Stream(w)
      OBVIOUS
    <3>1. w = p
      BY <1>1, <1>2, <1>9 DEF Alone
    <3>2. Stream(p)' = record \o (fifo \o buffer[p]) \o <<>>
      BY <1>1, <1>4, <1>9 DEF Stream
    <3>3. Stream(p) = record \o fifo \o buffer[p]
      BY <1>9 DEF Stream
    <3>4. record \o (fifo \o buffer[p]) \in Seq(Unit)
      BY <1>1, <1>3, Concat
    <3>5. record \o (fifo \o buffer[p]) \o <<>> = record \o (fifo \o buffer[p])
      BY <1>3, <3>4, Concat
    <3>6. record \o (fifo \o buffer[p]) = record \o fifo \o buffer[p]
      <4>1. \A b \in Seq(Unit) : record \o (fifo \o b) = record \o fifo \o b
        BY SMTT(60), <1>3, Concat
      <4> QED
        BY <1>3, <4>1
    <3> QED
      BY <3>1, <3>2, <3>3, <3>5, <3>6
  <2>3. \A x \in Producers : cut[x] <= cut'[x]
    BY <1>1 DEF FifoInv, FifoTyped
  <2>4. StreamRight' /\ FileRight'
    BY <1>1, <1>5, <2>1, <2>2, <2>3, StreamKept
  <2> QED
    BY <1>5, <1>6, <1>7, <2>4 DEF FifoInv
<1>10. CASE consumer # "ended" /\ ~large
  <2>1. Begun' = [Begun EXCEPT ![p] = n] /\ n = Begun[p] + 1
    <3>1. Begun[p] = n - 1 /\ \A x \in Producers : Begun'[x] = IF x = p THEN n ELSE Begun[x]
      BY <1>1, <1>4, <1>10 DEF Begun, Cutting
    <3>2. Begun = [x \in Producers |-> Begun[x]] /\ Begun' = [x \in Producers |-> Begun'[x]]
      BY DEF Begun
    <3> HIDE DEF n
    <3> QED
      BY <1>2, <3>1, <3>2
  <2>2. \A w \in Producers : Stream(w)' = Stream(w) \o Triple(p, n)
    <3> TAKE w \in Producers
    <3>1. buffer[p] = Triple(p, n)
      BY <1>1, <1>10 DEF FifoInv, Kept
    <3>2. Stream(w) = record \o fifo /\ Stream(w)' = record \o (fifo \o buffer[p])
      <4>1. Stream(w) = record \o fifo \o <<>> /\ Stream(w)' = record \o (fifo \o buffer[p]) \o <<>>
        BY <1>1, <1>10 DEF Stream
      <4>2. fifo \o buffer[p] \in Seq(Unit) /\ record \o (fifo \o buffer[p]) \in Seq(Unit)
        BY <1>1, <1>3, Concat
      <4> QED
        BY <1>3, <4>1, <4>2, Concat
    <3>3. record \o (fifo \o buffer[p]) = (record \o fifo) \o buffer[p]
      <4>1. \A b \in Seq(Unit) : record \o (fifo \o b) = (record \o fifo) \o b
        BY SMTT(60), <1>3, Concat
      <4> QED
        BY <1>3, <4>1
    <3> QED
      BY <3>1, <3>2, <3>3
  <2>3. StreamRight' /\ FileRight'
    <3> HIDE DEF n
    <3> QED
      BY <1>1, <1>2, <1>10, <2>1, <2>2, StreamGrows
  <2> QED
    BY <1>5, <1>6, <1>7, <2>3 DEF FifoInv
<1> QED
  BY <1>8, <1>9, <1>10

\* A producer that writes to nobody is ended; the consumer has ended before.
LEMMA SigpipeKeeps ==
  ASSUME FifoInv, Chunks \in Nat, NEW p \in Producers, F!Sigpipe(p)
  PROVE  FifoInv'
<1>1. /\ at[p] \in {"writes", "flushes"} /\ at' = [at EXCEPT ![p] = "ended"]
      /\ consumer \in {"starts", "ended"}
      /\ UNCHANGED <<cut, buffer, fifo, large, row_num, consumer, record, file>>
  BY DEF F!Sigpipe, F!Goes, F!consuming, F!HasReader
<1>2. consumer = "ended"
  BY <1>1 DEF FifoInv, Opened
<1>3. \A x \in Producers : at'[x] = IF x = p THEN "ended" ELSE at[x]
  BY <1>1 DEF FifoInv, FifoTyped
<1>4. FifoTyped'
  BY <1>1 DEF FifoInv, FifoTyped
<1>5. Opened' /\ Kept'
  BY <1>1, <1>2, <1>3 DEF FifoInv, Opened, Kept
<1>6. \A x \in Producers : cut[x] <= cut'[x]
  BY <1>1 DEF FifoInv, FifoTyped
<1>7. StreamRight' /\ FileRight'
  BY <1>1, <1>2, <1>4, <1>6, StreamKept
<1> QED
  BY <1>4, <1>5, <1>7 DEF FifoInv

\* The consumer opens the FIFO, or takes something out of it, or ends.
LEMMA ConsumerTakes ==
  ASSUME FifoInv, Chunks \in Nat,
         F!FopenConsumer \/ F!OpenedConsumer \/ F!ReadRow \/ F!ReadContent \/ F!Eof
  PROVE  FifoInv'
<1>1. /\ UNCHANGED <<large, row_num, at, cut, buffer, file>>
      /\ consumer' \in {"opens", "row", "content", "ended"}
      /\ consumer # "ended"
  BY DEF F!FopenConsumer, F!OpenedConsumer, F!ReadRow, F!ReadContent, F!Eof, F!producing,
         FifoInv, FifoTyped
<1>2. record \in Seq(Unit) /\ fifo \in Seq(Unit) /\ \A w \in Producers : buffer[w] \in Seq(Unit)
  BY DEF FifoInv, FifoTyped
<1>3. consumer # "content" => record = <<>>
  BY <1>1 DEF FifoInv, Kept
<1>4. consumer \in {"row", "content"} => Len(record) \in Nat
  BY <1>2
<1>5. \/ fifo' = fifo /\ record' = record /\ consumer' \in {"opens", "row"} /\ record = <<>>
      \/ fifo' = fifo /\ record' = record /\ consumer' = "ended"
      \/ fifo # <<>> /\ fifo' = Tail(fifo) /\ record' = record /\ consumer' = "ended"
      \/ /\ fifo # <<>> /\ fifo' = Tail(fifo) /\ record' = Append(record, Head(fifo))
         /\ consumer' = "content" /\ Len(record) < 3
  <2>1. CASE F!FopenConsumer \/ F!OpenedConsumer \/ F!Eof
    BY <1>3, <2>1 DEF F!FopenConsumer, F!OpenedConsumer, F!Eof
  <2>2. CASE F!ReadRow
    <3>1. record = <<>> /\ Len(record) < 3
      BY <1>3, <2>2 DEF F!ReadRow
    <3>2. <<Head(fifo)>> = Append(record, Head(fifo))
      BY <3>1
    <3> QED
      BY <2>2, <3>1, <3>2 DEF F!ReadRow
  <2>3. CASE F!ReadContent
    BY <2>3 DEF F!ReadContent
  <2> QED
    BY <2>1, <2>2, <2>3
<1>6. fifo # <<>> => /\ Append(record, Head(fifo)) \in Seq(Unit)
                     /\ Len(Append(record, Head(fifo))) = Len(record) + 1
                     /\ Tail(fifo) \in Seq(Unit)
                     /\ Append(record, Head(fifo)) \o Tail(fifo) = record \o fifo
  BY <1>2, TakeOne
<1>7. record' \in Seq(Unit) /\ fifo' \in Seq(Unit)
  BY <1>2, <1>5, <1>6
<1>8. FifoTyped'
  BY <1>1, <1>7 DEF FifoInv, FifoTyped
<1>9. Opened'
  BY <1>1 DEF FifoInv, Opened
<1>10. Kept'
  <2>1. Len(record) \in Nat
    BY <1>2
  <2>2. consumer' = "content" => Len(record') \in 1 .. 3
    <3> DEFINE longer == Append(record, Head(fifo))
    <3>1. fifo # <<>> => Len(longer) = Len(record) + 1
      BY <1>6
    <3>2. consumer' = "content" => fifo # <<>> /\ record' = longer /\ Len(record) < 3
      BY <1>5
    <3> HIDE DEF longer
    <3> QED
      BY <2>1, <3>1, <3>2
  <2>3. consumer' \notin {"content", "ended"} => record' = <<>>
    BY <1>5
  <2> QED
    BY <1>1, <2>2, <2>3 DEF FifoInv, Kept
<1>11. consumer' # "ended" => \A w \in Producers : Stream(w)' = Stream(w)
  <2>1. consumer' # "ended" => record' \o fifo' = record \o fifo
    BY <1>5, <1>6
  <2> QED
    BY <1>1, <2>1 DEF Stream
<1>12. Begun' = Begun
  BY <1>1 DEF Begun, Cutting
<1>13. \A x \in Producers : cut[x] <= cut'[x]
  BY <1>1 DEF FifoInv, FifoTyped
<1>14. StreamRight' /\ FileRight'
  BY <1>1, <1>8, <1>11, <1>12, <1>13, StreamKept
<1> QED
  BY <1>8, <1>9, <1>10, <1>14 DEF FifoInv

\* What comes after a record that is taken out of a stream.
LEMMA AfterRecord ==
  ASSUME NEW r \in Seq(Unit), NEW f \in Seq(Unit), NEW b \in Seq(Unit), Len(r) = 3
  PROVE  /\ r \o f \o b \in Seq(Unit) /\ <<>> \o f \o b \in Seq(Unit)
         /\ Len(<<>> \o f \o b) = Len(r \o f \o b) - 3 /\ Len(<<>> \o f \o b) \in Nat
         /\ \A i \in 1 .. 3 : (r \o f \o b)[i] = r[i]
         /\ \A i \in 1 .. Len(<<>> \o f \o b) : (<<>> \o f \o b)[i] = (r \o f \o b)[i + 3]
<1> HIDE DEF Unit
<1> DEFINE t == f \o b
           s == r \o t
<1>1. r \o f \o b = s /\ <<>> \o f \o b = t
  BY Concat
<1>2. t \in Seq(Unit)
  BY ConcatProperties
<1> HIDE DEF t
<1>3. /\ s \in Seq(Unit) /\ Len(s) = Len(r) + Len(t)
      /\ \A i \in 1 .. Len(r) + Len(t) : s[i] = IF i <= Len(r) THEN r[i] ELSE t[i - Len(r)]
  BY <1>2, ConcatProperties
<1> HIDE DEF s
<1>4. Len(t) \in Nat
  BY <1>2
<1>5. Len(s) = 3 + Len(t)
      /\ \A i \in 1 .. 3 + Len(t) : s[i] = IF i <= 3 THEN r[i] ELSE t[i - 3]
  BY <1>3
<1>6. \A i \in 1 .. 3 : s[i] = r[i]
  BY <1>4, <1>5
<1>7. \A i \in 1 .. Len(t) : t[i] = s[i + 3]
  <2> TAKE i \in 1 .. Len(t)
  <2>1. i + 3 \in 1 .. 3 + Len(t) /\ ~(i + 3 <= 3) /\ i + 3 - 3 = i
    BY <1>4
  <2> QED
    BY <1>5, <2>1
<1> QED
  BY <1>1, <1>2, <1>3, <1>4, <1>5, <1>6, <1>7

\* The consumer stores the record it has read: the first in the stream is the next of its
\* producer in the file.
LEMMA AddLineKeeps ==
  ASSUME FifoInv, Chunks \in Nat, F!AddLine
  PROVE  FifoInv'
<1> HIDE DEF Unit
<1>0. file' = [file EXCEPT ![row_num[record[1].by]] = @ \o Tail(record)]
  BY DEF F!AddLine
<1>1. /\ consumer = "content" /\ consumer' = "row" /\ record' = <<>>
      /\ Len(record) = 3 \/ (Len(record) = 2 /\ F!AtEof)
      /\ UNCHANGED <<large, row_num, at, cut, buffer, fifo>>
  BY DEF F!AddLine, F!Filled, F!producing
<1>2. /\ record \in Seq(Unit) /\ fifo \in Seq(Unit) /\ row_num \in [Producers -> Rows]
      /\ file \in [Rows -> Seq(Unit)] /\ buffer \in [Producers -> Seq(Unit)]
  BY DEF FifoInv, FifoTyped
<1>3. Tail(record) \in Seq(Unit) /\ Len(Tail(record)) = Len(record) - 1
      /\ \A i \in 1 .. Len(record) - 1 : Tail(record)[i] = record[i + 1]
  <2>1. \A a \in Seq(Unit) : Len(a) >= 2 => Tail(a) \in Seq(Unit) /\ Len(Tail(a)) = Len(a) - 1
          /\ \A i \in 1 .. Len(a) - 1 : Tail(a)[i] = a[i + 1]
    <3> SUFFICES ASSUME NEW a \in Seq(Unit), Len(a) >= 2
                 PROVE  /\ Tail(a) \in Seq(Unit) /\ Len(Tail(a)) = Len(a) - 1
                        /\ \A i \in 1 .. Len(a) - 1 : Tail(a)[i] = a[i + 1]
      OBVIOUS
    <3>1. a # <<>>
      OBVIOUS
    <3> QED
      BY <3>1, HeadTailProperties
  <2>2. Len(record) >= 2
    BY <1>1
  <2> QED
    BY <1>2, <2>1, <2>2
<1>4. FifoTyped'
  <2>1. record[1] \in Unit
    BY <1>1, <1>2, ElementOfSeq
  <2>2. record[1].by \in Producers
    BY <2>1 DEF Unit
  <2>3. row_num[record[1].by] \in Rows
    BY <1>2, <2>2
  <2>4. file[row_num[record[1].by]] \o Tail(record) \in Seq(Unit)
    BY <1>2, <1>3, <2>3, ConcatProperties
  <2>5. file' \in [Rows -> Seq(Unit)] /\ record' \in Seq(Unit)
    BY <1>0, <1>1, <1>2, <2>3, <2>4
  <2> QED
    BY <1>1, <2>5 DEF FifoInv, FifoTyped
<1>5. Opened' /\ Kept'
  BY <1>1 DEF FifoInv, Opened, Kept
<1>6. Begun' = Begun
  BY <1>1 DEF Begun, Cutting
<1>7. ASSUME NEW w \in Producers, Alone(w)'
      PROVE  /\ \E q \in Nat : Follows(Stream(w)', q, InFile', Begun')
             /\ \A r \in Rows : F!Complete(r, file[r])'
  <2> DEFINE s == Stream(w)
             b == IF large THEN buffer[w] ELSE <<>>
  <2>1. Alone(w)
    BY <1>1, <1>7 DEF Alone
  <2>2. PICK q \in Nat : Follows(s, q, InFile, Begun)
    BY <1>1, <2>1 DEF FifoInv, StreamRight
  <2>3. s = record \o fifo \o b /\ Stream(w)' = <<>> \o fifo \o b
    BY <1>1 DEF Stream
  <2>4. b \in Seq(Unit)
    BY <1>2
  <2>5. Len(record) = 3
    <3> SUFFICES ASSUME Len(record) = 2, F!AtEof PROVE FALSE
      BY <1>1
    <3>1. fifo = <<>> /\ at[w] \in {"starts", "ended"}
      BY DEF F!AtEof, F!HasWriters
    <3>2. buffer[w] = <<>>
      BY <1>1, <3>1 DEF FifoInv, Kept
    <3>3. s = record
      BY <1>2, <2>3, <3>1, <3>2, Concat
    <3>4. Len(s) = 3 * q
      BY <2>2 DEF Follows
    <3> HIDE DEF s
    <3> QED
      BY <3>3, <3>4
  <2> DEFINE t == Stream(w)'
  <2>6. /\ s \in Seq(Unit) /\ t \in Seq(Unit) /\ Len(t) = Len(s) - 3 /\ Len(t) \in Nat
        /\ \A i \in 1 .. 3 : s[i] = record[i]
        /\ \A i \in 1 .. Len(t) : t[i] = s[i + 3]
    <3> HIDE DEF b, s, t
    <3> DEFINE u == record \o fifo \o b
               v == <<>> \o fifo \o b
    <3>1. /\ u \in Seq(Unit) /\ v \in Seq(Unit)
          /\ Len(v) = Len(u) - 3 /\ Len(v) \in Nat
          /\ \A i \in 1 .. 3 : u[i] = record[i]
          /\ \A i \in 1 .. Len(v) : v[i] = u[i + 3]
      BY <1>2, <2>4, <2>5, AfterRecord
    <3>2. s = u /\ t = v
      BY <2>3 DEF t
    <3> HIDE DEF u, v
    <3> QED
      BY <3>1, <3>2
  <2> HIDE DEF s, t
  <2>7. Len(s) = 3 * q /\ q >= 1 /\ q - 1 \in Nat /\ q = (q - 1) + 1
    BY <2>2, <2>6 DEF Follows
  <2>8. PICK p \in Producers, n \in 1 .. Chunks :
          RecordAt(s, 1, p, n) /\ InFile[p] \union Among(p, s, 0) = 1 .. n - 1
    <3>1. 1 \in 1 .. q /\ 1 - 1 = 0
      BY <2>7
    <3>2. PICK p \in Producers, n \in 1 .. Chunks :
            RecordAt(s, 1, p, n) /\ InFile[p] \union Among(p, s, 1 - 1) = 1 .. n - 1
      BY <2>2, <3>1 DEF Follows
    <3> QED
      BY <3>1, <3>2
  <2>9. InFile[p] = 1 .. n - 1
    <3>1. Among(p, s, 0) = {}
      BY DEF Among
    <3> QED
      BY <2>8, <3>1
  <2>10. record[1] = F!Header(p) /\ record[2] = F!Part(p, n, 1) /\ record[3] = F!Part(p, n, 2)
    <3>1. 3 * 1 - 2 = 1 /\ 3 * 1 - 1 = 2 /\ 3 * 1 = 3
      OBVIOUS
    <3> QED
      BY <2>6, <2>8, <3>1 DEF RecordAt
  <2>11. InFile \in [Producers -> SUBSET Nat]
    <3>1. \A x \in Producers : InFile[x] \subseteq 1 .. Begun[x]
      BY <2>2 DEF Follows
    <3>2. \A x \in Producers : InFile[x] \subseteq Nat
      <4>1. \A x \in Producers : Begun[x] \in Nat
        BY BegunTyped
      <4>2. \A k \in Nat : 1 .. k \subseteq Nat
        OBVIOUS
      <4>3. \A x \in Producers : 1 .. Begun[x] \subseteq Nat
        BY <4>1, <4>2
      <4> QED
        BY <3>1, <4>3
    <3>3. InFile = [x \in Producers |-> InFile[x]]
      BY DEF InFile
    <3> QED
      BY <3>2, <3>3
  <2> DEFINE more == [InFile EXCEPT ![p] = @ \union {n}]
             r == row_num[p]
             old == file[r]
  <2>12. Follows(t, q - 1, more, Begun)
    <3>1. Follows(s, (q - 1) + 1, InFile, Begun)
      BY <2>2, <2>7
    <3>2. n \in Nat /\ RecordAt(s, 1, p, n)
      BY <2>8
    <3>3. s \in Seq(Unit) /\ t \in Seq(Unit) /\ Len(t) = Len(s) - 3
          /\ \A i \in 1 .. Len(t) : t[i] = s[i + 3]
      BY <2>6
    <3> QED
      BY <2>7, <2>11, <3>1, <3>2, <3>3, FollowsDrop
  <2>13. r \in Rows /\ old \in Seq(Unit)
    BY <1>2
  <2>14. file' = [file EXCEPT ![r] = old \o Tail(record)]
    <3>1. record[1].by = p
      BY <2>10, PartIs
    <3> QED
      BY <1>0, <3>1
  <2>15. \A x \in Rows : file'[x] = IF x = r THEN old \o Tail(record) ELSE file[x]
    BY <1>2, <2>13, <2>14
  <2> DEFINE longer == old \o Tail(record)
  <2>16. Tail(record) \in Seq(Unit) /\ Len(Tail(record)) = 2
         /\ Tail(record)[1] = F!Part(p, n, 1) /\ Tail(record)[2] = F!Part(p, n, 2)
    <3> DEFINE u == Tail(record)
    <3>1. 3 - 1 = 2 /\ 1 \in 1 .. 2 /\ 2 \in 1 .. 2 /\ 1 + 1 = 2 /\ 2 + 1 = 3
      OBVIOUS
    <3>2. u \in Seq(Unit) /\ Len(u) = 2 /\ \A i \in 1 .. 2 : u[i] = record[i + 1]
      BY <1>3, <2>5, <3>1
    <3> HIDE DEF u
    <3>3. u[1] = record[2] /\ u[2] = record[3]
      BY <3>1, <3>2
    <3>4. u \in Seq(Unit) /\ Len(u) = 2 /\ u[1] = F!Part(p, n, 1) /\ u[2] = F!Part(p, n, 2)
      BY <2>10, <3>2, <3>3
    <3> QED
      BY <3>4 DEF u
  <2>17. F!Complete(r, old) /\ F!Stored(p, old, Len(old) \div 2) = 1 .. n - 1
    <3>1. F!Complete(r, old)
      BY <2>1, <2>13 DEF FifoInv, FileRight
    <3>2. InFile[p] = F!Stored(p, old, Len(old) \div 2)
      BY DEF InFile
    <3> QED
      BY <2>9, <3>1, <3>2
  <2>18. /\ F!Complete(r, longer)
         /\ \A x \in Producers : F!Stored(x, longer, Len(longer) \div 2) =
              F!Stored(x, old, Len(old) \div 2) \union IF x = p THEN {n} ELSE {}
    <3>1. PICK u \in Seq(Unit) : u = Tail(record)
      BY <2>16
    <3>2. PICK was \in Seq(Unit) : was = old
      BY <2>13
    <3>3. PICK row : row = r
      OBVIOUS
    <3>4. row_num[p] = row
      BY <3>3
    <3> HIDE DEF old, longer, r
    <3>5. F!Complete(row, was) /\ F!Stored(p, was, Len(was) \div 2) = 1 .. n - 1
      BY <2>17, <3>2, <3>3
    <3>6. Len(u) = 2 /\ u[1] = F!Part(p, n, 1) /\ u[2] = F!Part(p, n, 2)
      BY <2>16, <3>1
    <3>7. /\ F!Complete(row, was \o u)
          /\ \A x \in Producers : F!Stored(x, was \o u, Len(was \o u) \div 2) =
               F!Stored(x, was, Len(was) \div 2) \union IF x = p THEN {n} ELSE {}
      BY <3>4, <3>5, <3>6, LineGrows
    <3>8. longer = was \o u
      BY <3>1, <3>2 DEF longer
    <3> QED
      BY <3>2, <3>3, <3>7, <3>8
  <2>19. InFile' = more
    <3>1. \A x \in Producers :
            InFile'[x] = F!Stored(x, file'[row_num[x]], Len(file'[row_num[x]]) \div 2)
      BY <1>1 DEF InFile, F!Stored
    <3>2. \A x \in Producers : more[x] = InFile[x] \union IF x = p THEN {n} ELSE {}
      BY <2>11
    <3>3. \A x \in Producers : InFile'[x] = more[x]
      <4> TAKE x \in Producers
      <4>1. InFile[x] = F!Stored(x, file[row_num[x]], Len(file[row_num[x]]) \div 2)
        BY DEF InFile
      <4>2. row_num[x] \in Rows
        BY <1>2
      <4>3. CASE row_num[x] = r
        <5>1. file'[row_num[x]] = longer /\ file[row_num[x]] = old
          BY <2>15, <4>2, <4>3
        <5> HIDE DEF longer, old, more
        <5>2. F!Stored(x, file'[row_num[x]], Len(file'[row_num[x]]) \div 2)
                = F!Stored(x, longer, Len(longer) \div 2)
          BY <5>1
        <5>3. InFile[x] = F!Stored(x, old, Len(old) \div 2)
          BY <4>1, <5>1
        <5>4. F!Stored(x, longer, Len(longer) \div 2) =
                F!Stored(x, old, Len(old) \div 2) \union IF x = p THEN {n} ELSE {}
          BY <2>18
        <5> QED
          BY <3>1, <3>2, <5>2, <5>3, <5>4
      <4>4. CASE row_num[x] # r
        <5>1. file'[row_num[x]] = file[row_num[x]] /\ x # p
          BY <2>15, <4>2, <4>4
        <5> HIDE DEF more
        <5> QED
          BY <3>1, <3>2, <4>1, <5>1
      <4> QED
        BY <4>3, <4>4
    <3>4. InFile' = [x \in Producers |-> InFile'[x]] /\ more = [x \in Producers |-> more[x]]
      BY <2>11 DEF InFile
    <3> HIDE DEF more
    <3> QED
      BY <3>3, <3>4
  <2>20. \A x \in Rows : F!Complete(x, file[x])'
    <3> TAKE x \in Rows
    <3>1. F!Complete(x, file'[x])
      <4>1. CASE x = r
        BY <2>15, <2>18, <4>1
      <4>2. CASE x # r
        BY <2>1, <2>15, <4>2 DEF FifoInv, FileRight
      <4> QED
        BY <4>1, <4>2
    <3> QED
      BY <1>1, <3>1 DEF F!Complete, F!Stored
  <2> QED
    BY <1>6, <2>7, <2>12, <2>19, <2>20 DEF t
<1>8. StreamRight' /\ FileRight'
  BY <1>7 DEF StreamRight, FileRight
<1> QED
  BY <1>4, <1>5, <1>8 DEF FifoInv

\* Every step of producers and consumer.
LEMMA FifoNext ==
  ASSUME Chunks \in Nat, FifoInv, [F!Next]_(F!vars)
  PROVE  FifoInv'
<1>1. CASE F!read_from_fifo
  BY <1>1, ConsumerTakes, AddLineKeeps DEF F!read_from_fifo
<1>2. ASSUME NEW p \in Producers, F!read_to_fifo(p) PROVE FifoInv'
  BY <1>2, ProducerGoes, FreadKeeps, FwriteKeeps, FflushKeeps, SigpipeKeeps DEF F!read_to_fifo
<1>3. CASE UNCHANGED F!vars
  <2>1. UNCHANGED <<large, row_num, at, cut, buffer, fifo, consumer, record, file>>
    BY <1>3 DEF F!vars
  <2>2. FifoTyped' /\ Opened' /\ Kept'
    BY <2>1 DEF FifoInv, FifoTyped, Opened, Kept
  <2>3. Begun' = Begun /\ \A w \in Producers : Stream(w)' = Stream(w)
    BY <2>1 DEF Begun, Cutting, Stream
  <2>4. \A x \in Producers : cut[x] <= cut'[x]
    BY <2>1 DEF FifoInv, FifoTyped
  <2>5. StreamRight' /\ FileRight'
    BY <2>1, <2>2, <2>3, <2>4, StreamKept
  <2> QED
    BY <2>2, <2>5 DEF FifoInv
<1> QED
  BY <1>1, <1>2, <1>3 DEF F!Next

\* Under the condition of LinesRight some producer writes alone, or records are small.
LEMMA FifoLines == ASSUME FifoInv PROVE F!LinesRight
<1>1. Producers # {} => (~large \/ (\A p, q \in Producers : cut[p] > 0 /\ cut[q] > 0 => p = q) =>
        \E w \in Producers : Alone(w))
  <2>1. \A p \in Producers : cut[p] > 0 \/ cut[p] = 0
    BY DEF FifoInv, FifoTyped
  <2> QED
    BY <2>1 DEF Alone
<1>2. CASE Producers # {}
  BY <1>1, <1>2 DEF FifoInv, FileRight, F!LinesRight
<1>3. CASE Producers = {}
  <2>1. \A r \in Rows : file[r] = <<>>
    <3> TAKE r \in Rows
    <3>1. file[r] \in Seq(Unit)
      BY DEF FifoInv, FifoTyped
    <3>2. Unit = {}
      BY <1>3 DEF Unit
    <3> QED
      BY <3>1, <3>2
  <2>2. Len(<<>>) % 2 = 0 /\ Len(<<>>) \div 2 = 0
    OBVIOUS
  <2>3. \A r \in Rows : F!Complete(r, <<>>)
    BY <2>2 DEF F!Complete
  <2> QED
    BY <2>1, <2>3 DEF F!LinesRight
<1> QED
  BY <1>2, <1>3

\* What the producers and the consumer write, alone.
LEMMA LinesInFifo ==
  ASSUME Chunks \in Nat
  PROVE  F!Spec => []F!LinesRight
<1>1. F!Init => FifoInv
  BY FifoInit
<1>2. FifoInv /\ [F!Next]_(F!vars) => FifoInv'
  BY FifoNext
<1>3. FifoInv => F!LinesRight
  BY FifoLines
<1> QED
  BY <1>1, <1>2, <1>3, PTL DEF F!Spec

\* cw05/zad3: as long as records are small, or only one producer has begun to write, a
\* line of the consumer's file holds whole records of the producers that write to it, each
\* producer's in the order of its file, none missing and none twice.  For any number of
\* producers, rows and records, and any capacity of the FIFO.
THEOREM LinesAreRight ==
  ASSUME Chunks \in Nat
  PROVE  (F!Spec => []F!LinesRight) /\ (SpecOfOne => []LinesRight)
<1>1. InitOfOne => F!Init
  BY DEF InitOfOne, FifoIdle
<1>2. [NextOfOne]_all => [F!Next]_(F!vars)
  BY DEF NextOfOne, InSignals, InPipeline, InFifo, InMain, InNegative, all, fifos, F!vars
<1>3. SpecOfOne => F!Spec
  BY <1>1, <1>2, PTL DEF SpecOfOne, F!Spec
<1>4. F!LinesRight => LinesRight
  BY DEF LinesRight
<1>5. F!Spec => []F!LinesRight
  BY LinesInFifo
<1> QED
  BY <1>3, <1>4, <1>5, PTL
=============================================================================
