------------------------------ MODULE Negative -------------------------------
(****************************************************************************)
(* cw08/zad1: threads_num threads make the negative of an image in place,   *)
(* with no lock.  In mode "block" each has a block of columns of its own.   *)
(* In mode "numbers" every thread looks at every pixel and negates those    *)
(* whose value, or whose negated value if that is the smaller one, is its   *)
(* index modulo threads_num: the value it decides on is read twice, and     *)
(* another thread may negate the pixel in between.                          *)
(*                                                                          *)
(* Each read and each write of a pixel is a step (the program is built      *)
(* without optimisation).  A pixel is a column and a row: i and j of the    *)
(* loops are j = row * width + column.                                      *)
(****************************************************************************)
EXTENDS Integers

CONSTANTS
  Tries,        \* what to try: width and height of the image, and threads_num
  MaxPixel      \* max_pixel, the largest value of a pixel

ASSUME NegativeAssumption ==
  /\ Tries \subseteq (Nat \ {0}) \X (Nat \ {0}) \X (Nat \ {0})
  /\ MaxPixel \in Nat \ {0}

VARIABLES
  threads_mode, \* "numbers" or "block"
  width, height, threads_num,
  original,     \* its pixels as they were read
  values,       \* its pixels
  step,         \* where each thread is
  pos,          \* the pixel it works on
  above,        \* what it has read of it: whether its value is in the upper half
  reg           \* and the value it is going to replace

vars == <<threads_mode, width, height, threads_num, original, values, step, pos, above, reg>>
given == <<threads_mode, width, height, threads_num, original>>

Pixels == (0 .. width - 1) \X (0 .. height - 1)
Threads == 0 .. threads_num - 1

-----------------------------------------------------------------------------
(* Which pixels a thread works on, in which order. *)

\* Not the code: the division rounds down.
CoefRoundedDown(w, n) == w \div n

\* ceil((double) width / threads_num) columns for each thread.
Coef(w, n) == (w + n - 1) \div n
LeftEnd(t, w, n) == t * Coef(w, n)
RightEnd(t, w, n) == (t + 1) * Coef(w, n)

InBlock(t, column) ==
  LeftEnd(t, width, threads_num) <= column /\ column < RightEnd(t, width, threads_num)

InLoop(t, pixel) ==
  IF threads_mode = "block"
  THEN pixel[1] < RightEnd(t, width, threads_num) /\ pixel[1] < width
  ELSE pixel[2] < height

FirstPixel(t) ==
  IF threads_mode = "block" THEN <<LeftEnd(t, width, threads_num), 0>> ELSE <<0, 0>>

\* Column by column, or row by row.
NextPixel(pixel) ==
  IF threads_mode = "block"
  THEN IF pixel[2] + 1 < height THEN <<pixel[1], pixel[2] + 1>> ELSE <<pixel[1] + 1, 0>>
  ELSE IF pixel[1] + 1 < width THEN <<pixel[1] + 1, pixel[2]>> ELSE <<0, pixel[2] + 1>>

FirstStep == IF threads_mode = "block" THEN "load" ELSE "test"
StepAt(t, pixel) == IF InLoop(t, pixel) THEN FirstStep ELSE "done"

-----------------------------------------------------------------------------
(* The bodies of the loops. *)

Goes(t, to) == step' = [step EXCEPT ![t] = to] /\ UNCHANGED pos
GoesOn(t) ==
  /\ pos' = [pos EXCEPT ![t] = NextPixel(pos[t])]
  /\ step' = [step EXCEPT ![t] = StepAt(t, NextPixel(pos[t]))]

Above(value) == value > MaxPixel \div 2

\* values[i] > max_pixel/2, the first read of start_routine_numbers;
Test(t) ==
  /\ step[t] = "test"
  /\ above' = [above EXCEPT ![t] = Above(values[pos[t]])]
  /\ Goes(t, "value")
  /\ UNCHANGED <<given, values, reg>>

\* Not the code: the value itself decides, which a thread changes by negating it.
ValueAsItIs(t) == values[pos[t]]

Value(t) == IF above[t] THEN MaxPixel - values[pos[t]] ELSE values[pos[t]]

\* the second one, for value, and whether the pixel is this thread's.
Decide(t) ==
  /\ step[t] = "value"
  /\ IF Value(t) % threads_num = t THEN Goes(t, "load") ELSE GoesOn(t)
  /\ UNCHANGED <<given, values, above, reg>>

\* values[j] = max_pixel - values[j], in either routine.
Load(t) ==
  /\ step[t] = "load"
  /\ reg' = [reg EXCEPT ![t] = values[pos[t]]]
  /\ Goes(t, "store")
  /\ UNCHANGED <<given, values, above>>

Store(t) ==
  /\ step[t] = "store"
  /\ values' = [values EXCEPT ![pos[t]] = MaxPixel - reg[t]]
  /\ GoesOn(t)
  /\ UNCHANGED <<given, above, reg>>

start_routine_numbers(t) ==
  /\ threads_mode = "numbers"
  /\ Test(t) \/ Decide(t) \/ Load(t) \/ Store(t)

start_routine_block(t) ==
  /\ threads_mode = "block"
  /\ Load(t) \/ Store(t)

-----------------------------------------------------------------------------
(* negate: all threads, from when they are created to when they are joined. *)

Init ==
  /\ threads_mode \in {"numbers", "block"}
  /\ \E try \in Tries : width = try[1] /\ height = try[2] /\ threads_num = try[3]
  /\ original \in [Pixels -> 0 .. MaxPixel]
  /\ values = original
  /\ pos = [t \in Threads |-> FirstPixel(t)]
  /\ step = [t \in Threads |-> StepAt(t, FirstPixel(t))]
  /\ above = [t \in Threads |-> FALSE]
  /\ reg = [t \in Threads |-> 0]

Next == \E t \in Threads : start_routine_numbers(t) \/ start_routine_block(t)

Spec == Init /\ [][Next]_vars

-----------------------------------------------------------------------------
(* Properties. *)

\* Types.
TypeOK ==
  /\ threads_mode \in {"numbers", "block"}
  /\ <<width, height, threads_num>> \in Tries
  /\ original \in [Pixels -> 0 .. MaxPixel]
  /\ values \in [Pixels -> 0 .. MaxPixel]
  /\ step \in [Threads -> {"test", "value", "load", "store", "done"}]
  /\ pos \in [Threads -> Nat \X Nat]
  /\ \A t \in Threads : step[t] # "done" => pos[t] \in Pixels
  /\ above \in [Threads -> BOOLEAN]
  /\ reg \in [Threads -> 0 .. MaxPixel]

\* All the threads can be joined, and the image is going to be saved.
Joined == \A t \in Threads : step[t] = "done"
Negated == values = [p \in Pixels |-> MaxPixel - original[p]]

\* Between its two reads of a pixel a thread is overtaken by the one that negates it.
Overtaken ==
  \E t \in Threads : step[t] = "value" /\ above[t] # Above(values[pos[t]])

\* What is saved is the negative: each pixel was negated once, whatever the
\* numbers of threads and columns and the order of the threads, unless one of
\* them was overtaken; it may then take a pixel for its own and negate it again.
NegatedOnce == []~Overtaken => [](Joined => Negated)

\* No thread is overtaken in mode "block": there the negative is always right.
BlocksNegated == threads_mode = "block" /\ Joined => Negated
=============================================================================
