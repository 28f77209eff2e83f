------------------------------ MODULE Integral -------------------------------
(****************************************************************************)
(* cw03/zad2: n_proc processes compute the area of n rectangles under a     *)
(* curve and write each to a file of their own; when all have ended, the    *)
(* parent adds up what is in the files.  The processes share nothing, so    *)
(* what there is to get right is that each rectangle is in one file.        *)
(****************************************************************************)
EXTENDS Integers

\* "+1 to ensure all of the rectangles can fit into n_proc files" (main.c:41).
iter_per_proc(n, n_proc) == n \div n_proc + 1

\* The rectangles in the file w<num_of_file>.txt: those from i up to
\* i + iter_per_proc, where i has grown by iter_per_proc with each file before.
File(num_of_file, n, n_proc) ==
  LET i == (num_of_file - 1) * iter_per_proc(n, n_proc) IN
  {j \in 0 .. n - 1 : i <= j /\ j < i + iter_per_proc(n, n_proc)}

\* get_result reads the files of all n_proc processes.
Files(n_proc) == 1 .. n_proc
=============================================================================
