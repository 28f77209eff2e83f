----------------------------- MODULE MCPrograms ------------------------------
(****************************************************************************)
(* Five small programs for TLC, in one run: Negative (cw08), which this     *)
(* module extends, and Signals (cw04), Pipeline and Fifo (cw05), and        *)
(* PizzeriaMain (cw07), of which it has instances.  They have nothing to do *)
(* with one another: the first state says which one runs, and the variables *)
(* of the others keep a state they could start in.  The sharing of Integral *)
(* (cw03) has no state: it is evaluated.                                    *)
(****************************************************************************)
EXTENDS Negative, Sequences, FiniteSets

CONSTANTS Producers, Rows, Chunks, FifoSize, MaxSignals, cook_number, deliverer_number

VARIABLES
  program,      \* which program runs
  zad, mode, num_of_sig, frames, handled, pending, recieved, sent, sent_back,
  line, kind, pipe_i, pipe_j, pipe_mode, last_pid, command_at, ends, input, output, pipe,
  got, wrote, held,
  large, row_num, at, cut, buffer, lock, fifo, consumer, record, file,
  pizzeria, blocks, main, handles, arrays, pids, child, told, sems, accidents

\* Up to three commands, names that are no component (-1), components without
\* commands beside one or two others, and a line that is missing.
ShortLines ==
  {<<>>, <<1>>, <<2>>, <<3>>, <<1, 1>>, <<1, 2>>, <<2, 1>>, <<1, 1, 1>>,
   <<-1>>, <<1, -1>>, <<2, -1>>, <<1, -1, 1>>, <<0>>, <<0, 2>>, <<2, 0>>, <<1, 0, 1>>}

\* Threads that do not divide the columns, more threads than columns, several rows.
Images == {<<3, 1, 2>>, <<2, 1, 3>>, <<2, 2, 2>>}

S == INSTANCE Signals
P == INSTANCE Pipeline
       WITH Lines <- ShortLines, Units <- 2, PipeSize <- 1,
            i <- pipe_i, j <- pipe_j, mode <- pipe_mode, at <- command_at
F == INSTANCE Fifo
M == INSTANCE PizzeriaMain WITH zad <- pizzeria
I == INSTANCE Integral

\* cw03/zad2: each rectangle is in one file, for no rectangles up to twelve.
ASSUME RectanglesCounted ==
  \A n \in 0 .. 12, n_proc \in 1 .. 5 : \A r \in 0 .. n - 1 :
    Cardinality({k \in I!Files(n_proc) : r \in I!File(k, n, n_proc)}) = 1

signals == <<zad, mode, num_of_sig, frames, handled, pending, recieved, sent, sent_back>>
pipeline == <<line, kind, pipe_i, pipe_j, pipe_mode, last_pid, command_at, ends, input,
              output, pipe, got, wrote, held>>
fifos == <<large, row_num, at, cut, buffer, lock, fifo, consumer, record, file>>
mains == <<pizzeria, blocks, main, handles, arrays, pids, child, told, sems, accidents>>
all == <<program, signals, pipeline, fifos, mains, vars>>

-----------------------------------------------------------------------------

SignalsIdle == zad = "zad3a" /\ mode = "kill" /\ num_of_sig = 0 /\ S!Init
PipelineIdle == line = <<>> /\ kind = [c \in P!Commands |-> "writer"] /\ P!Init
FifoIdle ==
  large = FALSE /\ row_num = [p \in Producers |-> CHOOSE r \in Rows : TRUE] /\ F!Init
MainIdle == pizzeria = "zad1" /\ blocks = TRUE /\ M!Init
NegativeIdle ==
  /\ threads_mode = "block" /\ width = 2 /\ height = 1 /\ threads_num = 3
  /\ original = [p \in Pixels |-> 0]
  /\ Init

InitOfOne ==
  \/ /\ program = "signals" /\ S!Init
     /\ PipelineIdle /\ FifoIdle /\ MainIdle /\ NegativeIdle
  \/ /\ program = "pipeline" /\ P!Init
     /\ SignalsIdle /\ FifoIdle /\ MainIdle /\ NegativeIdle
  \/ /\ program = "fifo" /\ F!Init
     /\ SignalsIdle /\ PipelineIdle /\ MainIdle /\ NegativeIdle
  \/ /\ program = "main" /\ M!Init
     /\ SignalsIdle /\ PipelineIdle /\ FifoIdle /\ NegativeIdle
  \/ /\ program = "negative" /\ Init
     /\ SignalsIdle /\ PipelineIdle /\ FifoIdle /\ MainIdle

InSignals(A) ==
  program = "signals" /\ A /\ UNCHANGED <<program, pipeline, fifos, mains, vars>>
InPipeline(A) ==
  program = "pipeline" /\ A /\ UNCHANGED <<program, signals, fifos, mains, vars>>
InFifo(A) ==
  program = "fifo" /\ A /\ UNCHANGED <<program, signals, pipeline, mains, vars>>
InMain(A) ==
  program = "main" /\ A /\ UNCHANGED <<program, signals, pipeline, fifos, vars>>
InNegative(A) ==
  program = "negative" /\ A /\ UNCHANGED <<program, signals, pipeline, fifos, mains>>

NextOfOne ==
  \/ InSignals(S!Next) \/ InPipeline(P!Next) \/ InFifo(F!Next) \/ InMain(M!Next)
  \/ InNegative(Next)

\* The fairness of each program's FairSpec.
Fairness ==
  /\ WF_all(InSignals(S!Sender)) /\ WF_all(InSignals(S!Catcher))
  /\ WF_all(InPipeline(P!exec_commands))
  /\ \A c \in P!Commands : WF_all(InPipeline(P!Command(c)))
  /\ WF_all(InFifo(F!read_from_fifo))
  /\ \A p \in Producers : WF_all(InFifo(F!read_to_fifo(p)))
  /\ WF_all(InMain(M!MainStep))
  /\ \A w \in M!Workers : WF_all(InMain(M!ChildStep(w)))

SpecOfOne == InitOfOne /\ [][NextOfOne]_all
FairSpec == SpecOfOne /\ Fairness

-----------------------------------------------------------------------------
(* The properties of each program, as its module states them; those of        *)
(* Negative hold in the state it keeps while another program runs.            *)

\* cw04/zad3: sender and catcher print the right counts.
CountsRight == program = "signals" => S!CountsRight
\* cw04/zad3: the sender gets its answers and ends.
SenderEnds == program = "signals" => S!SenderEnds
\* cw05/zad1: a line of up to three commands ends, and each reads what it should.
LineEnds == program = "pipeline" => P!LineEnds
\* cw05/zad3: the consumer's lines are made of whole records in order.
LinesRight == program = "fifo" => F!LinesRight
\* cw05/zad3: every record is stored in the end.
AllStored == program = "fifo" => F!AllStored
\* cw07: no main leaves a worker behind, if it ends by itself or by one signal.
WorkersEnd == program = "main" => M!WorkersEnd
\* cw07: a main begins with semaphores as it sets them.
StartsFresh == M!StartsFresh
=============================================================================
