------------------------------ MODULE Pipeline -------------------------------
(****************************************************************************)
(* cw05/zad1: exec_commands runs one line of the file, components separated *)
(* by "|", each a list of commands: one process per command, from the       *)
(* output of each to the input of the next.  The whole line has two pipes,  *)
(* which take turns: "mode" is the one the next command reads from.         *)
(*                                                                          *)
(* What decides when a command sees the end of its input is who still has   *)
(* a pipe open, so each process has the set of pipe ends it holds.  A child *)
(* starts with all four and puts the right ones in place before it becomes  *)
(* its command.  A command writes a few units of output, or is a filter     *)
(* that copies its input to its output until the end of the input.  A unit  *)
(* is known by the command that wrote it.                                   *)
(****************************************************************************)
EXTENDS Integers, Sequences, SequencesExt, FiniteSets

CONSTANTS
  Lines,        \* the lines to try: the number of commands of each component,
                \* or NoComponent
  Units,        \* how much a command that is no filter writes
  PipeSize      \* how much a pipe holds

VARIABLES
  line,         \* the components of to_exec
  kind,         \* what each command is: "filter", "writer", or "missing"
  i, j,         \* the loops over components and over commands
  mode, last_pid,
  at,           \* where the parent (process 0) and each child is
  ends,         \* the pipe ends each process holds
  input, output,\* the pipe that is stdin, or stdout, of each child
  pipe,         \* what is in each pipe
  got, wrote,   \* the units each command has read, and how many it has written
  held          \* the unit a filter has read and not yet written

vars == <<line, kind, i, j, mode, last_pid, at, ends, input, output, pipe, got, wrote, held>>
loop == <<line, kind, i, j, mode, last_pid>>
plumbing == <<line, kind, i, j, mode, last_pid, input, output>>

Parent == 0
Pipes == {0, 1}
fd == Pipes \X {"read", "write"}
None == -1              \* neither pipe: the terminal, or no unit

\* A name that is no component, such as the "" an empty line of the file holds.
NoComponent == -1
Length(l) == FoldSeq(+, 0, SelectSeq(l, LAMBDA n : n # NoComponent))
MaxCommands == CHOOSE n \in {Length(l) : l \in Lines} : \A l \in Lines : Length(l) <= n
Commands == 1 .. MaxCommands
Processes == {Parent} \union Commands

\* The command that is forked next: so many came before it in the line.
Position == Length(SubSeq(line, 1, i)) + j + 1
First == i = 0 /\ j = 0
LastOfLine == i = Len(line) - 1 /\ j = line[i + 1] - 1

Holders(end) == {p \in Processes : end \in ends[p]}
Ends(p) == at' = [at EXCEPT ![p] = "ended"] /\ ends' = [ends EXCEPT ![p] = {}]

-----------------------------------------------------------------------------
(* The parent: exec_commands. *)

Init ==
  /\ line \in Lines
  /\ kind \in [Commands -> {"filter", "writer", "missing"}]
  \* The input of the first component is the terminal; that of the second, if the
  \* first has no commands, is a pipe.
  /\ kind[1] = "filter" => line # <<>> /\ line[1] = 0
  /\ i = 0 /\ j = 0
  /\ mode = 0
  /\ last_pid = 0
  /\ at = [p \in Processes |-> IF p = Parent THEN "forks" ELSE "unborn"]
  /\ ends = [p \in Processes |-> IF p = Parent THEN fd ELSE {}]
  /\ input = [c \in Commands |-> None]
  /\ output = [c \in Commands |-> None]
  /\ pipe = [k \in Pipes |-> <<>>]
  /\ got = [c \in Commands |-> <<>>]
  /\ wrote = [c \in Commands |-> 0]
  /\ held = [c \in Commands |-> None]

\* A child holds whatever its parent does.  It will read from the pipe "mode",
\* unless it is the first of the line, and write to the other, unless the last.
Fork ==
  /\ at[Parent] = "forks"
  /\ i < Len(line) /\ line[i + 1] > 0
  /\ LET c == Position IN
       /\ at' = [at EXCEPT ![c] = "forked"]
       /\ ends' = [ends EXCEPT ![c] = ends[Parent]]
       /\ input' = [input EXCEPT ![c] = IF First THEN None ELSE mode]
       /\ output' = [output EXCEPT ![c] = IF LastOfLine THEN None ELSE (mode + 1) % 2]
       /\ last_pid' = IF LastOfLine THEN c ELSE last_pid
  /\ mode' = (mode + 1) % 2
  /\ IF j + 1 < line[i + 1] THEN j' = j + 1 /\ UNCHANGED i ELSE j' = 0 /\ i' = i + 1
  /\ UNCHANGED <<line, kind, pipe, got, wrote, held>>

\* A component without commands, a line of the file with no "=": nothing is forked.
NoCommands ==
  /\ at[Parent] = "forks"
  /\ i < Len(line) /\ line[i + 1] = 0
  /\ i' = i + 1
  /\ UNCHANGED <<line, kind, j, mode, last_pid, at, ends, input, output, pipe, got, wrote,
                 held>>

\* "Error: invalid command in file input": the program exits, and the children it
\* has forked go on.
InvalidCommand ==
  /\ at[Parent] = "forks"
  /\ i < Len(line) /\ line[i + 1] = NoComponent
  /\ Ends(Parent)
  /\ UNCHANGED <<plumbing, pipe, got, wrote, held>>

\* All are forked: the parent closes the pipes, and waits for the last command.
CloseAll ==
  /\ at[Parent] = "forks"
  /\ i = Len(line)
  /\ at' = [at EXCEPT ![Parent] = "waits"]
  /\ ends' = [ends EXCEPT ![Parent] = {}]
  /\ UNCHANGED <<plumbing, pipe, got, wrote, held>>

\* If the last component has no commands, or the line is missing, last_pid is 0: any
\* child will do, and without one there is no waiting.
Waitpid ==
  /\ at[Parent] = "waits"
  /\ IF last_pid # 0 THEN at[last_pid] = "ended"
     ELSE \/ \A c \in Commands : at[c] = "unborn"
          \/ \E c \in Commands : at[c] = "ended"
  /\ Ends(Parent)
  /\ UNCHANGED <<plumbing, pipe, got, wrote, held>>

-----------------------------------------------------------------------------
(* A child. *)

Stdin(c) == IF input[c] = None THEN {} ELSE {<<input[c], "read">>}
Stdout(c) == IF output[c] = None THEN {} ELSE {<<output[c], "write">>}

\* Not the code: the child keeps the writing end of the pipe it reads.
KeepsWriteEnd(c) ==
  /\ at[c] = "forked"
  /\ at' = [at EXCEPT ![c] = "runs"]
  /\ ends' = [ends EXCEPT ![c] =
       Stdin(c) \union Stdout(c) \union {<<k, "write">> : k \in {input[c]} \ {None}}]
  /\ UNCHANGED <<plumbing, pipe, got, wrote, held>>

\* dup2 and close leave a child its stdin and its stdout; then execvp runs the
\* command, or fails ("Exec failed") and the child exits.
Exec(c) ==
  /\ at[c] = "forked"
  /\ IF kind[c] = "missing" THEN Ends(c)
     ELSE /\ at' = [at EXCEPT ![c] = "runs"]
          /\ ends' = [ends EXCEPT ![c] = Stdin(c) \union Stdout(c)]
  /\ UNCHANGED <<plumbing, pipe, got, wrote, held>>

\* A filter reads one unit; or sees the end of its input, which comes when the
\* pipe is empty and nobody can write to it any more, and ends.
Read(c) ==
  /\ at[c] = "runs" /\ kind[c] = "filter" /\ held[c] = None
  /\ pipe[input[c]] # <<>>
  /\ held' = [held EXCEPT ![c] = Head(pipe[input[c]])]
  /\ got' = [got EXCEPT ![c] = Append(@, Head(pipe[input[c]]))]
  /\ pipe' = [pipe EXCEPT ![input[c]] = Tail(@)]
  /\ UNCHANGED <<plumbing, at, ends, wrote>>

Eof(c) ==
  /\ at[c] = "runs" /\ kind[c] = "filter" /\ held[c] = None
  /\ pipe[input[c]] = <<>>
  /\ Holders(<<input[c], "write">>) = {}
  /\ Ends(c)
  /\ UNCHANGED <<plumbing, pipe, got, wrote, held>>

HasOutput(c) ==
  /\ at[c] = "runs"
  /\ IF kind[c] = "filter" THEN held[c] # None ELSE wrote[c] < Units

\* It writes a unit, waiting for room in the pipe; if nobody can read the pipe
\* any more SIGPIPE ends it.
Write(c) ==
  /\ HasOutput(c)
  /\ IF output[c] = None THEN UNCHANGED pipe
     ELSE /\ Holders(<<output[c], "read">>) # {}
          /\ Len(pipe[output[c]]) < PipeSize
          /\ pipe' = [pipe EXCEPT ![output[c]] = Append(@, c)]
  /\ wrote' = [wrote EXCEPT ![c] = @ + 1]
  /\ held' = [held EXCEPT ![c] = None]
  /\ UNCHANGED <<plumbing, at, ends, got>>

Sigpipe(c) ==
  /\ HasOutput(c)
  /\ output[c] # None
  /\ Holders(<<output[c], "read">>) = {}
  /\ Ends(c)
  /\ UNCHANGED <<plumbing, pipe, got, wrote, held>>

Finish(c) ==
  /\ at[c] = "runs" /\ kind[c] = "writer" /\ wrote[c] = Units
  /\ Ends(c)
  /\ UNCHANGED <<plumbing, pipe, got, wrote, held>>

-----------------------------------------------------------------------------
exec_commands == Fork \/ NoCommands \/ InvalidCommand \/ CloseAll \/ Waitpid
Command(c) == Exec(c) \/ Read(c) \/ Eof(c) \/ Write(c) \/ Sigpipe(c) \/ Finish(c)

Next == exec_commands \/ \E c \in Commands : Command(c)

Spec == Init /\ [][Next]_vars
FairSpec ==
  /\ Spec
  /\ WF_vars(exec_commands)
  /\ \A c \in Commands : WF_vars(Command(c))

-----------------------------------------------------------------------------
(* Properties. *)

Started == {c \in Commands : at[c] # "unborn"}

\* Every line that was started comes to its end, the parent with it, and a filter
\* that has seen the end of its input has read all that the command before it
\* wrote, in order, and nothing else.  "limit number of piped commands" (line 9)
\* allows ten commands.
LineEnds ==
  <>[](/\ \A p \in Started \union {Parent} : at[p] = "ended"
       /\ \A c \in Started : kind[c] = "filter" =>
            /\ \A n \in DOMAIN got[c] : got[c][n] = c - 1
            /\ c = 1 \/ Len(got[c]) = wrote[c - 1] \/ wrote[c] < Len(got[c]))
=============================================================================
