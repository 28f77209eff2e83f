-------------------------------- MODULE Fifo ---------------------------------
(****************************************************************************)
(* cw05/zad3: producers cut their files into records, a row number and      *)
(* chars_num characters, and write them to one FIFO; the consumer adds the  *)
(* characters of each record to the line of its file with that number.      *)
(*                                                                          *)
(* What makes a record arrive whole is how it is written.  stdio keeps a    *)
(* record that is smaller than its buffer (a PIPE_BUF) until fflush, which  *)
(* writes it with one atomic write(2).  Of a larger one fwrite writes all   *)
(* but a tail at once, with the FIFO locked, and fflush the tail, when the  *)
(* lock has been given back.  A record is its header and two parts of its   *)
(* characters; only the second is in the tail of a large record.  That the  *)
(* first, when it is several buffers long, may be split too is left out.    *)
(****************************************************************************)
EXTENDS Integers, Sequences

CONSTANTS
  Producers,    \* the producer processes
  Rows,         \* the rows they may be given
  Chunks,       \* into how many records each file is cut
  FifoSize      \* how many headers and parts the FIFO holds: a record or more

VARIABLES
  large,        \* chars_num exceeds the buffer of stdio
  row_num,      \* the row of each producer
  at,           \* where each producer is
  cut,          \* how many records each has cut from its file
  buffer,       \* what the buffer of each producer's stdio holds
  lock,         \* the producer that holds the flock, or NoProducer
  fifo,         \* what is in the FIFO
  consumer,     \* where the consumer is
  record,       \* the header and the parts it has read of a record
  file          \* the lines of its file, as sequences of the parts in them

vars == <<large, row_num, at, cut, buffer, lock, fifo, consumer, record, file>>
producing == <<large, row_num, at, cut, buffer, lock>>
consuming == <<large, row_num, consumer, record, file>>

NoProducer == "none"

Header(p) == [by |-> p, chunk |-> 0, part |-> 0]
Part(p, k, n) == [by |-> p, chunk |-> k, part |-> n]

Goes(p, step) == at' = [at EXCEPT ![p] = step]

-----------------------------------------------------------------------------
(* Opening: fopen returns when the FIFO is open, or being opened, at both ends. *)

HasWriters == \E p \in Producers : at[p] \notin {"starts", "ended"}
HasReader == consumer \notin {"starts", "ended"}

FopenProducer(p) ==
  /\ at[p] = "starts"
  /\ Goes(p, "opens")
  /\ UNCHANGED <<cut, buffer, lock, fifo, consuming>>

OpenedProducer(p) ==
  /\ at[p] = "opens"
  /\ HasReader
  /\ Goes(p, "reads")
  /\ UNCHANGED <<cut, buffer, lock, fifo, consuming>>

FopenConsumer ==
  /\ consumer = "starts"
  /\ consumer' = "opens"
  /\ UNCHANGED <<producing, fifo, record, file>>

OpenedConsumer ==
  /\ consumer = "opens"
  /\ \E p \in Producers : at[p] # "starts"
  /\ consumer' = "row"
  /\ UNCHANGED <<producing, fifo, record, file>>

-----------------------------------------------------------------------------
(* A producer: the loop of read_to_fifo. *)

\* fread cuts the next record, and a nap of a second or two follows; at the end of
\* the file the FIFO is closed.
Fread(p) ==
  /\ at[p] = "reads"
  /\ IF cut[p] < Chunks
     THEN cut' = [cut EXCEPT ![p] = @ + 1] /\ Goes(p, "locks")
     ELSE UNCHANGED cut /\ Goes(p, "ended")
  /\ UNCHANGED <<buffer, lock, fifo, consuming>>

Lock(p) ==
  /\ at[p] = "locks"
  /\ lock = NoProducer
  /\ lock' = p
  /\ Goes(p, "writes")
  /\ UNCHANGED <<cut, buffer, fifo, consuming>>

\* Not the code: the header is written by itself.
FwriteHeaderFirst(p) ==
  /\ at[p] = "writes"
  /\ Len(fifo) < FifoSize
  /\ fifo' = Append(fifo, Header(p))
  /\ buffer' = [buffer EXCEPT ![p] = <<Part(p, cut[p], 1), Part(p, cut[p], 2)>>]
  /\ Goes(p, "unlocks")
  /\ UNCHANGED <<cut, lock, consuming>>

\* fwrite: a small record stays in the buffer, a large one leaves its tail there.
Fwrite(p) ==
  /\ at[p] = "writes"
  /\ LET written == IF large THEN <<Header(p), Part(p, cut[p], 1)>> ELSE <<>>
         kept == IF large THEN <<Part(p, cut[p], 2)>>
                 ELSE <<Header(p), Part(p, cut[p], 1), Part(p, cut[p], 2)>> IN
       /\ Len(fifo) + Len(written) <= FifoSize
       /\ fifo' = fifo \o written
       /\ buffer' = [buffer EXCEPT ![p] = kept]
  /\ Goes(p, "unlocks")
  /\ UNCHANGED <<cut, lock, consuming>>

Unlock(p) ==
  /\ at[p] = "unlocks"
  /\ lock' = NoProducer
  /\ Goes(p, "flushes")
  /\ UNCHANGED <<cut, buffer, fifo, consuming>>

\* fflush, after the lock is given back: one write, which waits for room.
Fflush(p) ==
  /\ at[p] = "flushes"
  /\ Len(fifo) + Len(buffer[p]) <= FifoSize
  /\ fifo' = fifo \o buffer[p]
  /\ buffer' = [buffer EXCEPT ![p] = <<>>]
  /\ Goes(p, "reads")
  /\ UNCHANGED <<cut, lock, consuming>>

-----------------------------------------------------------------------------
(* The consumer: the loop of read_from_fifo. *)

\* fgetc up to the blank after the row number.  Characters that belong to a line
\* pass for a row number, and most often are none: "Reading row number from fifo
\* failed", and the consumer exits.
ReadRow ==
  /\ consumer = "row"
  /\ fifo # <<>>
  /\ fifo' = Tail(fifo)
  /\ IF Head(fifo).part = 0
     THEN consumer' = "content" /\ record' = <<Head(fifo)>>
     ELSE consumer' = "ended" /\ UNCHANGED record
  /\ UNCHANGED <<producing, file>>

\* fread takes chars_num characters, whatever they are.
ReadContent ==
  /\ consumer = "content"
  /\ Len(record) < 3
  /\ fifo # <<>>
  /\ fifo' = Tail(fifo)
  /\ record' = Append(record, Head(fifo))
  /\ UNCHANGED <<producing, consumer, file>>

\* The end of the FIFO: it is empty, and nobody has it open for writing.
AtEof == fifo = <<>> /\ ~HasWriters

\* fread has filled the buffer, or found the end of the FIFO after a part of it.
Filled == consumer = "content" /\ (Len(record) = 3 \/ (Len(record) = 2 /\ AtEof))

\* Not the code: the next line is added to the old file.
AddLineToOld ==
  /\ Filled
  /\ file' = [r \in Rows |-> IF r = row_num[record[1].by] THEN Tail(record) ELSE <<>>]
  /\ record' = <<>>
  /\ consumer' = "row"
  /\ UNCHANGED <<producing, fifo>>

\* add_line copies the file to a new one of the same name, with what was read at
\* the end of the line; missing lines are added empty.
AddLine ==
  /\ Filled
  /\ file' = [file EXCEPT ![row_num[record[1].by]] = @ \o Tail(record)]
  /\ record' = <<>>
  /\ consumer' = "row"
  /\ UNCHANGED <<producing, fifo>>

\* The consumer ends, or exits when it has a row number and nothing to read.
Eof ==
  /\ AtEof
  /\ consumer = "row" \/ (consumer = "content" /\ Len(record) = 1)
  /\ consumer' = "ended"
  /\ UNCHANGED <<producing, fifo, record, file>>

\* A write to a FIFO whose reader has gone: SIGPIPE.
Sigpipe(p) ==
  /\ at[p] \in {"writes", "flushes"}
  /\ ~HasReader
  /\ Goes(p, "ended")
  /\ lock' = IF lock = p THEN NoProducer ELSE lock
  /\ UNCHANGED <<cut, buffer, fifo, consuming>>

-----------------------------------------------------------------------------
Init ==
  /\ large \in BOOLEAN
  /\ row_num \in [Producers -> Rows]
  /\ at = [p \in Producers |-> "starts"]
  /\ cut = [p \in Producers |-> 0]
  /\ buffer = [p \in Producers |-> <<>>]
  /\ lock = NoProducer
  /\ fifo = <<>>
  /\ consumer = "starts"
  /\ record = <<>>
  /\ file = [r \in Rows |-> <<>>]

read_to_fifo(p) ==
  \/ FopenProducer(p) \/ OpenedProducer(p)
  \/ Fread(p) \/ Lock(p) \/ Fwrite(p) \/ Unlock(p) \/ Fflush(p) \/ Sigpipe(p)

read_from_fifo ==
  FopenConsumer \/ OpenedConsumer \/ ReadRow \/ ReadContent \/ AddLine \/ Eof

Next == read_from_fifo \/ \E p \in Producers : read_to_fifo(p)

Spec == Init /\ [][Next]_vars
FairSpec ==
  /\ Spec
  /\ WF_vars(read_from_fifo)
  /\ \A p \in Producers : WF_vars(read_to_fifo(p))

-----------------------------------------------------------------------------
(* Properties. *)

\* The chunks of producer p among the first k records of a line, of two parts each.
Stored(p, line, k) == {line[2 * l - 1].chunk : l \in {l \in 1 .. k : line[2 * l - 1].by = p}}

\* A line of row r: whole records of the producers that write to it, and each comes
\* after all those its producer has cut before.
Complete(r, line) ==
  /\ Len(line) % 2 = 0
  /\ \A k \in 1 .. Len(line) \div 2 : \E p \in Producers, n \in 1 .. Chunks :
       /\ row_num[p] = r
       /\ line[2 * k - 1] = Part(p, n, 1) /\ line[2 * k] = Part(p, n, 2)
       /\ Stored(p, line, k - 1) = 1 .. n - 1

\* "With many producers and one consumer the data is read and written to the file
\* correctly for small N" (wnioski.txt:1), and for any N while one producer writes:
\* a line holds the records of the producers that write to it, each whole, each
\* producer's in order, and nothing else.
LinesRight ==
  ~large \/ (\A p, q \in Producers : cut[p] > 0 /\ cut[q] > 0 => p = q) =>
    \A r \in Rows : Complete(r, file[r])

\* A producer that opens the FIFO when the consumer has found it closed.
TooLate == consumer = "ended" /\ \E p \in Producers : at[p] \in {"starts", "opens"}

\* For small N all of it is stored and everybody ends, unless a producer comes too
\* late; that one waits for a reader for ever.
AllStored ==
  ~large /\ []~TooLate =>
    <>(/\ consumer = "ended"
       /\ \A p \in Producers :
            LET line == file[row_num[p]] IN
            Complete(row_num[p], line) /\ Stored(p, line, Len(line) \div 2) = 1 .. Chunks)
=============================================================================
