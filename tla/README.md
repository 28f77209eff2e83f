# AGH-SysOpy in TLA+

The repository is a collection of C programs written for a course on operating
systems: each directory `cwNN/zadM` is a program of its own, some of one
process, some of many processes or threads that share memory, queues, pipes,
sockets or signals. There is no common library and no test suite; what a
program is to do is said by its own messages and by the few files
`wnioski.txt`, `raport.txt` and `komentarz.txt`. This project models the
concurrent programs, where the hard behaviour is.

## The system

| part | state | operations | interaction | what makes it correct |
|---|---|---|---|---|
| cw07/zad1, pizzeria (System V) | oven and table arrays, two counters, a set of five semaphores; each worker's pizza, slot and position | main sets up and forks; `make_pizza`, `deliver_pizza`; SIGHUP | cooks and deliverers through shared memory, several semaphores per `semop` | one worker at a time in the oven and at the table, slots never used twice, limits kept, counters right, no deadlock |
| cw07/zad2, pizzeria (POSIX) | the same, five named semaphores | the same | one semaphore per `sem_wait` | the same, though a cook keeps the oven locked while it waits for the table |
| cw09/zad1, Santa | counters `elves`, `reindeers`, array `elves_id`, a mutex, three condition variables | three thread routines | signals and broadcasts under one mutex | no lost wakeup, all reindeer at each delivery, three different elves helped, the program ends, no thread left behind |
| cw06/zad1, chat (System V) | server table of 32 client queues, one queue per process | INIT, LIST, 2ALL, 2ONE, STOP; SIGINT on both sides | typed messages, lowest type first | the table names live queues, answers reach their askers, messages of one sender in order, STOP ends everyone |
| cw06/zad2, chat (POSIX) | the same | the same | priorities, ten messages per queue | the same |
| cw10/zad1, tic-tac-toe | table of 12 clients, opponents, boards, one mutex per client and one for all | connect, pair, move, ping, disconnect | sockets; three threads of the server | opponents point at each other, a game has one board, silent players are removed |
| cw04/zad3a, zad3b, signals | counters, masks, pending signals | send, catch, send back, confirm | `kill`, `sigqueue`, real-time signals | what is sent is counted, where the kernel does not merge signals |
| cw05/zad1, pipelines | two pipes, the descriptors of each child | fork, dup2, exec, wait | pipes | every stage reads what the one before it writes, and sees its end of file |
| cw05/zad3, FIFO | file of lines, locks, stdio buffers | read, write, lock | FIFO, `flock` | every record lands in its line, whole and once |
| cw08/zad1, negative of an image | pixels, thread index | two partitions of the work | threads that share an array | each pixel negated once |
| cw01 (blocks), cw03/zad2 (integral), kol1/ForkWait | an array of blocks; a range; exit codes | sequential | fork and wait | no use of freed or foreign blocks; the range covered once |
| cw02, cw03/zad1 and zad3, cw04/zad1 and zad2, cw05/zad2, the rest of kol1 | files, directories | text filters, walks, demonstrations of system calls | none to speak of | I/O, left out |

The hard behaviours are the interleavings of workers between two semaphore
operations, workers killed while they hold semaphores, wakeups that come
early, late or for no reason, typed messages that overtake one another, and
signals that arrive between two statements. `PROJECT.json` lists them one by
one under `hazards`, each at its line.

## Modules

| module | models | composed from |
|---|---|---|
| `PizzaLine` | abstract: what both pizzerias promise, visits to the oven and the table as atomic steps | |
| `OvenTable` | `struct Oven_table`, the local variables of a worker, and each access to the shared memory | |
| `PizzeriaSysV` | cw07/zad1: the semops, the order of a worker's steps | `OvenTable`, implements `PizzaLine` |
| `PizzeriaPosix` | cw07/zad2: `sem_wait` and `sem_post`, the order of a worker's steps | `OvenTable`, implements `PizzaLine` |
| `PizzeriaMain` | the main programs of cw07/zad1 and zad2: opening, forking, exit handlers, and run after run | |
| `OvenTable_proofs` | lemmas about the shared memory, for the proofs of both pizzerias | `OvenTable` |
| `PizzeriaSysV_proofs` | theorems about cw07/zad1 | `PizzeriaSysV`, `OvenTable_proofs` |
| `PizzeriaPosix_proofs` | theorems about cw07/zad2 | `PizzeriaPosix`, `OvenTable_proofs` |
| `Santa` | cw09/zad1 | |
| `Santa_proofs` | theorems about cw09/zad1 | `Santa` |
| `ChatSysV` | cw06/zad1: the server, its clients, and the queues between them | |
| `MCChatSysV` | the symmetry of the clients, for the run that checks no liveness | `ChatSysV` |
| `ChatSysV_proofs` | theorems about cw06/zad1 | `ChatSysV` |
| `ChatPosix` | cw06/zad2: the same programs over queues sorted by priority | |
| `MCChatPosix` | the symmetry of the clients | `ChatPosix` |
| `ChatPosix_proofs` | theorems about cw06/zad2 | `ChatPosix` |
| `TicTacToe` | cw10/zad1: the three threads of the server, its clients, the sockets | |
| `TicTacToe_proofs` | theorems about cw10/zad1 | `TicTacToe` |
| `MCTicTacToe` | the symmetry of clients and of names, and the lines of a small board | `TicTacToe` |
| `Signals` | cw04/zad3a and zad3b: senders and catchers, their handlers, and what the kernel does with signals | |
| `Pipeline` | cw05/zad1: `exec_commands`, and the commands it runs, over two pipes | |
| `MCPipeline` | lines of four commands | `Pipeline` |
| `Fifo` | cw05/zad3: producers and a consumer, the FIFO, the lock and the buffers of stdio | |
| `Negative` | cw08/zad1: the threads of both modes, a read or write of a pixel per step | |
| `Integral` | cw03/zad2: which process computes which rectangle | |
| `MCPrograms` | one run for the small programs: the first state says which of them runs | `Signals`, `Pipeline`, `Fifo`, `Negative`, `PizzeriaMain`, `Integral` |
| `Programs_proofs` | theorems about cw08/zad1, cw03/zad2, the mains of cw07, cw04/zad3 and cw05/zad3 | `MCPrograms` |

Each pizzeria instantiates the abstract line with
`Line == INSTANCE PizzaLine WITH oven <- oven, table <- table, baking <- baking, carried <- carried`
and promises `LineSpec == Line!Spec`. The oven, the table and what the workers
carry mean the same in both; the semaphores, the counters, the registers and the
positions of the workers are what the line hides.

### The pizzerias

A worker's `pc` names the statement it executes next; a step is one semaphore
operation or one access to shared memory. `++oven_table->oven_quan` is a load
into `reg` and a store, and `find_free` a step apart from the store that uses
its result: that they belong together is what the semaphores are for, and what
the checks show. An index of -1, the result of a failed search, would be a
write outside the array; the model goes on with the arrays unchanged, and
`SpotFound` in zad1, and `LineSpec` in both, show it does not happen. `sem` is indexed by the names of
`utils.h`. A worker ended by SIGHUP (or by SIGINT from main) becomes dead where
it stands (`alive`), and what it held stays taken, since no operation carries
`SEM_UNDO`. Sleeps, prints and the setting up of handlers are left out; the
values of pizzas are abstract. `sem_wait(a) | sem_wait(b)` is taken from left
to right, an order C leaves open and compilers keep here.

`PizzeriaMain` is the life of main, with what the workers do reduced to using the
semaphores. `arrays` says how many of `cooks` and `deliverers` are there, `pids` what
they hold; a fork and the assignment of its result are two steps. `handle_exit` is
`Kills` and `Removes`: a pid that is not recorded is 0, and `kill` then reaches the
whole group, -1 everybody. A child between `fork` and `execl` has the handler and the
`atexit` function of main (`ChildExits`). An exit within an exit does not come
back to the rest of `handle_exit`: `HandlesSigint` and `CutShort`. `sa_flags`, which main never sets,
decides whether SIGINT is blocked in its handler: `blocks` takes both values.
`sems` is "used" once a worker has worked. `accidents` is a history variable: what
went wrong since a main last opened the semaphores, a signal before all children are workers being
"early". The program is run again when nobody of the run before is left. Errors of system
calls other than `fork` and `execl` end main or a worker as a signal does, and are not actions of their own.

### Santa

Everything shared is touched with the mutex held, so what a thread does from
one lock (or return of a wait) to the next unlock (or wait) is one step. `pc`
says where a thread stands with the mutex in nobody's hands; `woken` holds the
threads that were signalled, or woke for no reason, and have yet to get the
mutex back, so that anybody may come before them. Santa ends by
`pthread_exit` on line 48 with the mutex locked: `locked`. `overtaken` is a
history variable: it says whether a thread back from a nap registered while
one that had just been released was still on its way to the mutex.

### The chat over System V queues

The server's queue `sq` keeps the messages of each type in order; `Receive` takes
the first of the lowest type, as `msgrcv(..., -6, 0)` does, and runs its handler
up to the first `msgsnd`. The rest of the handler, or of `close_on_exit`, is
`to`, the slots still to send to: `SendOne` is one `msgsnd`, which blocks on a
full queue, and `SendFails` one on a queue that was removed. Clients and server
share nothing but queues, so what lies between two queue operations is one step.
`client` says where a client is; `outbox` is the message with which it waits in
`msgsnd`. `find_free` is the set of free slots, of which `handle_init` takes the
least. A text is known by its writer and its number among the writer's lines.
SIGINT reaches the server anywhere (`sigint_handler`) and a client anywhere
(`Stop`, `SigintEarly`, `SigintListing`); `accidents` records which kinds of
mishaps have come about: a SIGINT during `initialize` or while the client waits
for a list, the end of the input, a blank line that crashes the client. A LIST that
reaches a client in its loop, which it may when a slot has changed hands, is thrown
away (`Read`). Left out: a client started
again in the same home (it would find its queue, if a crash left it), a second SIGINT while a process
is ending, and the case that the kernel numbers the first queue 0, which the server
takes for a free entry.

### The chat over POSIX queues

As above, with these differences. All queues are sorted: `Foremost` is the type
`mq_receive` takes, on the client's side too, where the program waits for one
particular answer and takes whatever is foremost (`Initialized`, `Listed`);
`accidents` then gets "misread". A client's id is `message[1]` of whatever it took
(`client.c:61`): a slot in an INIT and in a line, a digit of the text in a LIST, and
anything in a STOP, where the server does not set it. `Outside` stands for every value
that is no slot. The server uses it as an index without a test, and what it finds beside
`clients[]` may be anything: unreadable memory, which ends it (`NoDescriptor`); no descriptor,
which makes `mq_close` or `mq_send` fail and it exit; a descriptor of somebody else's queue
(`handle_list`, `handle_toone`), or its own, which it then closes before it exits
(`ExitsWithout`). One thing is left out: a descriptor of a client's queue that is closed
there with the server going on, so that a slot names a closed descriptor. A queue that
was unlinked stays while it is open, so a send never fails, and the server goes
on filling the queue of a client that is gone. A blank line and the end of the
input are one accident, `EndOfInput`.

### Tic-tac-toe

`main`, `manage` and `ping` hold where each thread of the server is and its local
variables; `mutex` the mutexes of the clients. Main takes `clients_mutex` alone,
which no other thread takes, so it is not in the model: main runs between any
two steps of manage. What main does to the table is one step from one `write` to
the next, with the search, the two assignments and the board of `find_opponent`
apart (`Seek`, `Pair`, `SendStart`, `SendBoard`); manage's steps end where it takes
another mutex, and the end of `handle_disconnect` is a step of its own
(`RemoveClient`), as its variable `opponent` may be out of date by then. The
mutex of client -1, which `handle_disconnect` locks for a client without an
opponent, lies before the array: the model lets nothing come of it. A `write` to a
client that is gone may kill the server (SIGPIPE on a local socket) or pass
unnoticed (`Deliver`). `boards` are the blocks of `malloc`, `<<>>` once freed; the
use of one that is not there, and a second `free`, end the server as "aborted". A
`read` that returns 0 leaves `manage.msg` as it was, and it is handled again.
SIGINT stops main wherever it is (`handle_signal`; the kernel gives a signal of the process
to its first thread) and it runs `handle_exit`, one client per step: `Dismiss` sends
DISCONNECT, closes the socket and frees the board, leaving the client's own pointer
to it. manage and ping go on meanwhile, until main has closed everything. Left out
are a second SIGINT, what the locking of a destroyed mutex does (it is taken for one that
works), and the write outside the array when the opponent is -1.
A client is "playing" from START on; `handle_board` puts a symbol in any
free cell the user likes.

`mishaps` is a history variable. A "race" is a client that leaves, or whose
opponent leaves, while main is pairing it, which the two kinds of mutexes do not
prevent. A "leftover" is a client paired again before it has read
that its opponent left, with a move of the old game still to make.

### Signals

A process is a stack of frames: `main` or `send_signals` at the bottom, and a
frame for each handler that has not returned; most never do, since they end in
`sigsuspend` or `exit`. A frame has a mask. Neither signal is in `sa_mask`, so
while a handler runs only its own signal is blocked and the other may interrupt
it; `sigsuspend` lets both through. `pending` counts the signals that wait: an
ordinary one is merged with one of its kind (`Raise`), a real-time one is
queued. `Deliver` may come at any step of the process. `install` sets the
handlers of the catcher, which has printed its pid before: a signal that comes
first kills it. A `num_of_sig` of 0 is in, and a negative one (-1), as the messages about them
(lines 77 and 80 of the sender) do not end the program; the loop then sends nothing
(`ToSend`). Left out: what `printf` does when it is interrupted
by a handler that prints, and a sender and a catcher started with different modes.

### Pipelines

`line` gives for each component the number of its commands, or `NoComponent` for a name
that is none, such as the "" which an empty line of the file leaves. A component has
no commands (0) if its line has no "="; nothing is forked for it, but it counts in
`i` (`NoCommands`). `<<>>` is a line that is not in the file, see below. The parent forks a child for each command (`Fork`); `ends` says
which pipe ends each process holds, and a child closes all but its own two before
it execs. A command is a "filter", which reads to the end of its input and passes
everything on, a "writer", which reads nothing and writes `Units`, or "missing",
and then `execvp` fails. The end of a pipe is seen when it is empty and no
process holds a writing end, SIGPIPE comes when none holds a reading end.

### The FIFO

A record is its header (the row number) and two parts of its characters. A small
one fits into the buffer of stdio, so `fwrite` keeps it and `fflush`, after the lock is given
back, writes it at once; of a large one `fwrite` writes all but a tail
(`large`). The consumer reads header and content, and what it finds where a row number should be ends
it, unless it is one. `add_line` copies the file to a new one of the same name,
one step here, as nobody else has the file open. Left out: several consumers, of which
`wnioski.txt:4` says that the results are wrong; the first part of a
record several buffers long, which may be split too; and what happens when the 20 characters of
`row_num_arr` run over on mixed data.

### The negative of an image

A pixel is a column and a row. Each read and each write is a step: `Test` and
`Decide` are the two reads of line 120, `Load` and `Store` those of
`values[j] = max_pixel - values[j]`, in either routine. `Coef`, `LeftEnd` and `RightEnd` are the
arithmetic of the blocks. Init is the state in which all threads are created;
one that is late is one that takes no step.

## What is checked

| run | instance | shows |
|---|---|---|
| `pizzeria_sysv` | 3 cooks, 2 deliverers, oven 2, table 2, one worker killed | types and bounds of the semaphores, mutual exclusion, searches that succeed, counters that agree, refinement of `PizzaLine`, and pizzas for ever if nobody is killed |
| `pizzeria_posix` | 2 cooks, 2 deliverers, oven 1, table 2, one worker killed | the same promises: a cook that waits with the oven locked does not stop the pizzeria |
| `santa` | 2 reindeer, 3 elves, 2 required, 2 deliveries | no lost wakeup of Santa, the right reindeer and elves with him; the deliveries are made and the program ends |
| `santa_elves` | 2 reindeer, 4 elves, 2 required | a violation: elves left waiting for ever |
| `chat_sysv` | 3 clients, 2 slots, 2 messages per queue, 2 lines | the table knows each active client, messages name the right sender though slots are reused and types overtake, lines to all in order |
| `chat_ends` | 2 clients, 2 slots, 3 messages per queue, 2 lines, one kind of accident | leavers are announced before they are found missing, lists come unless a queue is full or a client is interrupted before it has its id, the server's end reaches all |
| `chat_stop` | 2 clients, 2 slots, one kind of accident | a violation: a STOP of a client that does not exist |
| `chat_posix` | 3 clients, 2 slots, 2 messages per queue, 1 line, one kind of accident | senders are right as long as clients know their ids; the server's end leaves every client a STOP |
| `chat_posix_answers` | 2 clients, 2 slots, 1 line, no accident | a violation: another message passes for the answer |
| `tictactoe` | 3 clients, 3 names, 2 slots, a board of 2 cells, 1 ping, 1 SIGINT, to a client or to the server, 1 `read` at the end | opponents are mutual and share a board, nobody waits while another does, who loses an opponent is told, one player at turn, boards are freed once as long as the server does not exit |
| `programs` | up to 3 signals, or a negative number of them; lines of up to 3 commands, components without any, 2 units, pipes of 1; 2 producers of 2 records; images of 3x1, 2x1 and 2x2 pixels, 2 or 3 threads; a main with 2 cooks and 2 deliverers, any number of runs | counts of signals are right and the sender ends, lines end and every filter reads what it should, records arrive whole, in order and all of them, each pixel is negated once; a main that ends leaves no worker behind and, with the exceptions below, a clean start |
| `pipeline_four` | lines of 4 commands | a violation: the line never ends |

Bounds. More cooks than places in the oven and more workers than places on the
table make every semaphore reach both ends; a death at any step is in every
run, a second one adds no new kind of state (the theorems hold for any number,
`MaxHangUps`). One value of pizza is enough to tell a free slot from a taken
one; that the pizza taken is the one that was served is proved for any set of
pizzas. Zad2 needs an oven of one place to make a cook that holds the oven the
only one to serve. For Santa one elf more than required makes the groups
overlap; with two deliveries a late reindeer of the first meets the second. In
the chat one client more than slots makes slots change hands and meets the full
server; queues of two messages are full as soon as two clients send, and of three for `ListComes`, so that an INIT, a STOP and a LIST fit in; two lines
are the fewest that can change places. Over POSIX queues one line is enough to overtake
an initial message or a list; with two lines the properties held as well (6.4 million
states). For the game two slots and three clients let a
slot, and the opponent of a client that stays, change hands and let a client find the
server full; two cells, which make one line, are the smallest board on which a
game goes back and forth; `MaxPings`, `MaxSigints` and `MaxEofs` bound what could
happen without end, the last one the server's busy loop on a closed socket
(`MaxSigints` leaves the clients that end by a message of the server unbounded).
With three slots and without pings the same properties held too. Three reindeer with three
elves also passed once (1.3 million states). For the small programs: three
signals are the fewest with one pending, one being handled and one more to merge; a line of
three commands uses both pipes, of one unit, so that a writer of two meets a full
one; two producers with two records each, on the same line or on two,
interleave, and the FIFO is too small for both; the images have columns that the threads do not
divide, more threads than columns, and two rows, with values on both sides of
half of `max_pixel` = 2; two cooks and two deliverers are the fewest with a pid recorded
and one not yet in either array, and nothing bounds the accidents. `RectanglesCounted`, an assumption of `MCPrograms` that TLC evaluates,
compares the sharing of `Integral` with "once each" for up to twelve rectangles and
five processes.

Every property has a mutant: a changed operation, marked "Not the code", under
which the property fails in its run.

`CHECK_DEADLOCK FALSE` is given where the system may stop: a killed worker may
leave a semaphore taken, Santa's program ends, and so do the servers and clients
of the chats and of the game.

Fairness. Workers and threads are scheduled by the kernel and each nap ends,
so every one of them is weakly fair: one that can go on for ever without being
given a turn gets it. Nothing is assumed about who gets a semaphore or the
mutex first among several that wait, signals and spurious wakeups need not
come. `KeepsDelivering` is stated for behaviours in which
nobody is killed. `SantaEnds` is stated for behaviours in which no reindeer, back
from its rest of at least five seconds, overtakes one that was released with
it: if it does, the late one waits uncounted (`main.c:84` sees
`reindeers > 0`), and the deliveries do stop. In the chat the server and each
client are weakly fair; users need not type, nor signals come. `ListComes` is
stated for behaviours in which no queue of a client fills up (with a full one
the server and the client that waits for its list block each other) and no client
is interrupted before it has its id,
`StopReachesAll` for a server whose `close_on_exit` got to its end.
`WorkersEnd` is stated for a main that is not ended by SIGKILL nor by a second signal while it exits.
In the small programs every process and every command is weakly fair, the kernel's delivery of a
signal being a step of the process that gets it. `SenderEnds` is stated for
behaviours in which the catcher had its handlers before the first signal and no
confirmation came before its `sigsuspend`; `AllStored` for small records and producers
that are not late; without these premises both fail.

### Findings

`santa_elves`: line 100 lets an elf that waited for the others (message
`Elf: czeka na powrót elfów`, line 121) go on without a nap. It may register
again before any of the others woken by the same broadcast has looked at
`elves > 0`; they all wait again, and if no elf is left to complete the group
no elf ever goes on. Santa still delivers.

`chat_stop`: the client sets its SIGINT handler before it has an id, and a
STOP sent from there says 0. The server then drops client 0, or, if there is
none, exits with "received stop message form client that does not exist"
(`server.c:61`). `TableRight`, `SenderRight`, `StopReachesAll` and `ListComes` are stated
for behaviours without such a SIGINT: with it client 0 stays alone. If it was waiting for
the list, a third client, or the interrupted one itself, whose INIT is still in the
server's queue, may have got slot 0 by then (`server.c:43`); the list goes there (`server.c:81`) and client 0 waits for ever,
with a server that goes on and no queue full.

`chat_posix_answers`: the initial message has the lowest priority, so a line to
all that reaches a client just registered is taken for it, and its sender for
the client's own id; the STOP of a server that ends is taken for a list, and
lost. `SendersRight`, `StopWaits` and the part of `TypeOK` that says an id is a slot are
stated for behaviours in which no answer was misread; the rest of `TypeOK` holds after one too.

`pipeline_four`: two pipes serve the whole line, used in turn. The second command
writes into the pipe the third one reads and reads the one the first writes; so does the fourth,
and the third writes into the pipe the second one reads. Command 2 sees no end of its input while 3 lives, and
3 none while 2 does: the line hangs, although "limit number of piped commands"
(`main.c:9`) is 10. Once there is data, command 2 may also read what 3 has written. Up to three
commands `LineEnds` holds, with one exception that the run leaves out: a component without
commands before or after three others (`<<0, 3>>`, `<<3, 0>>`) connects the first, or the last,
of them to a pipe too, and they wait for each other as four do.

In cw05/zad3 `LinesRight` leaves out large records of several producers: their
tails leave stdio after the lock is given back (`producer.c:68`) and lines
mix, as `wnioski.txt:1` reports of N > PIPE_BUF; it also says that `flock` may help,
which it would if `fflush` came first. In cw08 `NegatedOnce` leaves out a thread
that is overtaken between its two reads of a pixel: with it the pixel may be
negated twice.

`StartsFresh` holds in zad1 after anything, as main sets every semaphore; in zad2, where `sem_open`
keeps what it finds, only after a run in which nothing went wrong. After a SIGKILL, a
signal before all children are workers, a failed `fork` or a failed `execl`, `handle_exit` may not come to its end, and the
next main resets the memory but not the semaphores. No document says otherwise: a note.

In the game, all invariants but `TypeOK` are stated for behaviours without a race, the first
four of them for moments at which main is idle (so not when it exits),
`OneTurn` for behaviours without a message handled twice at the end of a socket, and
`BoardsThere` for those without either and without a leftover, until the server exits. With
them a client is left with an opponent that is gone, both players have a move to make, a
board is used before it is there or after it was freed. For the exit that is lines 357-360 of
`server.c`: main has freed the board of a client whose DISCONNECT manage then takes (line 183
frees it again) or whose MOVE it takes (line 256 writes to it), and main itself frees it
twice if manage is parting the two just then. No document says otherwise, so these are
notes, not findings. That `OneTurn` needs its premise came out of the proof, since the run is
too small to show it: a client interrupted before it has its id sends the DISCONNECT of client
0 (`client.c:65`) and its own descriptor stays watched; `read` (`server.c:282`) then returns 0
at once, and the MOVE another client sent before is handled a second time. A client interrupted before it has an id disconnects client 0;
that client finds its socket closed and ends, so the promises about pairs hold.

## What is proved

Each proof module proves its theorems for every value of the constants that
satisfies the assumption named here. The argument is the same throughout: an
inductive invariant, shown to hold at first, to be kept by every step (one
lemma or proof step per action), and to imply the property. The invariants
were model-checked on a small instance before they were proved.

### cw07/zad1, `PizzeriaSysV_proofs`

From `PizzeriaAssumption` (finite disjoint sets of workers, an oven and a table
with at least one place), for every number of workers, pizzas and deaths:

- `Typing`, `TypeCorrect`: types, and the bounds of all five semaphores;
- `Locking`, `MutualExclusion`: the sections of OVEN_USED and TABLE_USED;
- `SlotsAreFound`: `find_free` and `find_taken` do not return -1;
- `CountersAreRight`: the counters agree with the arrays;
- `Refinement`: `Spec => LineSpec`, the pizzeria is a `PizzaLine`;
- `NobodyIsStuck`: no deadlock. As long as a cook and a deliverer are alive, and
  nobody was ended with a permit in hand, some worker does not wait (`NeverStuck`).

Mutual exclusion is inductive with the types: whoever stands in a section has
its semaphore at 0, and at 0 it is only when somebody does (`Locks`). The rest needs the meaning of the counting
semaphores, which is the core of the inductive invariant `IInv`:

- `OvenPermits`: OVEN_SPACE plus the cooks between the first `semop` and the
  last is OVEN_SIZE, so a cook in the section finds fewer owners than slots;
- `OvenOwned`: each pizza in the oven belongs to exactly one cook that
  remembers its slot, so the owners bound the occupied slots;
- `TablePermits`: TABLE_SPACE and TABLE_READY count the free and the taken
  places of the table, corrected by the one worker in its section, which has
  claimed a place not yet filled or emptied one not yet given back;
- `OvenCounted`, `TableCounted`: a worker between load and store has loaded
  the current count;
- `PizzasKnown`, `TableFound`: what a worker carries, and the slot it found.

For `NobodyIsStuck`, if all wait, nobody is in a section, so both locks are free
(`NobodyInside`); a deliverer that waits then means an empty table, which lets the cook
at `lock_both` in; so no cook is there, the oven is empty, and a cook at `lock_oven` can
go on. Whether a worker can go on (`CanGoOn`) is written out, as the prover does not
know ENABLED: it is alive, and the `semop` it calls next, if it is one that takes
something, would leave no semaphore negative.

### cw07/zad2, `PizzeriaPosix_proofs`

From the same assumption: `TypeCorrect`, `CountersAreRight`, `NobodyIsStuck`, and
`Refinement` to the same `PizzaLine`. Its `IInv` has the conjuncts of zad1 that speak of the
shared memory (`PizzasKnown`, `OvenOwned`, `OvenCounted`, `TableFound`,
`TableCounted`; the lemmas on which both rest are in `OvenTable_proofs`), but
other permits. In zad1 one `semop` takes several units at once; here each
`sem_wait` takes one, and the worker then waits for the next with the first in
its hand. `Permits` says of each semaphore that its value and the workers that
hold a unit of it (`Held`) add up: to 1 for a lock, to the size of the oven, to
what is free and what is taken on the table. Mutual exclusion is the case of
the locks.

`NobodyIsStuck` is the theorem of zad1, and says more here, as a worker waits for one
semaphore with others in hand: `WaitsFor`. No one waits while it holds TABLE_USED, so that is free; the
deliverers then wait for TABLE_READY only, the table is empty and TABLE_SPACE is not
0, so OVEN_USED comes back from the cooks that wait for the table; and so on to the
first wait of a cook. That order of the semaphores is what the code gets right.

### cw09/zad1, `Santa_proofs`

From `SantaAssumption`, for any reindeer and elves: `TypeCorrect`, `ReindeerPull`,
`ElvesStay` and `NotMissed`, the three safety properties of the runs, and `NobodyIsStuck`. The type
invariant is not inductive: that `reindeers` and `elves` stay within their bounds
follows from what they count. `IInv` says

- `ReindeerCounted`: no more reindeer are counted than wait; some may wait uncounted, released by
  the last delivery and without the mutex yet;
- `GroupStays`: the entries of `elves_id` that count are elves that wait, each at its own index;
- `SleighReady`, `GroupReady`: the numbers stay full while Santa delivers or helps, though he
  has unlocked the mutex;
- `DeliveriesMade`: the mutex stays locked after the last delivery, and only then;
- `SantaNotMissed` itself, and what is left of the types.

`NobodyIsStuck`: until the last delivery Santa or a reindeer can go on, unless a reindeer
overtook one that was released with it, the condition under which the runs check `SantaEnds`.
Then the reindeer that wait are those that are counted or, with the counter at 0, have
all been woken (`SleighCounted`); so they do not all sleep with too few counted, and
`SantaNotMissed` does the rest. The elves need not move for it.

### cw06/zad1, `ChatSysV_proofs`

From `ChatAssumption`, for any clients, slots, sizes of the queues, lines and accidents:

- `TypeCorrect`: types, and that no queue holds more than it can;
- `TableIsRight`: an active client has the slot of its id, and no queue two slots;
- `SendersAreRight`: no message names the slot of somebody else as its sender;
- `LeaversAreAnnounced`: a registered queue that is gone has been announced by a STOP;
- `LinesInOrder`: nobody is shown a 2ALL line after a later line of the same user.

The invariant has two parts. `Base` relates slots, queues and messages:

- `InitsFirst`, `StopsLast`: an INIT is the first thing a client sends and a STOP the
  last, one of each; until the server takes the INIT the client has no slot. As
  everything else overtakes INIT, a slot is given only when nothing waits that
  names it, which is why `SenderRight` is kept;
- `SlotsRight`, `IdsRight`, `AnswerRight`: a slot, the id of its client, and the id that is
  on its way to it agree;
- `QueuesThere`, `LeaversTell`: a client that runs has its queue; one that leaves has told the
  server, or has no slot any more;
- `Typed`, `QueuesRight`, `ServerRight`, `OutboxRight`: which messages may be where.

`Order` says that all anybody has of a user's lines is older than any 2ALL line of
that user on its way (`AllInOrder`), and than the next line it writes
(`NextIsNew`); the line the server is sending is older than both and new to those
who have yet to get it (`FeedbackIsNew`).

### cw06/zad2, `ChatPosix_proofs`

From its `ChatAssumption`, which says the same: `TypeCorrect`, `SendersAreRight` (slots and the senders of
messages, as in zad1) and `StopsWait` (when the server has ended, each client in its loop
has yet to read a STOP). Here the queues are sorted by priority and INIT is the
lowest. `IInv` says of slots and ids what `Base` says (`AnswerRight`,
`StopsLast`, `ServerRight`, `OutboxRight`), and `StopComes`: a server that ends has sent a
STOP to each client or is going to, also to one that has not read its id yet. What an id
that is no slot does to the server is in every one of these steps: `TypeCorrect` says that such an
id comes from a misread answer only, the other two theorems leave those behaviours out.

### cw10/zad1, `TicTacToe_proofs`

From `TicTacToeAssumption` (at least one client, slot and cell), for any clients, slots,
boards and lines, and any number of pings, interrupts and ends of file: `TypeCorrect`,
`OpponentsAgree`, `AtMostOneWaits`, `LeftAreTold`, `OneHasTheTurn` and `BoardsAreThere`, the
six invariants of the run. They speak of moments at which main is idle; the inductive
invariant `Inv` says what is true while the threads are half-way through a change of
the array that neither keeps the other from seeing. Each part needs those before it:

- `Base`, which holds whatever happens, the exit of the server included (`ExitBase`): a client has one descriptor and a slot that is taken
  a descriptor of its own (`DescriptorsRight`, `SlotsRight`); who waits to be accepted has got nothing and
  has not moved (`BacklogRight`); the slots main and manage are at are theirs still
  (`ThreadsRight`). So what a thread writes reaches one client, the one it means (`ServerSends`);
- `Pairs`, without a race and until the server exits, as all that follows (`Fine`): opponents are mutual and share a board nobody else has, except
  the two main is giving one (`Starting`) and the two manage is parting (`Removing`) (`ArrayRight`); what main
  and manage have read into their variables is so still (`MainRight`, `ManageRight`);
- `Parting`: who waits and is not told to leave (`Staying`) has never played, and there is one such
  client, or two of which main is pairing one;
- `Turning`, as long as no message is handled twice: every MOVE carries the slot of its
  sender (`IdsRight`: a client gets no board before its id), so a move is that of the
  player at turn; a client that waits or is being paired has none, and two
  opponents have one between them (`TurnsRight`): a BOARD to be read, a MOVE on its way, or one at
  which manage is;
- `BoardsThere`, until the server exits: whom manage lets move has a turn, so it is not one of the two that main has paired and
  not yet given a board.

### The small programs, `Programs_proofs`

About cw08/zad1, from `NegativeAssumption` (at least one column, row and
thread, a positive `max_pixel`), for every image and every number of threads:

- `TypeCorrect`: types, and that a thread that works is at a pixel of the image
  (with `OnPixel` and `NextTyped` for the order of the loops);
- `BlocksPartition`: each column is in the block of exactly one thread, from
  `CoefEnough`, the arithmetic of rounding up;
- `BlocksRight`: `BlocksNegated`. Its invariant `BlockInv` says that the negated
  pixels are exactly those some thread has passed in the order of its loops
  (`Passed`, `GoesOnPasses`), and that what a thread has read is still in its
  pixel; both need that no two blocks have a column in common (`Apart`). At the end every thread has passed
  its whole block, and the blocks cover the image (`Covered`);
- `NegatedRight`: `NegatedOnce`, in either mode. In mode numbers a pixel is the
  thread's whose number the smaller one of the value and its negative gives
  (`Owner`), and negating the pixel does not change that (`LowerRight`).
  `NumbersInv` says that the negated pixels are exactly those their owners have
  passed, row by row (`OwnedRight`), and that a thread that is about to replace a
  pixel owns it and has its present value in hand (`ThreadInRows`). A thread that is
  not overtaken decides for its own pixels only (`DecidesRight`); this is the one
  place that needs `~Overtaken`, and why the property is stated with it.

About cw03/zad2, `RectanglesOnce`: with `n / n_proc + 1` rectangles for each of
`n_proc` processes every rectangle is in exactly one file, so `get_result` adds
up each of them once.

About the mains of cw07, `FreshStart`: `StartsFresh` for any positive numbers of
cooks and deliverers (`Numbers`: main.c of zad1 and zad2 check both). Main begins
with its semaphores removed unless something went wrong in an earlier run, and
to know that, `MainInv` relates where main is to the arrays it has
and the pids it has recorded (`Progress`), says which of its children can still handle a
SIGINT (`Children`), and that without accidents a SIGINT finds all of them recorded
and past `exec`, so that `handle_exit` comes to its end (`Orderly`).

About cw04/zad3, `CountsAreRight`: `CountsRight` for any number of signals. For
zad3b, `SignalsInv` says that one thing is under way at a time, and what has been
counted by then (`Exchange`): the sender's turn, a signal, its handler, the
confirmation, the handler of that; or nothing any more. For zad3a, that the
signals a process has counted, those it is counting and those pending are
not more than were sent to it (`AsSent`), and that a handler that counts is at the
top of the stack or was interrupted just once (`Frames`).

About cw05/zad3, `LinesAreRight`: `LinesRight` for any number of producers, rows and
records and any capacity of the FIFO. What is on its way to the file, in the
consumer's `record`, the FIFO and, when records are large, the buffer of the one
producer that writes, is a stream (`Stream`). `StreamRight` says that it consists of
whole records, header and both parts, and that each comes after all those its
producer has cut before it, in the file (`InFile`) or earlier in the stream
(`Follows`); `Begun` counts them. A write appends a record (`FollowsAppend`,
`StreamGrows`), `AddLine` takes the first one out and puts it at the end of its line
(`FollowsDrop`, `LineGrows`); it never finds a record cut off by the end of the FIFO,
which its second guard would allow, since the length of the stream is a multiple of 3.

The last three theorems hold of the programs alone and as `MCPrograms` runs them.

### Only model-checked

Liveness (`KeepsDelivering`, `WorkersEnd`, `SantaEnds`, `ListComes`, `StopReachesAll`,
`SenderEnds`, `LineEnds`, `AllStored`) is beyond the prover. Of `KeepsDelivering` and
`SantaEnds` the part that is a safety property, that there is no deadlock, is proved (`NobodyIsStuck`);
that the steps taken lead to the goal is not. Every invariant, every
refinement and every other safety property that a passing run checks is proved.

## Not modelled

In the chats a client is not started again in the same home, and over POSIX queues
no client's descriptor is closed through an index outside the array; in the game
failed system calls, a second SIGINT, destroyed mutexes and a client that never answers a ping are left out. For
cw07 a second run that starts while workers of a killed one are still there, and what `kill(-1)` does to other
programs, are left out; for cw09 the end of main, which cancels the threads. In
cw05/zad1 a fork that fails is left out, and so is `parse_file`; `main` runs as many lines
as there are components (`count[0]`, line 256) instead of `count[1]`, so lines
beyond that number never run, and lines that are not there are looked for in, or past, what
`calloc` gave too much of on line 129. In cw03/zad2 the
values of the rectangles are left out (`(1/2)*width` on line 57 is 0: the left
end of each rectangle is used, not its middle). cw01, the array of blocks, is sequential
and not modelled yet. cw02, cw03/zad1 and zad3, cw04/zad1 and zad2, cw05/zad2 and
kol1 are sequential I/O or demonstrations of one system call, and are left out.

## Plan

1. cw10: the game against an abstract game of two players, and that every game ends.
2. cw01: the blocks under sequences of create, count, remove.
