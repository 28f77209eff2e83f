------------------------------- MODULE Signals -------------------------------
(****************************************************************************)
(* Two pairs of programs of cw04 that count signals.  The sender sends      *)
(* num_of_sig signals sig1 and one sig2.  In zad3a it sends them at once,   *)
(* and the catcher, told to stop by sig2, sends as many back as it has      *)
(* counted.  In zad3b the catcher confirms every signal and the sender      *)
(* waits for the confirmation before it goes on.                            *)
(*                                                                          *)
(* A process is a stack of frames: main, and the handlers that have         *)
(* interrupted it, each with the step it is at and the signals it keeps     *)
(* blocked.  The top frame runs.  Most handlers end in a sigsuspend from    *)
(* which they never come back, so the stack grows with every signal.        *)
(* Of all signals only sig1 and sig2 matter: the others are blocked.        *)
(****************************************************************************)
EXTENDS Integers, Sequences, SequencesExt

CONSTANT MaxSignals     \* the largest num_of_sig

VARIABLES
  zad,          \* which pair of programs: "zad3a" or "zad3b"
  mode,         \* "kill" or "sigqueue" (SIGUSR1, SIGUSR2), "sigrt" (real time)
  num_of_sig,
  frames,       \* the frames of each process, <<>> once it has ended
  handled,      \* the signals for which it has set its handler
  pending,      \* how many of each signal are pending for it
  recieved,     \* the counters of the two programs
  sent,         \* how many signals the sender has sent
  sent_back     \* how many sig1 the catcher of zad3a has sent back

vars == <<zad, mode, num_of_sig, frames, handled, pending, recieved, sent, sent_back>>
given == <<zad, mode, num_of_sig>>

sig1 == 1               \* SIGUSR1 or SIGRTMIN
sig2 == 2               \* SIGUSR2 or SIGRTMAX
Sigs == {sig1, sig2}
Processes == {"sender", "catcher"}

-----------------------------------------------------------------------------
(* Frames and signals. *)

Top(p) == Last(frames[p])
Runs(p, step) == frames[p] # <<>> /\ Top(p).at = step
Goes(p, step) == frames' = [frames EXCEPT ![p][Len(frames[p])].at = step]
Exits(p) == frames' = [frames EXCEPT ![p] = <<>>]

\* The end of a handler: the frame below goes on, past its sigsuspend if it was
\* in one.  Only the sender of zad3b has handlers that end.
Returns(p) ==
  LET below == Front(frames[p]) IN
  frames' = [frames EXCEPT ![p] =
    IF Last(below).at = "suspended"
    THEN [below EXCEPT ![Len(below)].at = "sends"] ELSE below]

\* kill(2) and sigqueue(2): a real-time signal is queued, an ordinary one that is
\* already pending is merged, and one for a process that has ended is lost.
Raise(p, s) ==
  pending' = [pending EXCEPT ![p][s] =
    IF frames[p] = <<>> THEN @ ELSE IF mode = "sigrt" THEN @ + 1 ELSE 1]

\* sigsuspend(&blocked) lets sig1 and sig2 through, whatever the frame blocks.
Blocked(p) == IF Top(p).at = "suspended" THEN {} ELSE Top(p).mask
Deliverable(p) == {s \in Sigs \ Blocked(p) : pending[p][s] > 0}

\* The kernel delivers the lowest pending signal that is not blocked.  While its
\* handler runs, that signal is blocked as well; the other one is not in sa_mask
\* and may interrupt it at once.  Without a handler the process is killed.
Deliver(p) ==
  /\ frames[p] # <<>>
  /\ \E s \in Deliverable(p) :
       /\ \A t \in Deliverable(p) : s <= t
       /\ pending' = [pending EXCEPT ![p][s] = @ - 1]
       /\ IF s \in handled[p]
          THEN frames' = [frames EXCEPT ![p] = Append(@,
                 [at |-> IF s = sig1 THEN "count" ELSE "report",
                  mask |-> Blocked(p) \union {s}])]
          ELSE Exits(p)
  /\ UNCHANGED <<given, handled, recieved, sent, sent_back>>

\* sigsuspend, in main or at the end of a handler.
Suspend(p) ==
  /\ Runs(p, "waits")
  /\ Goes(p, "suspended")
  /\ UNCHANGED <<given, handled, pending, recieved, sent, sent_back>>

Counts(p) == recieved' = [recieved EXCEPT ![p] = @ + 1]

-----------------------------------------------------------------------------
(* The sender. *)

\* How often the loop of send_signals runs: not at all for a negative number.
ToSend == IF num_of_sig > 0 THEN num_of_sig ELSE 0
NextSig == IF sent < ToSend THEN sig1 ELSE sig2

\* send_signals of zad3a: all the signals, then main's sigsuspend.
send_signals_a ==
  /\ zad = "zad3a"
  /\ Runs("sender", "sends")
  /\ Raise("catcher", NextSig)
  /\ sent' = sent + 1
  /\ Goes("sender", IF NextSig = sig1 THEN "sends" ELSE "waits")
  /\ UNCHANGED <<given, handled, recieved, sent_back>>

\* send_signals of zad3b: a sigsuspend after each signal.
send_signals_b ==
  /\ zad = "zad3b"
  /\ Runs("sender", "sends")
  /\ sent <= ToSend
  /\ Raise("catcher", NextSig)
  /\ sent' = sent + 1
  /\ Goes("sender", "waits")
  /\ UNCHANGED <<given, handled, recieved, sent_back>>

return_b ==
  /\ zad = "zad3b"
  /\ Runs("sender", "sends")
  /\ sent > ToSend
  /\ Exits("sender")
  /\ UNCHANGED <<given, handled, pending, recieved, sent, sent_back>>

\* The handlers of the sender: in zad3a the one of sig1 goes on waiting and the
\* one of sig2 ends the program, in zad3b both return.
sender_handler_a ==
  /\ zad = "zad3a"
  /\ \/ Runs("sender", "count") /\ Counts("sender") /\ Goes("sender", "waits")
     \/ Runs("sender", "report") /\ Exits("sender") /\ UNCHANGED recieved
  /\ UNCHANGED <<given, handled, pending, sent, sent_back>>

sender_handler_b ==
  /\ zad = "zad3b"
  /\ \/ Runs("sender", "count") /\ Counts("sender")
     \/ Runs("sender", "report") /\ UNCHANGED recieved
  /\ Returns("sender")
  /\ UNCHANGED <<given, handled, pending, sent, sent_back>>

-----------------------------------------------------------------------------
(* The catcher. *)

\* main sets the handler of sig1, then that of sig2, after it has printed its
\* pid: a signal may come first.
install ==
  /\ Runs("catcher", "installs")
  /\ IF sig1 \in handled["catcher"]
     THEN handled' = [handled EXCEPT !["catcher"] = Sigs] /\ Goes("catcher", "waits")
     ELSE handled' = [handled EXCEPT !["catcher"] = {sig1}] /\ UNCHANGED frames
  /\ UNCHANGED <<given, pending, recieved, sent, sent_back>>

\* send_back: as many sig1 as were counted, sig2, and the end of the program.
send_back ==
  /\ Runs("catcher", "report")
  /\ IF sent_back < recieved["catcher"]
     THEN Raise("sender", sig1) /\ sent_back' = sent_back + 1 /\ UNCHANGED frames
     ELSE Raise("sender", sig2) /\ Exits("catcher") /\ UNCHANGED sent_back
  /\ UNCHANGED <<given, handled, recieved, sent>>

catcher_handler_a ==
  /\ zad = "zad3a"
  /\ \/ /\ Runs("catcher", "count")
        /\ Counts("catcher")
        /\ Goes("catcher", "waits")
        /\ UNCHANGED <<given, handled, pending, sent, sent_back>>
     \/ send_back

\* Not the code: the signal is confirmed before it is counted.
catcher_confirms_first ==
  /\ zad = "zad3b"
  /\ \/ /\ Runs("catcher", "count")
        /\ Raise("sender", sig1)
        /\ Goes("catcher", "confirms")
        /\ UNCHANGED recieved
     \/ /\ Runs("catcher", "confirms")
        /\ Counts("catcher")
        /\ Goes("catcher", "waits")
        /\ UNCHANGED pending
     \/ /\ Runs("catcher", "report")
        /\ Raise("sender", sig2)
        /\ Exits("catcher")
        /\ UNCHANGED recieved
  /\ UNCHANGED <<given, handled, sent, sent_back>>

\* Not the code: sigsuspend comes before the confirmation.
catcher_suspends_first ==
  /\ zad = "zad3b"
  /\ \/ /\ Runs("catcher", "count")
        /\ Counts("catcher")
        /\ Goes("catcher", "waits")
        /\ UNCHANGED pending
     \/ /\ Runs("catcher", "report")
        /\ Raise("sender", sig2)
        /\ Exits("catcher")
        /\ UNCHANGED recieved
  /\ UNCHANGED <<given, handled, sent, sent_back>>

\* The handlers of zad3b: count, confirm and wait on; or confirm and end.
catcher_handler_b ==
  /\ zad = "zad3b"
  /\ \/ /\ Runs("catcher", "count")
        /\ Counts("catcher")
        /\ Goes("catcher", "confirms")
        /\ UNCHANGED pending
     \/ /\ Runs("catcher", "confirms")
        /\ Raise("sender", sig1)
        /\ Goes("catcher", "waits")
        /\ UNCHANGED recieved
     \/ /\ Runs("catcher", "report")
        /\ Raise("sender", sig2)
        /\ Exits("catcher")
        /\ UNCHANGED recieved
  /\ UNCHANGED <<given, handled, sent, sent_back>>

-----------------------------------------------------------------------------
(* Both started with the same mode.  The sender is given the pid the catcher *)
(* has printed; a num_of_sig that is not positive (-1 stands for those below *)
(* 0) is reported and taken all the same.                                    *)

Init ==
  /\ zad \in {"zad3a", "zad3b"}
  /\ mode \in {"kill", "sigqueue", "sigrt"}
  /\ num_of_sig \in -1 .. MaxSignals
  /\ frames = [sender |-> <<[at |-> "sends", mask |-> {}]>>,
               catcher |-> <<[at |-> "installs", mask |-> {}]>>]
  /\ handled = [sender |-> Sigs, catcher |-> {}]
  /\ pending = [p \in Processes |-> [s \in Sigs |-> 0]]
  /\ recieved = [p \in Processes |-> 0]
  /\ sent = 0
  /\ sent_back = 0

Sender ==
  \/ send_signals_a \/ send_signals_b \/ return_b
  \/ sender_handler_a \/ sender_handler_b
  \/ Suspend("sender") \/ Deliver("sender")

Catcher ==
  \/ install \/ catcher_handler_a \/ catcher_handler_b
  \/ Suspend("catcher") \/ Deliver("catcher")

Next == Sender \/ Catcher

Spec == Init /\ [][Next]_vars
FairSpec == Spec /\ WF_vars(Sender) /\ WF_vars(Catcher)

-----------------------------------------------------------------------------
(* Properties. *)

Ended(p) == frames[p] = <<>>

\* What the two programs print.  The sender of zad3b reports as many signals as
\* it has sent, and so does its catcher: confirmations prevent the merging, and
\* no sig2 interrupts a count.  In zad3a signals are merged or cut off by sig2 on
\* either side, in every mode, but nobody counts one that was not sent to it.
CountsRight ==
  /\ zad = "zad3b" /\ Ended("sender") =>
       \A p \in Processes : recieved[p] = ToSend
  /\ zad = "zad3a" =>
       /\ recieved["sender"] <= sent_back
       /\ sent_back <= recieved["catcher"]
       /\ recieved["catcher"] <= ToSend

\* The catcher was killed by a signal it had no handler for yet; or the sender of
\* zad3b handles a confirmation before the sigsuspend that is to wait for it.
CatcherKilled == Ended("catcher") /\ handled["catcher"] # Sigs
ConfirmedEarly ==
  zad = "zad3b" /\ Len(frames["sender"]) > 1 /\ frames["sender"][1].at # "suspended"

\* The sender gets its answers and ends, however the signals interrupt each
\* other, unless one of these two accidents happens: then it waits for ever.
SenderEnds == []~(CatcherKilled \/ ConfirmedEarly) => <>Ended("sender")
=============================================================================
