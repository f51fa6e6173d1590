----------------------- MODULE BandwidthSingleThreaded -----------------------
(***************************************************************************)
(* The single-threaded server and client of test/benchmarks/msg_bw.cpp.     *)
(* The thread that runs the io_context paces its sends, or its receives,    *)
(* with unsynchronized_semaphores, whose operations are steps of their      *)
(* specification (CountingSemaphore); completions come from the completion  *)
(* queues (CompletionQueue), whose readers run between two handlers.  The   *)
(* server sends a message for each permit of sem.  So does the client       *)
(* receive; with a control band it receives a control message for a permit *)
(* of sem and, when that is there, the message for a permit of sem2.        *)
(*                                                                         *)
(* `stack' is what the thread has still to do, the innermost call last;     *)
(* functions dispatched from within a handler run nested in it.            *)
(***************************************************************************)
EXTENDS Naturals, Sequences, FiniteSets, SequencesExt

CONSTANTS
    Iterations,   \* option -i
    QueueSize     \* option -q

VARIABLES
    options,     \* the flags --ctrl and -s of the command line
    stack,
    count,       \* permits, by semaphore
    stored,      \* whether a handler waits, by semaphore
    inflight,    \* sends or receives posted on endpoint and not completed
    ctrl,        \* sends or receives posted on ctrl_endpoint and not completed
    initiated, completed,
    shutdown     \* endpoint->shutdown() and then signals.cancel() were called

vars == <<options, stack, count, stored, inflight, ctrl, initiated, completed, shutdown>>

Options == [ctrl : BOOLEAN, server : BOOLEAN]
CtrlBand == options.ctrl
IsServer == options.server

Semaphores == {"sem", "sem2"}
Labels == {"post_buffers", "granted_sem", "granted_sem2", "transfer", "again",
           "completed", "check", "ctrl_completed", "wait_sem2", "return",
           "stopped", "throw"}

TypeOK ==
    /\ options \in Options
    /\ stack \in Seq(Labels)
    /\ count \in [Semaphores -> Nat]
    /\ stored \in [Semaphores -> BOOLEAN]
    /\ inflight \in Nat /\ ctrl \in Nat
    /\ initiated \in Nat /\ completed \in Nat
    /\ shutdown \in BOOLEAN

(* The connections are there: the handler of accept or connect is running.  *)
Init ==
    /\ options \in Options
    /\ stack = <<"post_buffers">>
    /\ count = [s \in Semaphores |-> QueueSize]
    /\ stored = [s \in Semaphores |-> FALSE]
    /\ inflight = 0
    /\ ctrl = 0
    /\ initiated = 0
    /\ completed = 0
    /\ shutdown = FALSE

At(label) == stack # <<>> /\ Last(stack) = label

(* The innermost call goes on as `label', having called `nested' if any.   *)
Proceed(label, nested) == stack' = Front(stack) \o <<label>> \o nested

Granted(s) == <<IF s = "sem" THEN "granted_sem" ELSE "granted_sem2">>

Mut_TakeUnguarded(s, label) ==
    /\ count' = [count EXCEPT ![s] = @ - 1]
    /\ Proceed(label, Granted(s))
    /\ UNCHANGED stored

AsyncWait(s, label) ==
    IF count[s] > 0
    THEN /\ count' = [count EXCEPT ![s] = @ - 1]
         /\ Proceed(label, Granted(s))
         /\ UNCHANGED stored
    ELSE /\ stored' = [stored EXCEPT ![s] = TRUE]
         /\ Proceed(IF stored[s] THEN "throw" ELSE label, <<>>)
         /\ UNCHANGED count

Signal(s, label) ==
    IF stored[s]
    THEN /\ stored' = [stored EXCEPT ![s] = FALSE]
         /\ Proceed(label, Granted(s))
         /\ UNCHANGED count
    ELSE /\ count' = [count EXCEPT ![s] = @ + 1]
         /\ Proceed(label, <<>>)
         /\ UNCHANGED stored

Mut_PaceSem == "sem"

(* The semaphore that paces the transfers on endpoint. *)
Pace == IF CtrlBand /\ ~IsServer THEN "sem2" ELSE "sem"

-----------------------------------------------------------------------------
PostBuffers ==
    /\ At("post_buffers")
    /\ AsyncWait("sem", "return")
    /\ UNCHANGED <<options, inflight, ctrl, initiated, completed, shutdown>>

(* The handler of sem: the server sends the control message and goes on,    *)
(* the client posts the receive of the control message and waits for it.    *)
GrantedSem ==
    /\ At("granted_sem")
    /\ ctrl' = IF CtrlBand THEN ctrl + 1 ELSE ctrl
    /\ Proceed(IF Pace = "sem" THEN "transfer" ELSE "return", <<>>)
    /\ UNCHANGED <<options, count, stored, inflight, initiated, completed, shutdown>>

GrantedSem2 ==
    /\ At("granted_sem2")
    /\ Proceed("transfer", <<>>)
    /\ UNCHANGED <<options, count, stored, inflight, ctrl, initiated, completed,
                   shutdown>>

(* endpoint->send or recv, ++initiated *)
Transfer ==
    /\ At("transfer")
    /\ inflight' = inflight + 1
    /\ initiated' = initiated + 1
    /\ Proceed("again", <<>>)
    /\ UNCHANGED <<options, count, stored, ctrl, completed, shutdown>>

(* if (initiated < iterations) asio::dispatch(io_context, post_buffers) *)
Again ==
    /\ At("again")
    /\ Proceed("return",
               IF initiated < Iterations THEN <<"post_buffers">> ELSE <<>>)
    /\ UNCHANGED <<options, count, stored, inflight, ctrl, initiated, completed,
                   shutdown>>

Return ==
    /\ At("return")
    /\ stack' = Front(stack)
    /\ UNCHANGED <<options, count, stored, inflight, ctrl, initiated, completed,
                   shutdown>>

-----------------------------------------------------------------------------
(* The completion handlers. *)

Complete ==
    /\ stack = <<>>
    /\ inflight > 0
    /\ inflight' = inflight - 1
    /\ completed' = completed + 1
    /\ stack' = <<"completed">>
    /\ UNCHANGED <<options, count, stored, ctrl, initiated, shutdown>>

SignalPace ==
    /\ At("completed")
    /\ Signal(Pace, "check")
    /\ UNCHANGED <<options, inflight, ctrl, initiated, completed, shutdown>>

(* The last completion shuts the endpoint down and cancels the wait for     *)
(* signals.                                                                *)
CheckCompleted ==
    /\ At("check")
    /\ shutdown' = (shutdown \/ completed = Iterations)
    /\ Proceed("return", <<>>)
    /\ UNCHANGED <<options, count, stored, inflight, ctrl, initiated, completed>>

(* A control message: nothing to do for the server.                        *)
CompleteCtrl ==
    /\ stack = <<>>
    /\ ctrl > 0
    /\ ctrl' = ctrl - 1
    /\ stack' = IF IsServer THEN <<>> ELSE <<"ctrl_completed">>
    /\ UNCHANGED <<options, count, stored, inflight, initiated, completed, shutdown>>

SignalSem ==
    /\ At("ctrl_completed")
    /\ Signal("sem", "wait_sem2")
    /\ UNCHANGED <<options, inflight, ctrl, initiated, completed, shutdown>>

WaitSem2 ==
    /\ At("wait_sem2")
    /\ AsyncWait("sem2", "return")
    /\ UNCHANGED <<options, inflight, ctrl, initiated, completed, shutdown>>

(* The cancelled wait for signals stops the io_context. *)
Stop ==
    /\ stack = <<>>
    /\ shutdown
    /\ stack' = <<"stopped">>
    /\ UNCHANGED <<options, count, stored, inflight, ctrl, initiated, completed,
                   shutdown>>

Stopped == stack = <<"stopped">>

ThreadStep ==
    \/ PostBuffers \/ GrantedSem \/ GrantedSem2 \/ Transfer \/ Again \/ Return
    \/ SignalPace \/ CheckCompleted \/ SignalSem \/ WaitSem2 \/ Stop

-----------------------------------------------------------------------------
(* Properties. *)

Frames(label) == Cardinality({i \in DOMAIN stack : stack[i] = label})

Holds(s) ==
    IF s = Pace
    THEN inflight + Frames("completed") + Frames("transfer")
            + Frames(Head(Granted(s)))
    ELSE Frames("granted_sem") + ctrl + Frames("ctrl_completed")

(***************************************************************************)
(* Every permit is either free or stands for one transfer: never more than  *)
(* -q transfers are queued in parallel, and no permit gets lost although    *)
(* the handlers of the semaphores run nested in the completions.           *)
(***************************************************************************)
PermitsConserved ==
    \A s \in {"sem", Pace} : count[s] + Holds(s) = QueueSize

(***************************************************************************)
(* async_wait is never called beside a stored handler: it would throw.     *)
(***************************************************************************)
NothingThrown == ~At("throw")

(***************************************************************************)
(* Calls nest at most as deep as the queue is long.                        *)
(***************************************************************************)
NestingBounded == Len(stack) <= 2 * QueueSize + 2

(***************************************************************************)
(* The io_context is stopped when all the messages were transferred, with   *)
(* nothing left on the endpoint.                                           *)
(***************************************************************************)
StopsWhenDone ==
    Stopped => completed = Iterations /\ initiated = Iterations /\ inflight = 0
=============================================================================
