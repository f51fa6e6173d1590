-------------------------- MODULE BandwidthServerMT --------------------------
(***************************************************************************)
(* The multi-threaded server of test/benchmarks/msg_bw.cpp: the main thread *)
(* fills a queue of buffers, the I/O thread sends them, and two             *)
(* synchronized_semaphores pace the two.  The operations of a semaphore are *)
(* steps of its specification (CountingSemaphore, which                    *)
(* SynchronizedSemaphore is shown to implement), the transmit completion    *)
(* queue is the first-in first-out service of CompletionQueue.             *)
(*                                                                         *)
(* `io' is the stack of what the I/O thread has still to do, the innermost  *)
(* call last; functions dispatched from within a handler run nested in it. *)
(***************************************************************************)
EXTENDS Naturals, Sequences, FiniteSets, SequencesExt

CONSTANTS
    Iterations,   \* option -i
    QueueSize     \* option -q

VARIABLES
    options,     \* the flag --ctrl of the command line
    main,        \* what the main thread does next
    io,          \* the I/O thread
    posted,      \* functions queued in the io_context, oldest first
    push,        \* permits of queue_push
    pop,         \* permits of queue_pop
    stored,      \* a handler waits in queue_pop
    queue,       \* buffers in the queue
    inflight,    \* sends posted on endpoint and not completed
    ctrl,        \* sends posted on ctrl_endpoint and not completed
    initiated, completed,
    shutdown     \* endpoint->shutdown() was called

vars == <<options, main, io, posted, push, pop, stored, queue, inflight, ctrl,
          initiated, completed, shutdown>>

Options == [ctrl : BOOLEAN]
CtrlBand == options.ctrl

Labels == {"post_buffers", "pop_buffer", "send_ctrl", "send", "again",
           "completed", "check", "return", "stop", "stopped", "terminate"}
MainLabels == {"while", "push_buffer", "signal", "count", "join", "exit"}

TypeOK ==
    /\ options \in Options
    /\ main \in MainLabels
    /\ io \in Seq(Labels)
    /\ posted \in Seq(Labels)
    /\ push \in Nat /\ pop \in Nat
    /\ stored \in BOOLEAN
    /\ queue \in Nat /\ inflight \in Nat /\ ctrl \in Nat
    /\ initiated \in Nat /\ completed \in Nat
    /\ shutdown \in BOOLEAN

Mut_InitUnpaced ==
    /\ options \in Options
    /\ main = "while"
    /\ io = <<>>
    /\ posted = <<"post_buffers">>
    /\ push = Iterations
    /\ pop = 0
    /\ stored = FALSE
    /\ queue = 0 /\ inflight = 0 /\ ctrl = 0
    /\ initiated = 0 /\ completed = 0
    /\ shutdown = FALSE

(* The handler of the last accept dispatches post_buffers once the          *)
(* connection is there; the main thread does not wait for it.              *)
Init ==
    /\ options \in Options
    /\ main = "while"
    /\ io = <<>>
    /\ posted = <<"post_buffers">>
    /\ push = QueueSize
    /\ pop = 0
    /\ stored = FALSE
    /\ queue = 0
    /\ inflight = 0
    /\ ctrl = 0
    /\ initiated = 0
    /\ completed = 0
    /\ shutdown = FALSE

-----------------------------------------------------------------------------
(* mt_main_thread *)

MainWait ==
    /\ main = "while"
    /\ initiated < Iterations
    /\ push > 0
    /\ push' = push - 1
    /\ main' = "push_buffer"
    /\ UNCHANGED <<options, io, posted, pop, stored, queue, inflight, ctrl,
                   initiated, completed, shutdown>>

PushBuffer ==
    /\ main = "push_buffer"
    /\ queue' = queue + 1
    /\ main' = "signal"
    /\ UNCHANGED <<options, io, posted, push, pop, stored, inflight, ctrl,
                   initiated, completed, shutdown>>

Mut_SignalTwice ==
    /\ main = "signal"
    /\ stored' = FALSE
    /\ posted' = IF stored THEN Append(posted, "pop_buffer") ELSE posted
    /\ pop' = pop + 1
    /\ main' = "count"
    /\ UNCHANGED <<options, io, push, queue, inflight, ctrl, initiated, completed,
                   shutdown>>

(* queue_pop.signal(): a handler that waits is posted, this thread not      *)
(* being in run().                                                         *)
SignalPop ==
    /\ main = "signal"
    /\ IF stored
       THEN /\ stored' = FALSE
            /\ posted' = Append(posted, "pop_buffer")
            /\ UNCHANGED pop
       ELSE /\ pop' = pop + 1
            /\ UNCHANGED <<stored, posted>>
    /\ main' = "count"
    /\ UNCHANGED <<options, io, push, queue, inflight, ctrl, initiated, completed,
                   shutdown>>

CountInitiated ==
    /\ main = "count"
    /\ initiated' = initiated + 1
    /\ main' = "while"
    /\ UNCHANGED <<options, io, posted, push, pop, stored, queue, inflight, ctrl,
                   completed, shutdown>>

MainLoopEnds ==
    /\ main = "while"
    /\ initiated = Iterations
    /\ main' = "join"
    /\ UNCHANGED <<options, io, posted, push, pop, stored, queue, inflight, ctrl,
                   initiated, completed, shutdown>>

Stopped == io = <<"stopped">>

(* thread.join() *)
Join ==
    /\ main = "join"
    /\ Stopped
    /\ main' = "exit"
    /\ UNCHANGED <<options, io, posted, push, pop, stored, queue, inflight, ctrl,
                   initiated, completed, shutdown>>

MainStep ==
    MainWait \/ PushBuffer \/ SignalPop \/ CountInitiated \/ MainLoopEnds \/ Join

-----------------------------------------------------------------------------
(* The I/O thread. *)

At(label) == io # <<>> /\ Last(io) = label

(* The innermost call goes on as `label', having called `nested' if any.   *)
Proceed(label, nested) == io' = Front(io) \o <<label>> \o nested

RunPosted ==
    /\ io = <<>>
    /\ posted # <<>>
    /\ io' = <<Head(posted)>>
    /\ posted' = Tail(posted)
    /\ UNCHANGED <<options, main, push, pop, stored, queue, inflight, ctrl,
                   initiated, completed, shutdown>>

(* post_buffers: queue_pop.async_wait, whose handler runs at once if there  *)
(* is a permit.  The exception it throws at a second wait would terminate   *)
(* the program.                                                            *)
PostBuffers ==
    /\ At("post_buffers")
    /\ IF pop > 0
       THEN /\ pop' = pop - 1
            /\ Proceed("return", <<"pop_buffer">>)
            /\ UNCHANGED stored
       ELSE /\ stored' = TRUE
            /\ Proceed(IF stored THEN "terminate" ELSE "return", <<>>)
            /\ UNCHANGED pop
    /\ UNCHANGED <<options, main, posted, push, queue, inflight, ctrl, initiated,
                   completed, shutdown>>

(* queue.front() and queue.pop() under queue_mtx. *)
PopBuffer ==
    /\ At("pop_buffer")
    /\ queue' = queue - 1
    /\ Proceed(IF CtrlBand THEN "send_ctrl" ELSE "send", <<>>)
    /\ UNCHANGED <<options, main, posted, push, pop, stored, inflight, ctrl,
                   initiated, completed, shutdown>>

SendCtrl ==
    /\ At("send_ctrl")
    /\ ctrl' = ctrl + 1
    /\ Proceed("send", <<>>)
    /\ UNCHANGED <<options, main, posted, push, pop, stored, queue, inflight,
                   initiated, completed, shutdown>>

Send ==
    /\ At("send")
    /\ inflight' = inflight + 1
    /\ Proceed("again", <<>>)
    /\ UNCHANGED <<options, main, posted, push, pop, stored, queue, ctrl,
                   initiated, completed, shutdown>>

(* asio::dispatch(io_context, post_buffers) *)
Again ==
    /\ At("again")
    /\ Proceed("return", <<"post_buffers">>)
    /\ UNCHANGED <<options, main, posted, push, pop, stored, queue, inflight,
                   ctrl, initiated, completed, shutdown>>

ReturnIo ==
    /\ At("return")
    /\ io' = Front(io)
    /\ UNCHANGED <<options, main, posted, push, pop, stored, queue, inflight,
                   ctrl, initiated, completed, shutdown>>

(* The transmit completion queues call the handler of a send that completed *)
(* from their readers, between two posted functions.                       *)
CompleteCtrl ==
    /\ io = <<>>
    /\ ctrl > 0
    /\ ctrl' = ctrl - 1
    /\ UNCHANGED <<options, main, io, posted, push, pop, stored, queue, inflight,
                   initiated, completed, shutdown>>

CompleteSend ==
    /\ io = <<>>
    /\ inflight > 0
    /\ inflight' = inflight - 1
    /\ completed' = completed + 1
    /\ io' = <<"completed">>
    /\ UNCHANGED <<options, main, posted, push, pop, stored, queue, ctrl, initiated,
                   shutdown>>

Mut_PermitLost ==
    /\ At("completed")
    /\ Proceed("check", <<>>)
    /\ UNCHANGED <<options, main, posted, push, pop, stored, queue, inflight,
                   ctrl, initiated, completed, shutdown>>

(* queue_push.signal() *)
SignalPush ==
    /\ At("completed")
    /\ push' = push + 1
    /\ Proceed("check", <<>>)
    /\ UNCHANGED <<options, main, posted, pop, stored, queue, inflight, ctrl,
                   initiated, completed, shutdown>>

Mut_CheckInitiated ==
    /\ At("check")
    /\ posted' = IF initiated = Iterations THEN Append(posted, "stop") ELSE posted
    /\ shutdown' = (shutdown \/ initiated = Iterations)
    /\ Proceed("return", <<>>)
    /\ UNCHANGED <<options, main, push, pop, stored, queue, inflight, ctrl,
                   initiated, completed>>

(* The last completion shuts the endpoint down and cancels the wait for     *)
(* signals, whose handler, queued with an error it does not look at, stops  *)
(* the io_context.                                                         *)
CheckCompleted ==
    /\ At("check")
    /\ posted' = IF completed = Iterations THEN Append(posted, "stop") ELSE posted
    /\ shutdown' = (shutdown \/ completed = Iterations)
    /\ Proceed("return", <<>>)
    /\ UNCHANGED <<options, main, push, pop, stored, queue, inflight, ctrl,
                   initiated, completed>>

Stop ==
    /\ At("stop")
    /\ Proceed("stopped", <<>>)
    /\ UNCHANGED <<options, main, posted, push, pop, stored, queue, inflight,
                   ctrl, initiated, completed, shutdown>>

IoStep ==
    \/ RunPosted \/ PostBuffers \/ PopBuffer \/ SendCtrl \/ Send \/ Again
    \/ ReturnIo \/ SignalPush \/ CheckCompleted \/ Stop

-----------------------------------------------------------------------------
(* Properties. *)

Count(label) == Cardinality({i \in DOMAIN io : io[i] = label})
CountPosted(label) == Cardinality({i \in DOMAIN posted : posted[i] = label})

(* Buffers a permit of queue_pop or a handler it was given to stands for.  *)
Announced == pop + Count("pop_buffer") + CountPosted("pop_buffer")

(***************************************************************************)
(* The queue holds exactly the buffers queue_pop has announced, and one     *)
(* more while the main thread is between the push and the signal: the I/O   *)
(* thread never pops an empty queue, which would be undefined.             *)
(***************************************************************************)
QueueMatchesPermits ==
    queue = Announced + (IF main = "signal" THEN 1 ELSE 0)

(* Transfers started by a permit of queue_push and not finished.           *)
Transfers ==
    (IF main = "push_buffer" THEN 1 ELSE 0)
        + queue + Count("send_ctrl") + Count("send") + inflight + Count("completed")

(***************************************************************************)
(* Every permit of queue_push is either free or stands for one transfer, so *)
(* that never more than -q transfers are queued in parallel, and no permit  *)
(* gets lost.                                                              *)
(***************************************************************************)
PermitsConserved == push + Transfers = QueueSize

(***************************************************************************)
(* async_wait of queue_pop is never called beside a stored handler: its     *)
(* exception would leave the I/O thread and terminate the program.         *)
(***************************************************************************)
NothingThrown == ~At("terminate")

(***************************************************************************)
(* The functions dispatched from within one another nest at most as deep as *)
(* the queue allows: each round uses up a buffer, and none comes back while *)
(* they run.                                                               *)
(***************************************************************************)
NestingBounded == Len(io) <= 2 * QueueSize + 1

(***************************************************************************)
(* The io_context is stopped when all the messages were sent, not before,   *)
(* with nothing left in the queue.                                         *)
(***************************************************************************)
StopsWhenDone ==
    Stopped => /\ completed = Iterations
               /\ queue = 0
               /\ inflight = 0
=============================================================================
