----------------------------- MODULE EventQueue -----------------------------
(***************************************************************************)
(* asiofi::event_queue (include/asiofi/event_queue.hpp): one-shot reads of  *)
(* connection events, for all the event queues of several programs, each of *)
(* which runs its io_context on one thread.                                *)
(*                                                                         *)
(* async_read either waits on the file descriptor of the queue or, when     *)
(* fi_trywait says that an event is there, dispatches the read_op, which    *)
(* from within a handler runs it at once.  A read_op that runs blocks in    *)
(* fi_eq_sread for at most 100 ms.  Frames on the stack of a program are    *)
(* read_ops: with NoEvent still in fi_eq_sread, otherwise inside the        *)
(* completion handler that was given the event.                            *)
(***************************************************************************)
EXTENDS Naturals, Sequences, FiniteSets, SequencesExt

CONSTANTS
    Programs,
    Queues,        \* the event queues of all programs
    Owner(_),      \* the program a queue belongs to
    Events,        \* what a queue may hold
    Expected(_),   \* the events the handlers that read a queue can take
    NoEvent

VARIABLES
    events,      \* provider: events not yet read, oldest first, by queue
    signalled,   \* provider: the descriptor of the queue is readable
    waiting,     \* number of read_ops in async_wait, by queue
    ready,       \* read_ops queued in the io_context, by program
    stack,       \* read_ops running, innermost last, by program
    thrown       \* history: the exceptions that left run(), by program

eqVars == <<events, signalled, waiting, ready, stack, thrown>>

Frames == [queue : Queues, event : Events \cup {NoEvent}]
Exceptions == {"unexpected", "failed", "timeout", "info"}

EqTypeOK ==
    /\ events \in [Queues -> Seq(Events)]
    /\ signalled \in [Queues -> BOOLEAN]
    /\ waiting \in [Queues -> Nat]
    /\ ready \in [Programs -> Seq(Queues)]
    /\ stack \in [Programs -> Seq(Frames)]
    /\ thrown \in [Programs -> SUBSET Exceptions]

EqInit ==
    /\ events = [q \in Queues |-> <<>>]
    /\ signalled = [q \in Queues |-> FALSE]
    /\ waiting = [q \in Queues |-> 0]
    /\ ready = [p \in Programs |-> <<>>]
    /\ stack = [p \in Programs |-> <<>>]
    /\ thrown = [p \in Programs |-> {}]

Frame(q, e) == [queue |-> q, event |-> e]

(* Program p executes its own code: it is not inside a fi_eq_sread. *)
HasControl(p) == stack[p] # <<>> => Last(stack[p]).event # NoEvent

Occurrences(x, s) == Cardinality({i \in DOMAIN s : s[i] = x})

(* Reads of q that have not taken an event yet. *)
Outstanding(q) ==
    waiting[q] + Occurrences(q, ready[Owner(q)])
               + Occurrences(Frame(q, NoEvent), stack[Owner(q)])

-----------------------------------------------------------------------------
(* The provider puts an event into a queue, which signals its descriptor.   *)
Deliver(q, e) ==
    /\ events' = [events EXCEPT ![q] = Append(@, e)]
    /\ signalled' = [signalled EXCEPT ![q] = TRUE]
    /\ UNCHANGED <<waiting, ready, stack, thrown>>

-----------------------------------------------------------------------------
(* async_read, called by the program q belongs to. *)

Mut_ReadLaterUntried(q) ==
    /\ signalled' = [signalled EXCEPT ![q] = FALSE]
    /\ waiting' = [waiting EXCEPT ![q] = @ + 1]
    /\ UNCHANGED <<events, ready, stack, thrown>>

Mut_ReadLaterStale(q) ==
    /\ events[q] = <<>>
    /\ waiting' = [waiting EXCEPT ![q] = @ + 1]
    /\ UNCHANGED <<events, signalled, ready, stack, thrown>>

(* fi_trywait finds no event: it takes back an old signal. *)
ReadLater(q) ==
    /\ events[q] = <<>>
    /\ signalled' = [signalled EXCEPT ![q] = FALSE]
    /\ waiting' = [waiting EXCEPT ![q] = @ + 1]
    /\ UNCHANGED <<events, ready, stack, thrown>>

Mut_ReadNowAndLater(q) ==
    /\ events[q] # <<>>
    /\ \/ /\ stack' = [stack EXCEPT ![Owner(q)] = Append(@, Frame(q, NoEvent))]
          /\ UNCHANGED ready
       \/ /\ stack[Owner(q)] = <<>>
          /\ ready' = [ready EXCEPT ![Owner(q)] = Append(@, q)]
          /\ UNCHANGED stack
    /\ waiting' = [waiting EXCEPT ![q] = @ + 1]
    /\ UNCHANGED <<events, signalled, thrown>>

(* asio::dispatch: at once when called from a handler, which with an empty  *)
(* stack is one of somebody else; posted when called outside run().         *)
ReadNow(q) ==
    /\ events[q] # <<>>
    /\ \/ /\ stack' = [stack EXCEPT ![Owner(q)] = Append(@, Frame(q, NoEvent))]
          /\ UNCHANGED ready
       \/ /\ stack[Owner(q)] = <<>>
          /\ ready' = [ready EXCEPT ![Owner(q)] = Append(@, q)]
          /\ UNCHANGED stack
    /\ UNCHANGED <<events, signalled, waiting, thrown>>

AsyncRead(q) == ReadLater(q) \/ ReadNow(q)

-----------------------------------------------------------------------------
(* The io_context and the read_ops. *)

(* Between two handlers run() finds the descriptor readable: asio queues    *)
(* every wait on it.                                                       *)
DescriptorReady(q) ==
    /\ stack[Owner(q)] = <<>>
    /\ waiting[q] > 0
    /\ signalled[q]
    /\ ready' = [ready EXCEPT ![Owner(q)] =
                    @ \o [i \in 1 .. waiting[q] |-> q]]
    /\ waiting' = [waiting EXCEPT ![q] = 0]
    /\ UNCHANGED <<events, signalled, stack, thrown>>

RunOne(p) ==
    /\ stack[p] = <<>>
    /\ ready[p] # <<>>
    /\ stack' = [stack EXCEPT ![p] = <<Frame(Head(ready[p]), NoEvent)>>]
    /\ ready' = [ready EXCEPT ![p] = Tail(@)]
    /\ UNCHANGED <<events, signalled, waiting, thrown>>

Reading(p, q) == stack[p] # <<>> /\ Last(stack[p]) = Frame(q, NoEvent)

(* An exception passes through all the handlers and leaves run().          *)
ThrowOut(p, what) ==
    /\ stack' = [stack EXCEPT ![p] = <<>>]
    /\ thrown' = [thrown EXCEPT ![p] = @ \cup {what}]

(* fi_eq_sread takes the event; whether taking the last one takes back the *)
(* signal depends on the provider.                                         *)
Take(q) ==
    /\ events' = [events EXCEPT ![q] = Tail(@)]
    /\ \/ UNCHANGED signalled
       \/ /\ Len(events[q]) = 1
          /\ signalled' = [signalled EXCEPT ![q] = FALSE]

ReadExpected(p, q) ==
    /\ Reading(p, q)
    /\ events[q] # <<>>
    /\ Head(events[q]) \in Expected(q)
    /\ Take(q)
    /\ stack' = [stack EXCEPT ![p] =
                    Append(Front(@), Frame(q, Head(events[q])))]
    /\ UNCHANGED <<waiting, ready, thrown>>

(* An error event other than FI_ECONNREFUSED makes reader_handle_error      *)
(* throw, an event nobody expects the handler.                             *)
ReadUnexpected(p, q) ==
    /\ Reading(p, q)
    /\ events[q] # <<>>
    /\ Head(events[q]) \notin Expected(q)
    /\ Take(q)
    /\ ThrowOut(p, IF Head(events[q]).kind = "failed" THEN "failed"
                                                      ELSE "unexpected")
    /\ UNCHANGED <<waiting, ready>>

(* The handler of every event but a request and an error is given a default *)
(* constructed info, whose query may find no provider: it throws before the *)
(* handler is called, and the event is gone.                               *)
ReadInfoThrows(p, q) ==
    /\ Reading(p, q)
    /\ events[q] # <<>>
    /\ Head(events[q]).kind \notin {"connreq", "failed"}
    /\ Take(q)
    /\ ThrowOut(p, "info")
    /\ UNCHANGED <<waiting, ready>>

ReadTimesOut(p, q) ==
    /\ Reading(p, q)
    /\ events[q] = <<>>
    /\ ThrowOut(p, "timeout")
    /\ UNCHANGED <<events, signalled, waiting, ready>>

InHandlerOf(p, q) ==
    stack[p] # <<>> /\ Last(stack[p]).queue = q /\ Last(stack[p]).event # NoEvent

HandlerReturns(p) ==
    /\ stack[p] # <<>>
    /\ HasControl(p)
    /\ stack' = [stack EXCEPT ![p] = Front(@)]
    /\ UNCHANGED <<events, signalled, waiting, ready, thrown>>

(***************************************************************************)
(* No event is missed: while a read waits on the descriptor of a queue that *)
(* holds an event, the descriptor is readable.                             *)
(***************************************************************************)
NoMissedEvent ==
    \A q \in Queues : waiting[q] > 0 /\ events[q] # <<>> => signalled[q]
=============================================================================
