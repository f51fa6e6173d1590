--------------------------- MODULE CompletionQueue ---------------------------
(***************************************************************************)
(* asiofi::completion_queue (include/asiofi/completion_queue.hpp) with the  *)
(* operations connected_endpoint posts on it (send on the transmit queue,  *)
(* recv on the receive queue) and the provider that completes them.        *)
(*                                                                         *)
(* One thread runs the io_context and calls send and recv, as the library's *)
(* unsynchronized m_read_handler_queue requires; the provider works         *)
(* concurrently.  An operation is identified by its fi_context: async_read  *)
(* queues a handler that owns the context, fi_send or fi_recv is given its  *)
(* address and the provider returns it in the completion entry.            *)
(*                                                                         *)
(* The reader goes through                                                 *)
(*    "waiting"    async_wait on the queue's file descriptor               *)
(*    "scheduled"  a call of reader() is queued in the io_context          *)
(*    "reading"    in the fi_cq_read loop of reader()                      *)
(*    "executing"  in that loop, inside a completion handler               *)
(*    "drained"    past that loop, about to call fi_trywait in post_reader  *)
(*    "stopped"    left by an exception, which io_context::run() rethrows   *)
(***************************************************************************)
EXTENDS Naturals, Sequences, FiniteSets, SequencesExt

CONSTANTS
    Ops,         \* the operations, by their fi_context
    Depth,       \* how many operations the provider accepts at a time
    MayFail,     \* operations may complete with an error
    MayThrow,    \* completion handlers may throw
    NoEntry      \* no completion entry is being handled

ASSUME QueueAssumption ==
    /\ Depth \in Nat \ {0}
    /\ MayFail \in BOOLEAN
    /\ MayThrow \in BOOLEAN
    /\ NoEntry \notin [op : Ops, ok : BOOLEAN]

VARIABLES
    handlers,    \* m_read_handler_queue
    reader,
    current,     \* the entry the reader took last, until its handler is popped
    posted,      \* provider: operations accepted and not completed, oldest first
    entries,     \* provider: completion entries not yet read, oldest first
    armed,       \* provider: the next entry signals the file descriptor
    signalled,   \* the file descriptor is readable
    refused      \* history: what fi_send or fi_recv ever refused

vars == <<handlers, reader, current, posted, entries, armed, signalled, refused>>

Entries == [op : Ops, ok : BOOLEAN]
ReaderStates ==
    {"waiting", "scheduled", "reading", "executing", "drained", "stopped"}

TypeOK ==
    /\ handlers \in Seq(Ops)
    /\ reader \in ReaderStates
    /\ current \in Entries \cup {NoEntry}
    /\ reader = "executing" => current # NoEntry
    /\ reader \notin {"executing", "stopped"} => current = NoEntry
    /\ posted \in Seq(Ops)
    /\ entries \in Seq(Entries)
    /\ armed \in BOOLEAN
    /\ signalled \in BOOLEAN
    /\ refused \subseteq Ops

(* The constructor ends with post_reader() on an empty queue. *)
Init ==
    /\ handlers = <<>>
    /\ reader = "waiting"
    /\ current = NoEntry
    /\ posted = <<>>
    /\ entries = <<>>
    /\ armed = TRUE
    /\ signalled = FALSE
    /\ refused = {}

OpsOf(es) == [i \in 1 .. Len(es) |-> es[i].op]

-----------------------------------------------------------------------------
(* connected_endpoint::send and recv: called whenever the thread is not in  *)
(* the library, that is by other handlers, by a completion handler, or      *)
(* after an exception left io_context::run().                              *)

CallerHasControl == reader \notin {"reading", "drained"}

Unused(op) ==
    /\ \A i \in DOMAIN handlers : handlers[i] # op
    /\ \A i \in DOMAIN posted : posted[i] # op
    /\ \A i \in DOMAIN entries : entries[i].op # op
    /\ current # NoEntry => current.op # op

Mut_PushFront(op) == handlers' = <<op>> \o handlers

AsyncRead(op) == handlers' = Append(handlers, op)

PostAccepted(op) ==
    /\ CallerHasControl
    /\ Unused(op)
    /\ AsyncRead(op)
    /\ Len(posted) < Depth
    /\ posted' = Append(posted, op)
    /\ UNCHANGED <<reader, current, entries, armed, signalled, refused>>

Mut_RefusedPops(op) ==
    /\ CallerHasControl
    /\ Unused(op)
    /\ handlers' = Tail(Append(handlers, op))
    /\ refused' = refused \cup {op}
    /\ UNCHANGED <<reader, current, posted, entries, armed, signalled>>

(* The provider refuses, being full or for another reason: the exception    *)
(* reaches the caller and the handler, which was queued first, stays queued. *)
PostRefused(op) ==
    /\ CallerHasControl
    /\ Unused(op)
    /\ AsyncRead(op)
    /\ refused' = refused \cup {op}
    /\ UNCHANGED <<reader, current, posted, entries, armed, signalled>>

-----------------------------------------------------------------------------
(* The provider: a connected endpoint completes its operations in order,    *)
(* which the library relies on.  A new entry signals an armed descriptor.  *)

Complete(ok) ==
    /\ posted # <<>>
    /\ ok \/ MayFail
    /\ entries' = Append(entries, [op |-> Head(posted), ok |-> ok])
    /\ posted' = Tail(posted)
    /\ signalled' = (signalled \/ armed)
    /\ armed' = FALSE
    /\ UNCHANGED <<handlers, reader, current, refused>>

-----------------------------------------------------------------------------
(* The reader. *)

(* The descriptor is readable: asio queues the handler of async_wait. *)
DescriptorReady ==
    /\ reader = "waiting"
    /\ signalled
    /\ reader' = "scheduled"
    /\ UNCHANGED <<handlers, current, posted, entries, armed, signalled, refused>>

ReaderStarts ==
    /\ reader = "scheduled"
    /\ reader' = "reading"
    /\ UNCHANGED <<handlers, current, posted, entries, armed, signalled, refused>>

(* fi_cq_read returns an entry: the handler queued first is executed.  With *)
(* none queued the reader throws "Received CQ event, but no completion      *)
(* handler is queued".                                                     *)
ReadSuccess ==
    /\ reader = "reading"
    /\ entries # <<>>
    /\ Head(entries).ok
    /\ reader' = IF handlers = <<>> THEN "stopped" ELSE "executing"
    /\ current' = Head(entries)
    /\ entries' = Tail(entries)
    /\ UNCHANGED <<handlers, posted, armed, signalled, refused>>

(* fi_cq_read returns -FI_EAVAIL: reader_handle_error takes the entry and   *)
(* throws, whose operation it was is not looked at.                        *)
ReadError ==
    /\ reader = "reading"
    /\ entries # <<>>
    /\ ~Head(entries).ok
    /\ reader' = "stopped"
    /\ current' = Head(entries)
    /\ entries' = Tail(entries)
    /\ UNCHANGED <<handlers, posted, armed, signalled, refused>>

HandlerReturns ==
    /\ reader = "executing"
    /\ handlers' = Tail(handlers)
    /\ current' = NoEntry
    /\ reader' = "reading"
    /\ UNCHANGED <<posted, entries, armed, signalled, refused>>

Mut_ThrowSwallowed ==
    /\ reader = "executing"
    /\ MayThrow
    /\ reader' = "reading"
    /\ UNCHANGED <<handlers, current, posted, entries, armed, signalled, refused>>

(* The handler is not popped and post_reader not called again. *)
HandlerThrows ==
    /\ reader = "executing"
    /\ MayThrow
    /\ reader' = "stopped"
    /\ UNCHANGED <<handlers, current, posted, entries, armed, signalled, refused>>

(* fi_cq_read returns -FI_EAGAIN: the loop ends, but the provider goes on.  *)
ReadAgain ==
    /\ reader = "reading"
    /\ entries = <<>>
    /\ reader' = "drained"
    /\ UNCHANGED <<handlers, current, posted, entries, armed, signalled, refused>>

Mut_WaitUntried ==
    /\ reader = "drained"
    /\ reader' = "waiting"
    /\ armed' = TRUE
    /\ signalled' = FALSE
    /\ UNCHANGED <<handlers, current, posted, entries, refused>>

(* fi_trywait succeeds: the old signal is taken back, the descriptor armed.  *)
PostReaderWait ==
    /\ reader = "drained"
    /\ entries = <<>>
    /\ reader' = "waiting"
    /\ armed' = TRUE
    /\ signalled' = FALSE
    /\ UNCHANGED <<handlers, current, posted, entries, refused>>

(* fi_trywait fails: an entry came in meanwhile, the reader is posted.      *)
PostReaderPost ==
    /\ reader = "drained"
    /\ entries # <<>>
    /\ reader' = "scheduled"
    /\ UNCHANGED <<handlers, current, posted, entries, armed, signalled, refused>>

ReaderStep ==
    \/ DescriptorReady \/ ReaderStarts
    \/ ReadSuccess \/ ReadError \/ ReadAgain
    \/ PostReaderWait \/ PostReaderPost

PostStep == \E op \in Ops : PostAccepted(op) \/ PostRefused(op)

Next ==
    \/ PostStep
    \/ \E ok \in BOOLEAN : Complete(ok)
    \/ ReaderStep
    \/ HandlerReturns \/ HandlerThrows

Spec == Init /\ [][Next]_vars

(***************************************************************************)
(* The provider completes what was posted, the thread keeps running the    *)
(* io_context, and a completion handler, which may post operations first,  *)
(* returns.  All of these stay enabled until they are taken.  Nothing      *)
(* obliges the program to post, an operation to fail or a handler to throw. *)
(***************************************************************************)
Fairness ==
    /\ WF_vars(\E ok \in BOOLEAN : Complete(ok))
    /\ WF_vars(ReaderStep)
    /\ WF_vars(HandlerReturns)

FairSpec == Spec /\ Fairness

-----------------------------------------------------------------------------
(* Properties. *)

Healthy == refused = {} /\ reader # "stopped"

(* The operations accepted whose completion has not been dealt with. *)
InFlight ==
    (IF reader = "executing" THEN <<current.op>> ELSE <<>>)
        \o OpsOf(entries) \o posted

(***************************************************************************)
(* The handlers queued are those of the operations in flight, in the order *)
(* the provider completes them: what makes it right for the reader to       *)
(* execute m_read_handler_queue.front() for whatever entry it has read, and *)
(* what rules out its "no completion handler is queued" exception.          *)
(***************************************************************************)
HandlersFollowPosts == Healthy => handlers = InFlight

(***************************************************************************)
(* The assertion of reader() (completion_queue.hpp:160): the handler at the *)
(* front is the one that was queued for the completed operation.           *)
(***************************************************************************)
FrontIsCompleted == reader = "executing" => Head(handlers) = current.op

(***************************************************************************)
(* The provider never writes to an fi_context that was freed, nor is one of *)
(* its completions without a handler: the handler of every operation it     *)
(* still knows about is queued, also after refusals, failures and           *)
(* exceptions, which leave handlers behind but never take one too many.     *)
(***************************************************************************)
ContextsOutliveOperations ==
    \A op \in Ops : Contains(OpsOf(entries) \o posted, op)
                        => Contains(handlers, op)

(***************************************************************************)
(* An entry that comes in after fi_cq_read has returned -FI_EAGAIN is not   *)
(* missed: whenever the reader waits on the descriptor beside an unread     *)
(* entry, the descriptor is readable.                                      *)
(***************************************************************************)
NoMissedNotification ==
    reader = "waiting" /\ entries # <<>> => signalled

(***************************************************************************)
(* The handler of an accepted operation is executed and popped in the end, *)
(* unless an operation is refused or an exception stops the reader.         *)
(***************************************************************************)
OperationsComplete ==
    \A op \in Ops :
        (Healthy /\ Contains(handlers, op))
            ~> (~Contains(handlers, op) \/ ~Healthy)
=============================================================================
