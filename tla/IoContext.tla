------------------------------ MODULE IoContext ------------------------------
(***************************************************************************)
(* The asio::io_context the library runs its completion handlers on, as    *)
(* far as the code under src/ can tell: asio is not part of the            *)
(* repository.                                                             *)
(*                                                                         *)
(* A work item is the sequence of handlers one function object calls in    *)
(* order: <<h>> for a handler dispatched on its own, <<w, s>> for the       *)
(* lambda async_signal builds around two completions.  `ready' is the      *)
(* queue of posted items.  `stack[t]' holds the items thread t is          *)
(* executing, innermost last, each reduced to the handlers it has still to *)
(* finish, the first of them being the one that runs: asio::dispatch called *)
(* from a thread inside io_context::run() invokes the function before it    *)
(* returns, so handlers nest.                                              *)
(***************************************************************************)
EXTENDS Naturals, Sequences

CONSTANTS
    Threads,    \* every thread of the program
    IoThreads,  \* the threads that call io_context::run()
    Handlers    \* the completion handlers the program ever has in flight

ASSUME IoThreadsAssumption == IoThreads \subseteq Threads

VARIABLES
    ready,      \* items posted and not yet picked up, oldest first
    stack       \* the items each thread is executing, innermost last

ioVars == <<ready, stack>>

Items == Seq(Handlers)

IoTypeOK ==
    /\ ready \in Seq(Items)
    /\ stack \in [Threads -> Seq(Items)]

IoInit ==
    /\ ready = <<>>
    /\ stack = [t \in Threads |-> <<>>]

(***************************************************************************)
(* Where a handler object is.                                              *)
(***************************************************************************)
Occurs(h, item) == \E i \in DOMAIN item : item[i] = h

OccursIn(h, items) == \E i \in DOMAIN items : Occurs(h, items[i])

Posted(h) == OccursIn(h, ready)

(* Started and not finished, on some thread. *)
Started(h) == \E t \in Threads : \E i \in DOMAIN stack[t] : stack[t][i][1] = h

(* In an item some thread executes, started or not. *)
OnStack(h) == \E t \in Threads : OccursIn(h, stack[t])

(***************************************************************************)
(* Thread t is executing a handler, hence is inside io_context::run().      *)
(***************************************************************************)
InHandler(t) == stack[t] # <<>>

(***************************************************************************)
(* Thread t is in a position to execute code of the program: an I/O thread *)
(* only from a handler, any other thread at any time.                      *)
(***************************************************************************)
RunsUserCode(t) == t \in IoThreads => InHandler(t)

Innermost(t) == stack[t][Len(stack[t])]

Outer(t) == SubSeq(stack[t], 1, Len(stack[t]) - 1)

(***************************************************************************)
(* asio::post: the item is queued, whoever calls.                          *)
(***************************************************************************)
Post(item) ==
    /\ ready' = Append(ready, item)
    /\ UNCHANGED stack

(***************************************************************************)
(* asio::dispatch: called from inside run() the item starts at once, nested *)
(* in the caller; called from anywhere else it is posted.                  *)
(***************************************************************************)
Dispatch(t, item) ==
    \/ /\ InHandler(t)
       /\ stack' = [stack EXCEPT ![t] = Append(@, item)]
       /\ UNCHANGED ready
    \/ /\ ~InHandler(t)
       /\ Post(item)

(***************************************************************************)
(* io_context::run() takes the oldest posted item.                         *)
(***************************************************************************)
RunOne(t) ==
    /\ t \in IoThreads
    /\ ~InHandler(t)
    /\ ready # <<>>
    /\ stack' = [stack EXCEPT ![t] = <<Head(ready)>>]
    /\ ready' = Tail(ready)

(***************************************************************************)
(* The handler thread t runs returns: the rest of its item follows, or, if *)
(* it was the last of the item, the code that dispatched the item resumes. *)
(***************************************************************************)
Return(t) ==
    /\ InHandler(t)
    /\ stack' = [stack EXCEPT ![t] =
                    IF Len(Innermost(t)) > 1
                    THEN Append(Outer(t), Tail(Innermost(t)))
                    ELSE Outer(t)]
    /\ UNCHANGED ready

(***************************************************************************)
(* The handler thread t runs throws.  The exception leaves its whole item  *)
(* and unwinds to a handler further out that catches it, or out of run()   *)
(* (depth 0), after which the thread may call run() again.  It passes only *)
(* through handlers that let it: those are `throwing' as well.             *)
(***************************************************************************)
Throw(t, throwing) ==
    /\ InHandler(t)
    /\ \E depth \in 0 .. Len(stack[t]) - 1 :
          /\ \A i \in depth + 1 .. Len(stack[t]) : stack[t][i][1] \in throwing
          /\ stack' = [stack EXCEPT ![t] = SubSeq(@, 1, depth)]
    /\ UNCHANGED ready
=============================================================================
