---------------------- MODULE UnsynchronizedSemaphore ----------------------
(***************************************************************************)
(* asiofi::unsynchronized_semaphore (include/asiofi/semaphore.hpp), "NOT    *)
(* thread-safe": one thread calls the operations, before it runs the        *)
(* io_context, after run() has returned, and from the handlers it runs.     *)
(* With no second thread an operation is one step, up to the handler it     *)
(* dispatches: what makes the order inside it matter is that the dispatched *)
(* handler may call back into the semaphore before the operation returns.  *)
(***************************************************************************)
EXTENDS IoContext

CONSTANTS
    Caller,          \* the one thread
    WaitHandlers,    \* completion handlers passed to async_wait
    SignalHandlers,  \* completion handlers passed to async_signal
    Throwing,        \* the handlers that may end with an exception
    InitialCount,    \* initial_count of the constructor
    CountBound,      \* bound: signals are only begun while fewer permits exist
    NoHandler        \* m_handler == nullptr

ASSUME SemaphoreAssumption ==
    /\ Threads = {Caller}
    /\ IoThreads = {Caller}
    /\ Handlers = WaitHandlers \cup SignalHandlers
    /\ WaitHandlers \cap SignalHandlers = {}
    /\ Throwing \subseteq Handlers
    /\ InitialCount \in Nat
    /\ CountBound \in Nat
    /\ NoHandler \notin Handlers
    /\ Threads \cap Handlers = {}

VARIABLES
    count,    \* m_count
    handler   \* m_handler, the one stored wait

vars == <<ready, stack, count, handler>>

TypeOK ==
    /\ IoTypeOK
    /\ count \in Nat
    /\ handler \in WaitHandlers \cup {NoHandler}

Init ==
    /\ IoInit
    /\ count = InitialCount
    /\ handler = NoHandler

Free(h) == h # handler /\ ~Posted(h) /\ ~OnStack(h)

-----------------------------------------------------------------------------
(* async_wait *)

AsyncWaitTake(h) ==
    /\ count > 0
    /\ count' = count - 1
    /\ Dispatch(Caller, <<h>>)
    /\ UNCHANGED handler

AsyncWaitStore(h) ==
    /\ count = 0
    /\ handler = NoHandler
    /\ handler' = h
    /\ UNCHANGED <<ready, stack, count>>

(* The exception reaches the caller, which may catch it or throw on. *)
AsyncWaitRefuse ==
    /\ count = 0
    /\ handler # NoHandler
    /\ UNCHANGED vars

AsyncWait(h) == AsyncWaitTake(h) \/ AsyncWaitStore(h) \/ AsyncWaitRefuse

Mut_WaitUnguarded == count' = count - 1 /\ UNCHANGED <<ready, stack, handler>>

(* wait: without a permit it throws, since nobody else could signal. *)
Wait ==
    \/ /\ count > 0
       /\ count' = count - 1
       /\ UNCHANGED <<ready, stack, handler>>
    \/ /\ count = 0
       /\ UNCHANGED vars

(* async_signal: the completion dispatched is the stored wait's and its own. *)

TakeHandler == handler' = NoHandler

AsyncSignalHandoff(h) ==
    /\ handler # NoHandler
    /\ TakeHandler
    /\ Dispatch(Caller, <<handler, h>>)
    /\ UNCHANGED count

AsyncSignalCount(h) ==
    /\ handler = NoHandler
    /\ count' = count + 1
    /\ Dispatch(Caller, <<h>>)
    /\ UNCHANGED handler

AsyncSignal(h) ==
    /\ count < CountBound
    /\ AsyncSignalHandoff(h) \/ AsyncSignalCount(h)

(* signal *)

Mut_HandoffAndCount ==
    /\ handler # NoHandler
    /\ TakeHandler
    /\ Dispatch(Caller, <<handler>>)
    /\ count' = count + 1

SignalHandoff ==
    /\ handler # NoHandler
    /\ TakeHandler
    /\ Dispatch(Caller, <<handler>>)
    /\ UNCHANGED count

SignalCount ==
    /\ handler = NoHandler
    /\ count' = count + 1
    /\ UNCHANGED <<ready, stack, handler>>

Signal ==
    /\ count < CountBound
    /\ SignalHandoff \/ SignalCount

-----------------------------------------------------------------------------
(* The handlers. *)

RunHandler == RunOne(Caller) /\ UNCHANGED <<count, handler>>

Runs(h) == InHandler(Caller) /\ Innermost(Caller)[1] = h

HandlerReturns(h) ==
    /\ Runs(h)
    /\ Return(Caller)
    /\ UNCHANGED <<count, handler>>

HandlerThrows(h) ==
    /\ Runs(h)
    /\ Throw(Caller, Throwing)
    /\ UNCHANGED <<count, handler>>

Next ==
    \/ \E h \in WaitHandlers : Free(h) /\ AsyncWait(h)
    \/ \E h \in SignalHandlers : Free(h) /\ AsyncSignal(h)
    \/ Wait
    \/ Signal
    \/ RunHandler
    \/ \E h \in Handlers : HandlerReturns(h) \/ HandlerThrows(h)

Spec == Init /\ [][Next]_vars

-----------------------------------------------------------------------------
(* Properties. *)

(***************************************************************************)
(* A wait handler is stored only while there is no permit it could have     *)
(* had.                                                                    *)
(***************************************************************************)
NoPermitBesideStoredWait == handler # NoHandler => count = 0

(***************************************************************************)
(* The semaphore is a counting semaphore, also when a handler dispatched by *)
(* an operation waits and signals in turn before that operation returns.   *)
(***************************************************************************)
PendingWaits == {handler} \cap WaitHandlers

GrantedWaits == {h \in WaitHandlers : ~Free(h) /\ h # handler}

Promise == INSTANCE CountingSemaphore
    WITH SyncClients <- Threads, AsyncClients <- WaitHandlers,
         permits <- count, pending <- PendingWaits, granted <- GrantedWaits

ImplementsCountingSemaphore == Promise!Spec
=============================================================================
