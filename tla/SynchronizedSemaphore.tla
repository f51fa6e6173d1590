----------------------- MODULE SynchronizedSemaphore -----------------------
(***************************************************************************)
(* asiofi::synchronized_semaphore (include/asiofi/semaphore.hpp), the       *)
(* thread-safe semaphore: `Threads' call its four operations in any order   *)
(* and on any thread, the I/O threads from the handlers they run.           *)
(*                                                                         *)
(* A call goes through the program counters                                *)
(*    "lock"      about to construct std::unique_lock                      *)
(*    "body"      owns m_mutex, about to test and change the state         *)
(*    "leave"     owns m_mutex, the lock's destructor still to run         *)
(*    "asleep"    in m_cv.wait, m_mutex released                           *)
(*    "notify"    m_mutex released, m_cv.notify_one() still to come        *)
(*    "dispatch"  m_mutex released, asio::dispatch still to come           *)
(* and back to "user".  `arg[t]' is what the call holds: before the body the *)
(* handler it was given, after it the item it will dispatch.               *)
(***************************************************************************)
EXTENDS IoContext, FiniteSets

CONSTANTS
    WaitHandlers,    \* completion handlers passed to async_wait
    SignalHandlers,  \* completion handlers passed to async_signal
    Throwing,        \* the handlers that may end with an exception
    Sleepers,        \* the threads that may call the blocking wait()
    InitialCount,    \* initial_count of the constructor
    CountBound,      \* bound: signals are only begun while fewer permits exist
    NoHandler,       \* m_handler == nullptr
    NoThread         \* m_mutex is free

ASSUME SemaphoreAssumption ==
    /\ IsFiniteSet(Threads)
    /\ Handlers = WaitHandlers \cup SignalHandlers
    /\ WaitHandlers \cap SignalHandlers = {}
    /\ Threads \cap WaitHandlers = {}
    /\ Sleepers \subseteq Threads
    /\ Throwing \subseteq Handlers
    /\ InitialCount \in Nat
    /\ CountBound \in Nat
    /\ NoHandler \notin Handlers
    /\ NoThread \notin Threads

VARIABLES
    count,    \* m_count
    handler,  \* m_handler, the one stored wait
    mutex,    \* the owner of m_mutex
    pc, op, arg

callVars == <<pc, op, arg>>
vars == <<ready, stack, count, handler, mutex, pc, op, arg>>

Ops == {"async_wait", "wait", "async_signal", "signal"}
PCs == {"user", "lock", "body", "leave", "asleep", "notify", "dispatch"}

TypeOK ==
    /\ IoTypeOK
    /\ count \in Nat
    /\ handler \in WaitHandlers \cup {NoHandler}
    /\ mutex \in Threads \cup {NoThread}
    /\ pc \in [Threads -> PCs]
    /\ op \in [Threads -> Ops]
    /\ arg \in [Threads -> Items]

Init ==
    /\ IoInit
    /\ count = InitialCount
    /\ handler = NoHandler
    /\ mutex = NoThread
    /\ pc = [t \in Threads |-> "user"]
    /\ op = [t \in Threads |-> "signal"]
    /\ arg = [t \in Threads |-> <<>>]

-----------------------------------------------------------------------------
(* A handler object nobody holds: the program may pass it to an operation. *)

Free(h) ==
    /\ h # handler
    /\ \A t \in Threads : ~Occurs(h, arg[t])
    /\ ~Posted(h)
    /\ ~OnStack(h)

-----------------------------------------------------------------------------
(* Calls: program code enters an operation. *)

Enter(t, name, item) ==
    /\ pc[t] = "user"
    /\ RunsUserCode(t)
    /\ pc' = [pc EXCEPT ![t] = "lock"]
    /\ op' = [op EXCEPT ![t] = name]
    /\ arg' = [arg EXCEPT ![t] = item]
    /\ UNCHANGED <<ready, stack, count, handler, mutex>>

SignalsBegun == {t \in Threads : /\ pc[t] \in {"lock", "body"}
                                 /\ op[t] \in {"signal", "async_signal"}}

BelowBound == count + Cardinality(SignalsBegun) < CountBound

CallAsyncWait(t) ==
    \E h \in WaitHandlers : Free(h) /\ Enter(t, "async_wait", <<h>>)

CallWait(t) ==
    t \in Sleepers /\ Enter(t, "wait", <<>>)

CallAsyncSignal(t) ==
    \E h \in SignalHandlers :
        BelowBound /\ Free(h) /\ Enter(t, "async_signal", <<h>>)

CallSignal(t) ==
    BelowBound /\ Enter(t, "signal", <<>>)

-----------------------------------------------------------------------------
(* The lock. *)

Lock(t) ==
    /\ pc[t] = "lock"
    /\ mutex = NoThread
    /\ mutex' = t
    /\ pc' = [pc EXCEPT ![t] = "body"]
    /\ UNCHANGED <<ready, stack, count, handler, op, arg>>

InBody(t, name) == pc[t] = "body" /\ op[t] = name

Mut_KeepLocked(t) == UNCHANGED mutex

(* lk.unlock() *)
Unlock(t) == mutex' = NoThread

(* The call goes on without the lock. *)
Continue(t, label, item) ==
    /\ Unlock(t)
    /\ pc' = [pc EXCEPT ![t] = label]
    /\ arg' = [arg EXCEPT ![t] = item]
    /\ UNCHANGED <<ready, stack, op>>

(* The call is over but for the destructor of its unique_lock. *)
Finish(t) ==
    /\ pc' = [pc EXCEPT ![t] = "leave"]
    /\ arg' = [arg EXCEPT ![t] = <<>>]
    /\ UNCHANGED <<ready, stack, mutex, op>>

Leave(t) ==
    /\ pc[t] = "leave"
    /\ mutex' = NoThread
    /\ pc' = [pc EXCEPT ![t] = "user"]
    /\ UNCHANGED <<ready, stack, count, handler, op, arg>>

-----------------------------------------------------------------------------
(* async_wait *)

Mut_TakeUnguarded(t) ==
    /\ InBody(t, "async_wait")
    /\ count' = count - 1
    /\ Continue(t, "dispatch", arg[t])
    /\ UNCHANGED handler

AsyncWaitTake(t) ==
    /\ InBody(t, "async_wait")
    /\ count > 0
    /\ count' = count - 1
    /\ Continue(t, "dispatch", arg[t])
    /\ UNCHANGED handler

AsyncWaitStore(t) ==
    /\ InBody(t, "async_wait")
    /\ count = 0
    /\ handler = NoHandler
    /\ handler' = arg[t][1]
    /\ Finish(t)
    /\ UNCHANGED count

(* The exception reaches the caller, which may catch it or throw on. *)
AsyncWaitRefuse(t) ==
    /\ InBody(t, "async_wait")
    /\ count = 0
    /\ handler # NoHandler
    /\ Finish(t)
    /\ UNCHANGED <<count, handler>>

(* wait: the predicate of m_cv.wait is evaluated in the body as well, by the *)
(* first call and after every wake-up.                                     *)

WaitTake(t) ==
    /\ InBody(t, "wait")
    /\ count > 0
    /\ count' = count - 1
    /\ Finish(t)
    /\ UNCHANGED handler

WaitSleep(t) ==
    /\ InBody(t, "wait")
    /\ count = 0
    /\ Continue(t, "asleep", <<>>)
    /\ UNCHANGED <<count, handler>>

(* async_signal and signal *)

Mut_KeepHandler == UNCHANGED handler

TakeHandler == handler' = NoHandler

Mut_HandoffAndCount(t) ==
    /\ InBody(t, "signal") \/ InBody(t, "async_signal")
    /\ handler # NoHandler
    /\ TakeHandler
    /\ Continue(t, "dispatch", <<handler>> \o arg[t])
    /\ count' = count + 1

SignalHandoff(t) ==
    /\ InBody(t, "signal") \/ InBody(t, "async_signal")
    /\ handler # NoHandler
    /\ TakeHandler
    /\ Continue(t, "dispatch", <<handler>> \o arg[t])
    /\ UNCHANGED count

Mut_CountBesideHandler(t) ==
    /\ InBody(t, "signal") \/ InBody(t, "async_signal")
    /\ count' = count + 1
    /\ Continue(t, "notify", arg[t])
    /\ UNCHANGED handler

Mut_CountSilently(t) ==
    /\ InBody(t, "signal") \/ InBody(t, "async_signal")
    /\ handler = NoHandler
    /\ count' = count + 1
    /\ Continue(t, IF arg[t] = <<>> THEN "user" ELSE "dispatch", arg[t])
    /\ UNCHANGED handler

SignalCount(t) ==
    /\ InBody(t, "signal") \/ InBody(t, "async_signal")
    /\ handler = NoHandler
    /\ count' = count + 1
    /\ Continue(t, "notify", arg[t])
    /\ UNCHANGED handler

-----------------------------------------------------------------------------
(* After the lock. *)

Asleep == {t \in Threads : pc[t] = "asleep"}

AfterNotify(t) == IF arg[t] = <<>> THEN "user" ELSE "dispatch"

NotifyOne(t) ==
    /\ pc[t] = "notify"
    /\ \/ /\ Asleep = {}
          /\ pc' = [pc EXCEPT ![t] = AfterNotify(t)]
       \/ \E sleeper \in Asleep :
             pc' = [pc EXCEPT ![t] = AfterNotify(t), ![sleeper] = "lock"]
    /\ UNCHANGED <<ready, stack, count, handler, mutex, op, arg>>

SpuriousWakeUp(t) ==
    /\ pc[t] = "asleep"
    /\ pc' = [pc EXCEPT ![t] = "lock"]
    /\ UNCHANGED <<ready, stack, count, handler, mutex, op, arg>>

Mut_DispatchFirst(t) ==
    /\ pc[t] = "dispatch"
    /\ Dispatch(t, <<arg[t][1]>>)
    /\ pc' = [pc EXCEPT ![t] = "user"]
    /\ arg' = [arg EXCEPT ![t] = <<>>]
    /\ UNCHANGED <<count, handler, mutex, op>>

DispatchArg(t) ==
    /\ pc[t] = "dispatch"
    /\ Dispatch(t, arg[t])
    /\ pc' = [pc EXCEPT ![t] = "user"]
    /\ arg' = [arg EXCEPT ![t] = <<>>]
    /\ UNCHANGED <<count, handler, mutex, op>>

-----------------------------------------------------------------------------
(* The I/O threads and the handlers they run. *)

RunHandler(t) ==
    /\ pc[t] = "user"
    /\ RunOne(t)
    /\ UNCHANGED <<count, handler, mutex, pc, op, arg>>

Runs(t, h) == pc[t] = "user" /\ InHandler(t) /\ Innermost(t)[1] = h

HandlerReturns(t, h) ==
    /\ Runs(t, h)
    /\ Return(t)
    /\ UNCHANGED <<count, handler, mutex, pc, op, arg>>

HandlerThrows(t, h) ==
    /\ Runs(t, h)
    /\ Throw(t, Throwing)
    /\ UNCHANGED <<count, handler, mutex, pc, op, arg>>

Call(t) == CallAsyncWait(t) \/ CallWait(t) \/ CallAsyncSignal(t) \/ CallSignal(t)

Body(t) ==
    \/ AsyncWaitTake(t) \/ AsyncWaitStore(t) \/ AsyncWaitRefuse(t)
    \/ WaitTake(t) \/ WaitSleep(t)
    \/ SignalHandoff(t) \/ SignalCount(t)

Finishing(t) == Body(t) \/ Leave(t) \/ NotifyOne(t) \/ DispatchArg(t)

Next == \E t \in Threads :
    \/ Call(t) \/ Lock(t) \/ Finishing(t) \/ SpuriousWakeUp(t)
    \/ RunHandler(t)
    \/ \E h \in Handlers : HandlerReturns(t, h) \/ HandlerThrows(t, h)

Spec == Init /\ [][Next]_vars

(***************************************************************************)
(* A thread that is scheduled finishes the operation it is in and an idle  *)
(* I/O thread picks up posted items: these steps stay enabled until they   *)
(* are taken.  A thread that contends for m_mutex is not passed over        *)
(* forever, and the code of a handler makes finitely many calls before it  *)
(* returns: both are enabled again and again, not continuously.  Nothing    *)
(* obliges the program to call an operation, a handler to throw, or a       *)
(* condition variable to wake up without a reason.                         *)
(***************************************************************************)
Fairness ==
    /\ \A t \in Threads : /\ WF_vars(Finishing(t))
                          /\ WF_vars(RunHandler(t))
                          /\ SF_vars(Lock(t))
    /\ \A t \in Threads, h \in Handlers : SF_vars(HandlerReturns(t, h))

FairSpec == Spec /\ Fairness

-----------------------------------------------------------------------------
(* Properties. *)

(***************************************************************************)
(* A wait handler is stored only while there is no permit it could have     *)
(* had: async_wait stores when m_count is 0 and no signal counts up while a *)
(* handler is stored.  Otherwise the waiter would be overtaken by later     *)
(* calls of wait() although a permit was free when it came.                *)
(***************************************************************************)
NoPermitBesideStoredWait == handler # NoHandler => count = 0

(***************************************************************************)
(* m_mutex is owned exactly by a thread in the critical part of a call;     *)
(* nobody runs a handler, sleeps in m_cv.wait or calls into asio with it.   *)
(***************************************************************************)
LockOwner(t) == mutex = t <=> pc[t] \in {"body", "leave"}
NothingRunsUnderLock == \A t \in Threads : LockOwner(t)

(***************************************************************************)
(* No lost wake-up, although notify_one comes after the unlock: as long as  *)
(* somebody sleeps in wait(), every permit in m_count is matched by a        *)
(* notification still to come or by a thread about to test the predicate.  *)
(***************************************************************************)
Notifiers == {t \in Threads : pc[t] = "notify"}
Testers == {t \in Threads : pc[t] \in {"lock", "body"} /\ op[t] = "wait"}

NoLostWakeUp ==
    Asleep # {} => count <= Cardinality(Notifiers) + Cardinality(Testers)

(***************************************************************************)
(* A completion handler is one move-only object: it is stored, held by one  *)
(* call, posted or running, and in one of these places only, so it can      *)
(* never be invoked a second time.                                         *)
(***************************************************************************)
Places(h) ==
    {p \in {<<"m_handler">>} : handler = h}
    \cup {<<"call", t>> : t \in {u \in Threads : Occurs(h, arg[u])}}
    \cup {<<"posted", i>> : i \in {j \in DOMAIN ready : Occurs(h, ready[j])}}
    \cup UNION {{<<"running", t, i>> :
                    i \in {j \in DOMAIN stack[t] : Occurs(h, stack[t][j])}}
                : t \in Threads}

OneShot == \A h \in Handlers : Cardinality(Places(h)) <= 1

(***************************************************************************)
(* The waits the semaphore has not answered, and the completion handlers it *)
(* has answered and that have not finished.                                *)
(***************************************************************************)
PendingWaits ==
    {t \in Threads : op[t] = "wait" /\ pc[t] \in {"lock", "body", "asleep"}}
    \cup {h \in WaitHandlers :
            \/ h = handler
            \/ \E t \in Threads : /\ op[t] = "async_wait"
                                  /\ pc[t] \in {"lock", "body"}
                                  /\ Occurs(h, arg[t])}

GrantedWaits == {h \in WaitHandlers : ~Free(h) /\ h \notin PendingWaits}

Promise == INSTANCE CountingSemaphore
    WITH SyncClients <- Threads, AsyncClients <- WaitHandlers,
         permits <- count, pending <- PendingWaits, granted <- GrantedWaits

(***************************************************************************)
(* The semaphore is a counting semaphore: every wait that succeeds, at once,*)
(* after sleeping or by hand-off, uses up exactly one permit, every signal  *)
(* gives exactly one, and a wait is only turned away by async_wait's        *)
(* exception, while another one is pending.                                *)
(***************************************************************************)
ImplementsCountingSemaphore == Promise!Spec

(***************************************************************************)
(* A completion handler that was dispatched is never dropped before it has *)
(* started; in particular async_signal's own handler, which the dispatched *)
(* function calls after the waiting one (semaphore.hpp:160), is called.     *)
(***************************************************************************)
Dispatched(h) ==
    /\ \/ \E t \in Threads : pc[t] = "dispatch" /\ Occurs(h, arg[t])
       \/ Posted(h)
       \/ OnStack(h)
    /\ ~Started(h)

NoCompletionDropped ==
    [][\A h \in Handlers : Dispatched(h) => Dispatched(h)' \/ Started(h)']_vars

(***************************************************************************)
(* The code keeps that promise but for one case: a completion is lost only  *)
(* beside a waiting handler that throws, which it was dispatched with; never *)
(* by the handler of another async_signal, however deep they are nested.   *)
(***************************************************************************)
LostBesideWaiter(h, t) ==
    /\ \E g \in Handlers : HandlerThrows(t, g)
    /\ \E i \in DOMAIN stack[t] \ DOMAIN stack'[t] :
          stack[t][i][1] \in WaitHandlers \cap Throwing /\ Occurs(h, stack[t][i])

OnlyThrowingWaitersDrop ==
    [][\A h \in Handlers : Dispatched(h) =>
          Dispatched(h)' \/ Started(h)' \/ \E t \in Threads : LostBesideWaiter(h, t)]_vars

(***************************************************************************)
(* A thread does not sleep in wait() beside permits that stay free: it is   *)
(* woken, or others use the permits up.                                    *)
(***************************************************************************)
SleeperIsServed ==
    \A t \in Threads :
        (pc[t] = "asleep" /\ count > 0) ~> (pc[t] # "asleep" \/ count = 0)

(***************************************************************************)
(* Every completion handler that was dispatched eventually runs.           *)
(***************************************************************************)
DispatchedHandlerRuns == \A h \in Handlers : Dispatched(h) ~> Started(h)
=============================================================================
