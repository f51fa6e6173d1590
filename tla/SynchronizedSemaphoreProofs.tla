--------------------- MODULE SynchronizedSemaphoreProofs ---------------------
(***************************************************************************)
(* Proofs about SynchronizedSemaphore, for every number of threads and      *)
(* handlers: its safety invariants, that it implements CountingSemaphore,   *)
(* and that a completion handler runs at most once.                        *)
(***************************************************************************)
EXTENDS SynchronizedSemaphore, FiniteSetTheorems, SequenceTheorems, TLAPS

-----------------------------------------------------------------------------
(* What the operations of IoContext do to the items it holds. *)

LEMMA ItemTypes ==
    /\ <<>> \in Items
    /\ \A h \in Handlers : <<h>> \in Items
    /\ \A h \in Handlers, i \in Items : <<h>> \o i \in Items
  BY DEF Items

(* The three ways asio moves items about keep the types of its queues.     *)
LEMMA DispatchType ==
    ASSUME IoTypeOK, NEW t \in Threads, NEW item \in Items, Dispatch(t, item)
    PROVE  IoTypeOK'
  <1>1. stack[t] \in Seq(Items) /\ ready \in Seq(Items)
    BY DEF IoTypeOK
  <1>2. Append(stack[t], item) \in Seq(Items) /\ Append(ready, item) \in Seq(Items)
    BY <1>1
  <1>. QED
    BY <1>2 DEF IoTypeOK, Dispatch, Post

LEMMA RunOneType ==
    ASSUME IoTypeOK, NEW t \in Threads, RunOne(t)
    PROVE  IoTypeOK'
  BY IoThreadsAssumption DEF IoTypeOK, RunOne, InHandler

LEMMA ReturnType ==
    ASSUME IoTypeOK, NEW t \in Threads, Return(t)
    PROVE  IoTypeOK'
  <1>1. stack[t] \in Seq(Items) /\ stack[t] # <<>>
    BY DEF IoTypeOK, Return, InHandler
  <1>2. Innermost(t) \in Items
    BY <1>1 DEF Innermost
  <1>3. Outer(t) \in Seq(Items)
    BY <1>1 DEF Outer
  <1>4. Len(Innermost(t)) > 1 => Tail(Innermost(t)) \in Items
    BY <1>2 DEF Items
  <1>. QED
    BY <1>1, <1>3, <1>4 DEF IoTypeOK, Return

LEMMA ThrowType ==
    ASSUME IoTypeOK, NEW t \in Threads, Throw(t, Throwing)
    PROVE  IoTypeOK'
  <1>1. stack[t] \in Seq(Items)
    BY DEF IoTypeOK
  <1>2. \A d \in 0 .. Len(stack[t]) - 1 : SubSeq(stack[t], 1, d) \in Seq(Items)
    BY <1>1
  <1>. QED
    BY <1>2 DEF IoTypeOK, Throw

-----------------------------------------------------------------------------
(* A handler that is posted or on a stack. *)
Present(h) == Posted(h) \/ OnStack(h)

(* A dispatched item adds its handlers and nothing else. *)
LEMMA DispatchPresence ==
    ASSUME IoTypeOK, NEW t \in Threads, NEW item \in Items, Dispatch(t, item), NEW h
    PROVE  Present(h)' <=> Present(h) \/ Occurs(h, item)
  <1>1. stack[t] \in Seq(Items) /\ ready \in Seq(Items)
    BY DEF IoTypeOK
  <1>2. ASSUME NEW items \in Seq(Items)
        PROVE  OccursIn(h, Append(items, item)) <=> OccursIn(h, items) \/ Occurs(h, item)
    <2>1. /\ DOMAIN items = 1 .. Len(items) /\ Len(items) \in Nat
          /\ DOMAIN Append(items, item) = 1 .. Len(items) + 1
          /\ \A i \in 1 .. Len(items) : Append(items, item)[i] = items[i]
          /\ Append(items, item)[Len(items) + 1] = item
      BY <1>2
    <2>. QED
      BY <2>1 DEF OccursIn
  <1>3. CASE InHandler(t)
    <2>1. stack' = [stack EXCEPT ![t] = Append(@, item)] /\ ready' = ready
      BY <1>3 DEF Dispatch
    <2>2. OccursIn(h, stack'[t]) <=> OccursIn(h, stack[t]) \/ Occurs(h, item)
      BY <1>1, <1>2, <2>1 DEF IoTypeOK
    <2>3. \A u \in Threads : u # t => stack'[u] = stack[u]
      BY <2>1 DEF IoTypeOK
    <2>4. OnStack(h)' <=> OnStack(h) \/ Occurs(h, item)
      BY <2>2, <2>3 DEF OnStack
    <2>. QED
      BY <2>1, <2>4 DEF Present, Posted
  <1>4. CASE ~InHandler(t)
    <2>1. ready' = Append(ready, item) /\ stack' = stack
      BY <1>4 DEF Dispatch, Post
    <2>2. Posted(h)' <=> Posted(h) \/ Occurs(h, item)
      BY <1>1, <1>2, <2>1 DEF Posted
    <2>. QED
      BY <2>1, <2>2 DEF Present, OnStack
  <1>. QED
    BY <1>3, <1>4

(* Running, finishing or abandoning items never brings a handler in. *)
LEMMA RunPresence ==
    ASSUME IoTypeOK, NEW t \in Threads, RunOne(t), NEW h
    PROVE  Present(h)' <=> Present(h)
  <1>1. stack[t] = <<>> /\ ready \in Seq(Items) /\ ready # <<>>
    BY DEF RunOne, InHandler, IoTypeOK
  <1>2. stack'[t] = <<Head(ready)>> /\ ready' = Tail(ready)
    BY DEF RunOne, IoTypeOK
  <1>3. \A u \in Threads : u # t => stack'[u] = stack[u]
    BY DEF RunOne, IoTypeOK
  <1>4. OccursIn(h, ready) <=> Occurs(h, Head(ready)) \/ OccursIn(h, Tail(ready))
    <2>1. /\ Len(ready) \in Nat \ {0} /\ DOMAIN ready = 1 .. Len(ready)
          /\ DOMAIN Tail(ready) = 1 .. Len(ready) - 1
          /\ Head(ready) = ready[1]
          /\ \A i \in 1 .. Len(ready) - 1 : Tail(ready)[i] = ready[i + 1]
      BY <1>1
    <2>2. \A i \in 1 .. Len(ready) : i = 1 \/ (i - 1 \in 1 .. Len(ready) - 1 /\ (i - 1) + 1 = i)
      BY <2>1
    <2>3. ASSUME OccursIn(h, ready), ~Occurs(h, Head(ready))
          PROVE  OccursIn(h, Tail(ready))
      <3>1. PICK i \in 1 .. Len(ready) : Occurs(h, ready[i])
        BY <2>1, <2>3 DEF OccursIn
      <3>2. i - 1 \in 1 .. Len(ready) - 1 /\ Tail(ready)[i - 1] = ready[(i - 1) + 1]
        BY <2>1, <2>2, <2>3, <3>1
      <3>3. Occurs(h, Tail(ready)[i - 1])
        BY <3>1, <3>2
      <3>. QED
        BY <2>1, <3>2, <3>3 DEF OccursIn
    <2>4. ASSUME OccursIn(h, Tail(ready)) PROVE OccursIn(h, ready)
      <3>1. PICK i \in 1 .. Len(ready) - 1 : Occurs(h, Tail(ready)[i])
        BY <2>1, <2>4 DEF OccursIn
      <3>2. i + 1 \in 1 .. Len(ready) /\ Occurs(h, ready[i + 1])
        BY <2>1, <3>1
      <3>. QED
        BY <2>1, <3>2 DEF OccursIn
    <2>5. Occurs(h, Head(ready)) => OccursIn(h, ready)
      BY <2>1 DEF OccursIn
    <2>. QED
      BY <2>3, <2>4, <2>5
  <1>5. OccursIn(h, stack'[t]) <=> Occurs(h, Head(ready))
    BY <1>2 DEF OccursIn
  <1>6. ~OccursIn(h, stack[t])
    BY <1>1 DEF OccursIn
  <1>. QED
    BY <1>2, <1>3, <1>4, <1>5, <1>6 DEF Present, Posted, OnStack

LEMMA ReturnPresence ==
    ASSUME IoTypeOK, NEW t \in Threads, Return(t) \/ Throw(t, Throwing), NEW h
    PROVE  Present(h)' => Present(h)
  <1>1. stack[t] \in Seq(Items) /\ stack[t] # <<>> /\ ready' = ready
    BY DEF Return, Throw, InHandler, IoTypeOK
  <1>2. \A u \in Threads : u # t => stack'[u] = stack[u]
    BY DEF Return, Throw, IoTypeOK
  <1>3. ASSUME NEW depth \in 0 .. Len(stack[t]) - 1, OccursIn(h, SubSeq(stack[t], 1, depth))
        PROVE  OccursIn(h, stack[t])
    BY <1>1, <1>3 DEF OccursIn
  <1>4. OccursIn(h, stack'[t]) => OccursIn(h, stack[t])
    <2>1. CASE Throw(t, Throwing)
      BY <1>1, <1>3, <2>1 DEF Throw, IoTypeOK
    <2>2. CASE Return(t) /\ ~(Len(Innermost(t)) > 1)
      BY <1>1, <1>3, <2>2 DEF Return, Outer, IoTypeOK
    <2>3. CASE Return(t) /\ Len(Innermost(t)) > 1
      <3>1. stack'[t] = Append(Outer(t), Tail(Innermost(t)))
        BY <2>3 DEF Return, IoTypeOK
      <3>2. Innermost(t) \in Seq(Handlers) /\ Outer(t) \in Seq(Items)
        BY <1>1 DEF Innermost, Outer, Items
      <3>3. Occurs(h, Tail(Innermost(t))) => Occurs(h, Innermost(t))
        BY <2>3, <3>2 DEF Occurs
      <3>4. Occurs(h, Innermost(t)) => OccursIn(h, stack[t])
        BY <1>1 DEF OccursIn, Innermost
      <3>5. Tail(Innermost(t)) \in Items
        BY <2>3, <3>2 DEF Items
      <3>6. OccursIn(h, Append(Outer(t), Tail(Innermost(t))))
              => OccursIn(h, Outer(t)) \/ Occurs(h, Tail(Innermost(t)))
        BY <3>2, <3>5 DEF OccursIn
      <3>7. OccursIn(h, Outer(t)) => OccursIn(h, stack[t])
        BY <1>1, <1>3 DEF Outer
      <3>. QED
        BY <3>1, <3>3, <3>4, <3>6, <3>7
    <2>. QED
      BY <2>1, <2>2, <2>3
  <1>. QED
    BY <1>1, <1>2, <1>4 DEF Present, Posted, OnStack

-----------------------------------------------------------------------------
(***************************************************************************)
(* What the calls carry: async_wait the handler it may store, and whoever   *)
(* sleeps is in wait().  TypeOK is not inductive without it.               *)
(***************************************************************************)
CallsOK ==
    \A t \in Threads :
        /\ pc[t] \in {"lock", "body"} /\ op[t] = "async_wait"
               => \E h \in WaitHandlers : arg[t] = <<h>>
        /\ pc[t] = "asleep" => op[t] = "wait"

TypeInv == TypeOK /\ CallsOK

-----------------------------------------------------------------------------
LEMMA InitTypeInv == Init => TypeInv
  BY SemaphoreAssumption, ItemTypes
     DEF Init, IoInit, TypeInv, TypeOK, IoTypeOK, CallsOK, Ops, PCs

LEMMA CallType ==
    ASSUME TypeInv, NEW t \in Threads, Call(t)
    PROVE  TypeInv'
  <1>1. ASSUME NEW name \in Ops, NEW item \in Items, Enter(t, name, item),
               name = "async_wait" => \E h \in WaitHandlers : item = <<h>>
        PROVE  TypeInv'
    BY <1>1 DEF TypeInv, TypeOK, IoTypeOK, CallsOK, Enter, Ops, PCs
  <1>2. CASE CallAsyncWait(t)
    BY <1>1, <1>2, ItemTypes, SemaphoreAssumption DEF CallAsyncWait, Ops
  <1>3. CASE CallWait(t)
    BY <1>1, <1>3, ItemTypes DEF CallWait, Ops
  <1>4. CASE CallAsyncSignal(t)
    BY <1>1, <1>4, ItemTypes, SemaphoreAssumption DEF CallAsyncSignal, Ops
  <1>5. CASE CallSignal(t)
    BY <1>1, <1>5, ItemTypes DEF CallSignal, Ops
  <1>. QED
    BY <1>2, <1>3, <1>4, <1>5 DEF Call

LEMMA BodyType ==
    ASSUME TypeInv, NEW t \in Threads, Body(t)
    PROVE  TypeInv'
  <1>. USE DEF TypeInv, TypeOK, IoTypeOK, CallsOK, PCs, InBody, Continue, Unlock,
               Finish
  <1>1. CASE AsyncWaitTake(t)
    BY <1>1 DEF AsyncWaitTake
  <1>2. CASE AsyncWaitStore(t)
    <2>1. PICK h \in WaitHandlers : arg[t] = <<h>>
      BY <1>2 DEF AsyncWaitStore
    <2>2. handler' \in WaitHandlers
      BY <1>2, <2>1 DEF AsyncWaitStore
    <2>. QED
      BY <1>2, <2>2, ItemTypes DEF AsyncWaitStore
  <1>3. CASE AsyncWaitRefuse(t)
    BY <1>3, ItemTypes DEF AsyncWaitRefuse
  <1>4. CASE WaitTake(t)
    BY <1>4, ItemTypes DEF WaitTake
  <1>5. CASE WaitSleep(t)
    BY <1>5, ItemTypes DEF WaitSleep
  <1>6. CASE SignalHandoff(t)
    <2>1. handler \in Handlers /\ arg[t] \in Items
      BY <1>6, SemaphoreAssumption DEF SignalHandoff
    <2>2. <<handler>> \o arg[t] \in Items
      BY <2>1, ItemTypes
    <2>. QED
      BY <1>6, <2>2 DEF SignalHandoff, TakeHandler
  <1>7. CASE SignalCount(t)
    BY <1>7 DEF SignalCount
  <1>. QED
    BY <1>1, <1>2, <1>3, <1>4, <1>5, <1>6, <1>7 DEF Body

LEMMA StepTypeInv == TypeInv /\ [Next]_vars => TypeInv'
  <1>. SUFFICES ASSUME TypeInv, [Next]_vars PROVE TypeInv'
    OBVIOUS
  <1>1. CASE UNCHANGED vars
    BY <1>1 DEF TypeInv, TypeOK, IoTypeOK, CallsOK, vars
  <1>2. ASSUME NEW t \in Threads, Call(t) PROVE TypeInv'
    BY <1>2, CallType
  <1>3. ASSUME NEW t \in Threads, Body(t) PROVE TypeInv'
    BY <1>3, BodyType
  <1>4. ASSUME NEW t \in Threads, Lock(t) PROVE TypeInv'
    BY <1>4 DEF TypeInv, TypeOK, IoTypeOK, CallsOK, PCs, Lock
  <1>5. ASSUME NEW t \in Threads, Leave(t) PROVE TypeInv'
    BY <1>5 DEF TypeInv, TypeOK, IoTypeOK, CallsOK, PCs, Leave
  <1>6. ASSUME NEW t \in Threads, NotifyOne(t) PROVE TypeInv'
    BY <1>6
       DEF TypeInv, TypeOK, IoTypeOK, CallsOK, PCs, NotifyOne, AfterNotify, Asleep
  <1>7. ASSUME NEW t \in Threads, SpuriousWakeUp(t) PROVE TypeInv'
    BY <1>7 DEF TypeInv, TypeOK, IoTypeOK, CallsOK, PCs, SpuriousWakeUp
  <1>8. ASSUME NEW t \in Threads, DispatchArg(t) PROVE TypeInv'
    <2>1. IoTypeOK'
      BY <1>8, DispatchType DEF DispatchArg, TypeInv, TypeOK
    <2>. QED
      BY <1>8, <2>1, ItemTypes DEF TypeInv, TypeOK, CallsOK, PCs, DispatchArg
  <1>9. ASSUME NEW t \in Threads, RunHandler(t) PROVE TypeInv'
    BY <1>9, RunOneType DEF TypeInv, TypeOK, CallsOK, RunHandler
  <1>10. ASSUME NEW t \in Threads, NEW h \in Handlers,
                HandlerReturns(t, h) \/ HandlerThrows(t, h)
         PROVE  TypeInv'
    BY <1>10, ReturnType, ThrowType
       DEF TypeInv, TypeOK, CallsOK, HandlerReturns, HandlerThrows
  <1>. QED
    BY <1>1, <1>2, <1>3, <1>4, <1>5, <1>6, <1>7, <1>8, <1>9, <1>10
       DEF Next, Finishing

(***************************************************************************)
(* Type correctness: in particular m_count never goes below zero.          *)
(***************************************************************************)
THEOREM TypeCorrect == Spec => []TypeOK
  <1>1. TypeInv => TypeOK
    BY DEF TypeInv
  <1>. QED
    BY <1>1, InitTypeInv, StepTypeInv, PTL DEF Spec

LEMMA TypeInvariant == Spec => []TypeInv
  BY InitTypeInv, StepTypeInv, PTL DEF Spec

-----------------------------------------------------------------------------
(***************************************************************************)
(* A permit and a stored wait never coexist: inductive by itself, since the *)
(* body of an operation tests and changes the two in one critical section.  *)
(***************************************************************************)
THEOREM PermitsAndWaits == Spec => []NoPermitBesideStoredWait
  <1>. DEFINE Inv == NoPermitBesideStoredWait
  <1>1. Init => Inv
    BY DEF Init, NoPermitBesideStoredWait
  <1>2. TypeInv /\ Inv /\ [Next]_vars => Inv'
    <2>. SUFFICES ASSUME TypeInv, Inv, [Next]_vars PROVE Inv'
      OBVIOUS
    <2>1. CASE UNCHANGED <<count, handler>>
      BY <2>1 DEF NoPermitBesideStoredWait
    <2>2. ASSUME NEW t \in Threads, Body(t) PROVE Inv'
      BY <2>2
         DEF NoPermitBesideStoredWait, TypeInv, TypeOK, Body, AsyncWaitTake,
             AsyncWaitStore, AsyncWaitRefuse, WaitTake, WaitSleep, SignalHandoff,
             SignalCount, TakeHandler
    <2>3. ASSUME NEW t \in Threads, ~Body(t),
                 \/ Call(t) \/ Lock(t) \/ Finishing(t) \/ SpuriousWakeUp(t)
                 \/ RunHandler(t)
                 \/ \E h \in Handlers : HandlerReturns(t, h) \/ HandlerThrows(t, h)
          PROVE  UNCHANGED <<count, handler>>
      BY <2>3
         DEF Call, CallAsyncWait, CallWait, CallAsyncSignal, CallSignal, Enter, Lock,
             Finishing, Leave, NotifyOne, DispatchArg, SpuriousWakeUp, RunHandler,
             HandlerReturns, HandlerThrows
    <2>. QED
      BY <2>1, <2>2, <2>3 DEF Next, vars
  <1>. QED
    BY <1>1, <1>2, TypeInvariant, PTL DEF Spec

(***************************************************************************)
(* The lock is owned exactly by the thread in a critical section, so that  *)
(* no handler runs and nobody sleeps with it: mutual exclusion of the       *)
(* bodies follows.                                                         *)
(***************************************************************************)
LEMMA InitLock == Init => NothingRunsUnderLock
  BY SemaphoreAssumption DEF Init, NothingRunsUnderLock, LockOwner

LEMMA StepLock ==
    TypeInv /\ NothingRunsUnderLock /\ [Next]_vars => NothingRunsUnderLock'
  <1>. SUFFICES ASSUME TypeInv, NothingRunsUnderLock, [Next]_vars
                PROVE  NothingRunsUnderLock'
    OBVIOUS
  <1>. USE SemaphoreAssumption DEF TypeInv, TypeOK, NothingRunsUnderLock, LockOwner
  <1>1. CASE UNCHANGED vars
    BY <1>1 DEF vars
  <1>2. ASSUME NEW t \in Threads, Call(t) PROVE NothingRunsUnderLock'
    BY <1>2 DEF Call, CallAsyncWait, CallWait, CallAsyncSignal, CallSignal, Enter
  <1>3. ASSUME NEW t \in Threads, Lock(t) PROVE NothingRunsUnderLock'
    BY <1>3 DEF Lock
  <1>4. ASSUME NEW t \in Threads, Body(t) PROVE NothingRunsUnderLock'
    BY <1>4
       DEF Body, AsyncWaitTake, AsyncWaitStore, AsyncWaitRefuse, WaitTake, WaitSleep,
           SignalHandoff, SignalCount, InBody, Continue, Unlock, Finish
  <1>5. ASSUME NEW t \in Threads, Leave(t) PROVE NothingRunsUnderLock'
    BY <1>5 DEF Leave
  <1>6. ASSUME NEW t \in Threads, NotifyOne(t) PROVE NothingRunsUnderLock'
    BY <1>6 DEF NotifyOne, AfterNotify, Asleep
  <1>7. ASSUME NEW t \in Threads, SpuriousWakeUp(t) PROVE NothingRunsUnderLock'
    BY <1>7 DEF SpuriousWakeUp
  <1>8. ASSUME NEW t \in Threads, DispatchArg(t) PROVE NothingRunsUnderLock'
    BY <1>8 DEF DispatchArg
  <1>9. ASSUME NEW t \in Threads,
               \/ RunHandler(t)
               \/ \E h \in Handlers : HandlerReturns(t, h) \/ HandlerThrows(t, h)
        PROVE  NothingRunsUnderLock'
    BY <1>9 DEF RunHandler, HandlerReturns, HandlerThrows
  <1>. QED
    BY <1>1, <1>2, <1>3, <1>4, <1>5, <1>6, <1>7, <1>8, <1>9 DEF Next, Finishing

THEOREM LockDiscipline == Spec => []NothingRunsUnderLock
  BY InitLock, StepLock, TypeInvariant, PTL DEF Spec

-----------------------------------------------------------------------------
(* Counting the threads that will use up a permit. *)

LEMMA ThreadSets ==
    /\ IsFiniteSet(Notifiers)
    /\ IsFiniteSet(Testers)
    /\ Cardinality(Notifiers) \in Nat
    /\ Cardinality(Testers) \in Nat
  <1>1. Notifiers \subseteq Threads /\ Testers \subseteq Threads
    BY DEF Notifiers, Testers
  <1>2. IsFiniteSet(Notifiers) /\ IsFiniteSet(Testers)
    BY <1>1, SemaphoreAssumption, FS_Subset
  <1>. QED
    BY <1>2, FS_CardinalityType

LEMMA ThreadSetsNext ==
    /\ IsFiniteSet(Notifiers') /\ IsFiniteSet(Testers')
    /\ Cardinality(Notifiers') \in Nat
    /\ Cardinality(Testers') \in Nat
  <1>1. Notifiers' \subseteq Threads /\ Testers' \subseteq Threads
    BY DEF Notifiers, Testers
  <1>2. IsFiniteSet(Notifiers') /\ IsFiniteSet(Testers')
    BY <1>1, SemaphoreAssumption, FS_Subset
  <1>. QED
    BY <1>2, FS_CardinalityType

(* A set that only grows, or loses one thread, does not get much smaller.   *)
LEMMA Grows ==
    ASSUME NEW S, NEW T, S \subseteq T, IsFiniteSet(T)
    PROVE  Cardinality(S) <= Cardinality(T)
  BY FS_Subset

LEMMA LosesOne ==
    ASSUME NEW S, NEW T, NEW t, S \ {t} \subseteq T, IsFiniteSet(S), IsFiniteSet(T)
    PROVE  Cardinality(S) - 1 <= Cardinality(T)
  <1>1. CASE t \in S
    <2>1. Cardinality(S \ {t}) = Cardinality(S) - 1
      BY <1>1, FS_RemoveElement
    <2>2. Cardinality(S \ {t}) <= Cardinality(T)
      BY FS_Subset
    <2>. QED
      BY <2>1, <2>2
  <1>2. CASE t \notin S
    <2>1. S \subseteq T
      BY <1>2
    <2>2. Cardinality(S) <= Cardinality(T) /\ Cardinality(S) \in Nat
          /\ Cardinality(T) \in Nat
      BY <2>1, FS_Subset, FS_CardinalityType
    <2>. QED
      BY <2>2
  <1>. QED
    BY <1>1, <1>2

LEMMA GainsOne ==
    ASSUME NEW S, NEW T, NEW t, t \in T, t \notin S, S \subseteq T, IsFiniteSet(T)
    PROVE  Cardinality(S) + 1 <= Cardinality(T)
  <1>1. Cardinality(T \ {t}) = Cardinality(T) - 1 /\ IsFiniteSet(T \ {t})
    BY FS_RemoveElement
  <1>2. Cardinality(S) <= Cardinality(T \ {t})
    BY <1>1, FS_Subset
  <1>3. Cardinality(S) \in Nat /\ Cardinality(T) \in Nat
    BY FS_Subset, FS_CardinalityType
  <1>. QED
    BY <1>1, <1>2, <1>3

(***************************************************************************)
(* Most steps take no thread out of the sets and add no permit.            *)
(***************************************************************************)
LEMMA QuietStep ==
    ASSUME TypeInv, TypeInv', NoLostWakeUp, count' <= count,
           Asleep' \subseteq Asleep, Notifiers \subseteq Notifiers', Testers \subseteq Testers'
    PROVE  NoLostWakeUp'
  <1>1. Cardinality(Notifiers) <= Cardinality(Notifiers')
    BY ThreadSetsNext, Grows
  <1>2. Cardinality(Testers) <= Cardinality(Testers')
    BY ThreadSetsNext, Grows
  <1>3. count \in Nat /\ count' \in Nat
    BY DEF TypeInv, TypeOK
  <1>. QED
    BY <1>1, <1>2, <1>3, ThreadSets, ThreadSetsNext DEF NoLostWakeUp

LEMMA StepWakeUp == TypeInv /\ NoLostWakeUp /\ [Next]_vars => NoLostWakeUp'
  <1>. SUFFICES ASSUME TypeInv, NoLostWakeUp, [Next]_vars
                PROVE  NoLostWakeUp'
    OBVIOUS
  <1>0. TypeInv'
    BY StepTypeInv
  <1>. DEFINE Quiet == /\ count' <= count
                      /\ Asleep' \subseteq Asleep
                      /\ Notifiers \subseteq Notifiers'
                      /\ Testers \subseteq Testers'
  <1>q. Quiet => NoLostWakeUp'
    BY <1>0, QuietStep
  <1>. USE DEF TypeInv, TypeOK, CallsOK
  <1>1. CASE UNCHANGED <<count, pc, op>>
    BY <1>1, <1>q DEF Asleep, Notifiers, Testers
  <1>2. ASSUME NEW t \in Threads, Call(t) PROVE NoLostWakeUp'
    <2>. Quiet
      BY <1>2
         DEF Call, CallAsyncWait, CallWait, CallAsyncSignal, CallSignal, Enter, Asleep,
             Notifiers, Testers
    <2>. QED
      BY <1>q
  <1>3. ASSUME NEW t \in Threads, Lock(t) \/ Leave(t) \/ SpuriousWakeUp(t) \/ DispatchArg(t)
        PROVE  NoLostWakeUp'
    <2>. Quiet
      BY <1>3
         DEF Lock, Leave, SpuriousWakeUp, DispatchArg, Asleep, Notifiers, Testers
    <2>. QED
      BY <1>q
  <1>4. ASSUME NEW t \in Threads,
               \/ AsyncWaitTake(t) \/ AsyncWaitStore(t) \/ AsyncWaitRefuse(t)
               \/ SignalHandoff(t)
        PROVE  NoLostWakeUp'
    <2>. Quiet
      BY <1>4
         DEF AsyncWaitTake, AsyncWaitStore, AsyncWaitRefuse, SignalHandoff, InBody,
             Continue, Finish, Asleep, Notifiers, Testers
    <2>. QED
      BY <1>q
  (* One permit and one tester fewer. *)
  <1>5. ASSUME NEW t \in Threads, WaitTake(t) PROVE NoLostWakeUp'
    <2>1. Testers \ {t} \subseteq Testers' /\ Notifiers \subseteq Notifiers'
          /\ Asleep' \subseteq Asleep /\ count' = count - 1
      BY <1>5 DEF WaitTake, InBody, Finish, Asleep, Notifiers, Testers
    <2>2. Cardinality(Testers) - 1 <= Cardinality(Testers')
      BY <2>1, ThreadSets, ThreadSetsNext, LosesOne
    <2>3. Cardinality(Notifiers) <= Cardinality(Notifiers')
      BY <2>1, ThreadSetsNext, Grows
    <2>. QED
      BY <2>1, <2>2, <2>3, ThreadSets, ThreadSetsNext DEF NoLostWakeUp
  (* Who falls asleep has seen that there is no permit. *)
  <1>6. ASSUME NEW t \in Threads, WaitSleep(t) PROVE NoLostWakeUp'
    BY <1>6, ThreadSetsNext DEF WaitSleep, NoLostWakeUp
  (* The new permit comes with a notification. *)
  <1>7. ASSUME NEW t \in Threads, SignalCount(t) PROVE NoLostWakeUp'
    <2>1. /\ t \in Notifiers' /\ t \notin Notifiers
          /\ Notifiers \subseteq Notifiers' /\ Testers \subseteq Testers'
          /\ Asleep' \subseteq Asleep /\ count' = count + 1
      BY <1>7 DEF SignalCount, InBody, Continue, Asleep, Notifiers, Testers
    <2>2. Cardinality(Notifiers) + 1 <= Cardinality(Notifiers')
      BY <2>1, ThreadSetsNext, GainsOne
    <2>3. Cardinality(Testers) <= Cardinality(Testers')
      BY <2>1, ThreadSetsNext, Grows
    <2>. QED
      BY <2>1, <2>2, <2>3, ThreadSets, ThreadSetsNext DEF NoLostWakeUp
  (* The notification turns a sleeper into a tester. *)
  <1>8. ASSUME NEW t \in Threads, NotifyOne(t) PROVE NoLostWakeUp'
    <2>1. CASE Asleep = {}
      BY <1>8, <2>1 DEF NotifyOne, AfterNotify, Asleep, NoLostWakeUp
    <2>2. ASSUME NEW sleeper \in Asleep,
                 pc' = [pc EXCEPT ![t] = AfterNotify(t), ![sleeper] = "lock"]
          PROVE  NoLostWakeUp'
      <3>1. /\ sleeper \in Testers' /\ sleeper \notin Testers
            /\ Testers \subseteq Testers' /\ Notifiers \ {t} \subseteq Notifiers'
            /\ Asleep # {} /\ count' = count
        BY <1>8, <2>2 DEF NotifyOne, AfterNotify, Asleep, Notifiers, Testers
      <3>2. Cardinality(Testers) + 1 <= Cardinality(Testers')
        BY <3>1, ThreadSetsNext, GainsOne
      <3>3. Cardinality(Notifiers) - 1 <= Cardinality(Notifiers')
        BY <3>1, ThreadSets, ThreadSetsNext, LosesOne
      <3>. QED
        BY <3>1, <3>2, <3>3, ThreadSets, ThreadSetsNext DEF NoLostWakeUp
    <2>. QED
      BY <1>8, <2>1, <2>2 DEF NotifyOne
  <1>9. ASSUME NEW t \in Threads,
               \/ RunHandler(t)
               \/ \E h \in Handlers : HandlerReturns(t, h) \/ HandlerThrows(t, h)
        PROVE  UNCHANGED <<count, pc, op>>
    BY <1>9 DEF RunHandler, HandlerReturns, HandlerThrows
  <1>. QED
    BY <1>1, <1>2, <1>3, <1>4, <1>5, <1>6, <1>7, <1>8, <1>9
       DEF Next, Finishing, Body, vars

(***************************************************************************)
(* No wake-up is lost: as long as a thread sleeps in wait() every permit in *)
(* m_count has a notification or a test of the predicate still to come,     *)
(* for any number of threads and wherever the unlocked notify_one falls.   *)
(***************************************************************************)
THEOREM NoWakeUpLost == Spec => []NoLostWakeUp
  <1>1. Init => NoLostWakeUp
    BY DEF Init, NoLostWakeUp, Asleep
  <1>. QED
    BY <1>1, StepWakeUp, TypeInvariant, PTL DEF Spec

-----------------------------------------------------------------------------
(* SynchronizedSemaphore implements CountingSemaphore. *)

(***************************************************************************)
(* A handler is in one of these places at most: stored, in one call, or     *)
(* posted or running.  Without it a permit could answer two waits of the    *)
(* mapping.                                                                *)
(***************************************************************************)
HeldOnce ==
    \A h \in Handlers :
        /\ h = handler => ~Present(h) /\ \A t \in Threads : ~Occurs(h, arg[t])
        /\ \A t \in Threads : Occurs(h, arg[t]) =>
              ~Present(h) /\ \A u \in Threads : Occurs(h, arg[u]) => u = t

(* Calls that have nothing to dispatch carry nothing. *)
EmptyHanded ==
    \A t \in Threads :
        pc[t] \in {"user", "leave", "asleep"} \/ op[t] = "wait" => arg[t] = <<>>

RInv == TypeInv /\ NoPermitBesideStoredWait /\ HeldOnce /\ EmptyHanded

-----------------------------------------------------------------------------
LEMMA OccursFacts ==
    /\ \A h : ~Occurs(h, <<>>)
    /\ \A h, x : Occurs(h, <<x>>) <=> h = x
  BY DEF Occurs

LEMMA OccursConcat ==
    ASSUME NEW x \in Handlers, NEW item \in Items, NEW h
    PROVE  Occurs(h, <<x>> \o item) <=> h = x \/ Occurs(h, item)
  <1>1. /\ Len(item) \in Nat /\ DOMAIN item = 1 .. Len(item)
        /\ DOMAIN (<<x>> \o item) = 1 .. Len(item) + 1
        /\ (<<x>> \o item)[1] = x
        /\ \A i \in 1 .. Len(item) : (<<x>> \o item)[i + 1] = item[i]
    BY DEF Items
  <1>2. ASSUME Occurs(h, <<x>> \o item), h # x PROVE Occurs(h, item)
    <2>1. PICK i \in 1 .. Len(item) + 1 : (<<x>> \o item)[i] = h
      BY <1>1, <1>2 DEF Occurs
    <2>2. i - 1 \in 1 .. Len(item) /\ (i - 1) + 1 = i
      BY <1>1, <1>2, <2>1
    <2>3. item[i - 1] = h
      BY <1>1, <2>1, <2>2
    <2>. QED
      BY <1>1, <2>2, <2>3 DEF Occurs
  <1>3. ASSUME Occurs(h, item) PROVE Occurs(h, <<x>> \o item)
    <2>1. PICK i \in 1 .. Len(item) : item[i] = h
      BY <1>1, <1>3 DEF Occurs
    <2>2. i + 1 \in 1 .. Len(item) + 1 /\ (<<x>> \o item)[i + 1] = h
      BY <1>1, <2>1
    <2>. QED
      BY <1>1, <2>2 DEF Occurs
  <1>4. Occurs(x, <<x>> \o item)
    BY <1>1 DEF Occurs
  <1>. QED
    BY <1>2, <1>3, <1>4

LEMMA IdlePresence ==
    ASSUME UNCHANGED <<ready, stack>>, NEW h
    PROVE  Present(h)' <=> Present(h)
  BY DEF Present, Posted, OnStack

-----------------------------------------------------------------------------
LEMMA InitRInv == Init => RInv
  <1>. SUFFICES ASSUME Init PROVE RInv
    OBVIOUS
  <1>1. TypeInv /\ NoPermitBesideStoredWait
    BY InitTypeInv DEF Init, NoPermitBesideStoredWait
  <1>2. \A t \in Threads : arg[t] = <<>>
    BY DEF Init
  <1>3. handler \notin Handlers
    BY SemaphoreAssumption DEF Init
  <1>. QED
    BY <1>1, <1>2, <1>3, OccursFacts DEF RInv, HeldOnce, EmptyHanded

(* Steps that move no handler. *)
LEMMA QuietHeldOnce ==
    ASSUME HeldOnce, UNCHANGED <<handler, arg>>,
           \A h : Present(h)' => Present(h)
    PROVE  HeldOnce'
  BY DEF HeldOnce

LEMMA StepEmptyHanded == TypeInv /\ EmptyHanded /\ [Next]_vars => EmptyHanded'
  <1>. SUFFICES ASSUME TypeInv, EmptyHanded, [Next]_vars PROVE EmptyHanded'
    OBVIOUS
  <1>. USE DEF TypeInv, TypeOK, EmptyHanded, PCs, Ops
  <1>1. ASSUME NEW t \in Threads, Call(t) PROVE EmptyHanded'
    BY <1>1 DEF Call, CallAsyncWait, CallWait, CallAsyncSignal, CallSignal, Enter
  <1>2. ASSUME NEW t \in Threads, Lock(t) PROVE EmptyHanded'
    BY <1>2 DEF Lock
  <1>3. ASSUME NEW t \in Threads, Body(t) PROVE EmptyHanded'
    BY <1>3 DEF Body, AsyncWaitTake, AsyncWaitStore, AsyncWaitRefuse, WaitTake,
                WaitSleep, SignalHandoff, SignalCount, InBody, Continue, Finish
  <1>4. ASSUME NEW t \in Threads, Leave(t) PROVE EmptyHanded'
    BY <1>4 DEF Leave
  <1>5. ASSUME NEW t \in Threads, NotifyOne(t) PROVE EmptyHanded'
    BY <1>5 DEF NotifyOne, AfterNotify, Asleep, CallsOK
  <1>6. ASSUME NEW t \in Threads, DispatchArg(t) PROVE EmptyHanded'
    BY <1>6 DEF DispatchArg
  <1>7. ASSUME NEW t \in Threads, SpuriousWakeUp(t) PROVE EmptyHanded'
    BY <1>7 DEF SpuriousWakeUp, CallsOK
  <1>8. CASE UNCHANGED <<pc, op, arg>>
    BY <1>8
  <1>. QED
    BY <1>1, <1>2, <1>3, <1>4, <1>5, <1>6, <1>7, <1>8
       DEF Next, Finishing, RunHandler, HandlerReturns, HandlerThrows, vars

LEMMA CallHeldOnce ==
    ASSUME TypeInv, HeldOnce, NEW t \in Threads, Call(t)
    PROVE  HeldOnce'
  <1>1. ASSUME NEW name \in Ops, NEW item \in Items, Enter(t, name, item),
               \A h \in Handlers : Occurs(h, item) => Free(h)
        PROVE  HeldOnce'
    <2>1. /\ UNCHANGED handler /\ arg'[t] = item
          /\ \A u \in Threads : u # t => arg'[u] = arg[u]
          /\ \A h : Present(h)' <=> Present(h)
      BY <1>1, IdlePresence DEF Enter, TypeInv, TypeOK
    <2>2. \A h \in Handlers : Occurs(h, item) =>
            /\ h # handler /\ ~Present(h)
            /\ \A u \in Threads : ~Occurs(h, arg[u])
      BY <1>1 DEF Free, Present
    <2>. QED
      BY <2>1, <2>2 DEF HeldOnce
  <1>2. CASE CallAsyncWait(t)
    <2>1. PICK h \in WaitHandlers : Free(h) /\ Enter(t, "async_wait", <<h>>)
      BY <1>2 DEF CallAsyncWait
    <2>2. <<h>> \in Items
      BY ItemTypes, SemaphoreAssumption
    <2>. QED
      BY <1>1, <2>1, <2>2, OccursFacts DEF Ops
  <1>3. CASE CallWait(t)
    BY <1>1, <1>3, ItemTypes, OccursFacts DEF CallWait, Ops
  <1>4. CASE CallAsyncSignal(t)
    <2>1. PICK h \in SignalHandlers : Free(h) /\ Enter(t, "async_signal", <<h>>)
      BY <1>4 DEF CallAsyncSignal
    <2>2. <<h>> \in Items
      BY ItemTypes, SemaphoreAssumption
    <2>. QED
      BY <1>1, <2>1, <2>2, OccursFacts DEF Ops
  <1>5. CASE CallSignal(t)
    BY <1>1, <1>5, ItemTypes, OccursFacts DEF CallSignal, Ops
  <1>. QED
    BY <1>2, <1>3, <1>4, <1>5 DEF Call

(* The handler moves from the call to m_handler, or the other way.          *)
LEMMA BodyHeldOnce ==
    ASSUME TypeInv, HeldOnce, NEW t \in Threads, Body(t)
    PROVE  HeldOnce'
  <1>1. /\ \A h : Present(h)' <=> Present(h)
        /\ \A u \in Threads : u # t => arg'[u] = arg[u]
        /\ arg \in [Threads -> Items]
    BY IdlePresence
       DEF Body, AsyncWaitTake, AsyncWaitStore, AsyncWaitRefuse, WaitTake, WaitSleep,
           SignalHandoff, SignalCount, Continue, Finish, TypeInv, TypeOK
  <1>2. CASE AsyncWaitStore(t)
    <2>1. PICK h \in WaitHandlers : arg[t] = <<h>>
      BY <1>2 DEF AsyncWaitStore, InBody, TypeInv, CallsOK
    <2>2. handler' = h /\ arg'[t] = <<>>
      BY <1>1, <1>2, <2>1 DEF AsyncWaitStore, Finish
    <2>3. Occurs(h, arg[t])
      BY <2>1, OccursFacts
    <2>. QED
      BY <1>1, <2>2, <2>3, OccursFacts DEF HeldOnce
  <1>3. CASE SignalHandoff(t)
    <2>1. handler \in WaitHandlers /\ handler \in Handlers /\ handler' \notin Handlers
      BY <1>3, SemaphoreAssumption
         DEF SignalHandoff, TakeHandler, TypeInv, TypeOK
    <2>2. arg'[t] = <<handler>> \o arg[t]
      BY <1>1, <1>3 DEF SignalHandoff, Continue
    <2>3. \A h : Occurs(h, arg'[t]) <=> h = handler \/ Occurs(h, arg[t])
      BY <1>1, <2>1, <2>2, OccursConcat
    <2>. QED
      BY <1>1, <2>1, <2>3 DEF HeldOnce
  <1>4. CASE ~AsyncWaitStore(t) /\ ~SignalHandoff(t)
    <2>1. handler' = handler /\ (arg'[t] = arg[t] \/ arg'[t] = <<>>)
      BY <1>1, <1>4
         DEF Body, AsyncWaitTake, AsyncWaitRefuse, WaitTake, WaitSleep, SignalCount,
             Continue, Finish
    <2>2. \A u \in Threads : \A h : Occurs(h, arg'[u]) => Occurs(h, arg[u])
      BY <1>1, <2>1, OccursFacts
    <2>. QED
      BY <1>1, <2>1, <2>2 DEF HeldOnce
  <1>. QED
    BY <1>2, <1>3, <1>4

LEMMA DispatchHeldOnce ==
    ASSUME TypeInv, HeldOnce, NEW t \in Threads, DispatchArg(t)
    PROVE  HeldOnce'
  <1>1. arg[t] \in Items /\ Dispatch(t, arg[t]) /\ IoTypeOK
    BY DEF DispatchArg, TypeInv, TypeOK
  <1>2. \A h : Present(h)' <=> Present(h) \/ Occurs(h, arg[t])
    BY <1>1, DispatchPresence
  <1>3. /\ arg'[t] = <<>> /\ handler' = handler
        /\ \A u \in Threads : u # t => arg'[u] = arg[u]
    BY DEF DispatchArg, TypeInv, TypeOK
  <1>. QED
    BY <1>2, <1>3, OccursFacts DEF HeldOnce

LEMMA HandlerPresence ==
    ASSUME TypeInv, NEW t \in Threads, RunOne(t) \/ Return(t) \/ Throw(t, Throwing), NEW h
    PROVE  Present(h)' => Present(h)
  BY RunPresence, ReturnPresence DEF TypeInv, TypeOK

LEMMA StepHeldOnce == TypeInv /\ HeldOnce /\ [Next]_vars => HeldOnce'
  <1>. SUFFICES ASSUME TypeInv, HeldOnce, [Next]_vars PROVE HeldOnce'
    OBVIOUS
  <1>1. CASE UNCHANGED <<ready, stack, handler, arg>>
    BY <1>1, IdlePresence, QuietHeldOnce
  <1>2. ASSUME NEW t \in Threads, Call(t) PROVE HeldOnce'
    BY <1>2, CallHeldOnce
  <1>3. ASSUME NEW t \in Threads, Body(t) PROVE HeldOnce'
    BY <1>3, BodyHeldOnce
  <1>4. ASSUME NEW t \in Threads, DispatchArg(t) PROVE HeldOnce'
    BY <1>4, DispatchHeldOnce
  <1>5. ASSUME NEW t \in Threads,
               \/ RunHandler(t)
               \/ \E h \in Handlers : HandlerReturns(t, h) \/ HandlerThrows(t, h)
        PROVE  HeldOnce'
    <2>1. RunOne(t) \/ Return(t) \/ Throw(t, Throwing)
      BY <1>5 DEF RunHandler, HandlerReturns, HandlerThrows
    <2>2. UNCHANGED <<handler, arg>>
      BY <1>5 DEF RunHandler, HandlerReturns, HandlerThrows
    <2>. QED
      BY <2>1, <2>2, HandlerPresence, QuietHeldOnce
  <1>6. ASSUME NEW t \in Threads,
               Lock(t) \/ Leave(t) \/ NotifyOne(t) \/ SpuriousWakeUp(t)
        PROVE  HeldOnce'
    BY <1>1, <1>6 DEF Lock, Leave, NotifyOne, SpuriousWakeUp
  <1>7. CASE UNCHANGED vars
    BY <1>1, <1>7 DEF vars
  <1>. QED
    BY <1>2, <1>3, <1>4, <1>5, <1>6, <1>7 DEF Next, Finishing

THEOREM HandlersHeldOnce == Spec => []RInv
  <1>1. Init => HeldOnce /\ EmptyHanded
    BY InitRInv DEF RInv
  <1>2. TypeInv /\ HeldOnce /\ EmptyHanded /\ [Next]_vars => (HeldOnce /\ EmptyHanded)'
    BY StepHeldOnce, StepEmptyHanded
  <1>3. Spec => [](HeldOnce /\ EmptyHanded)
    BY <1>1, <1>2, TypeInvariant, PTL DEF Spec
  <1>4. TypeInv /\ NoPermitBesideStoredWait /\ HeldOnce /\ EmptyHanded => RInv
    BY DEF RInv
  <1>. QED
    BY <1>3, <1>4, TypeInvariant, PermitsAndWaits, PTL

-----------------------------------------------------------------------------
(* The variables of the counting semaphore, by what they consist of.        *)
WaitCall(t) == op[t] = "wait" /\ pc[t] \in {"lock", "body", "asleep"}

Asks(t, h) ==
    op[t] = "async_wait" /\ pc[t] \in {"lock", "body"} /\ Occurs(h, arg[t])

Unanswered(h) == h = handler \/ \E t \in Threads : Asks(t, h)

Underway(h) == Present(h) \/ \E t \in Threads : Occurs(h, arg[t])

LEMMA Members ==
    /\ PendingWaits = {t \in Threads : WaitCall(t)}
                         \cup {h \in WaitHandlers : Unanswered(h)}
    /\ GrantedWaits = {h \in WaitHandlers : Underway(h) /\ ~Unanswered(h)}
  <1>1. PendingWaits = {t \in Threads : WaitCall(t)}
                         \cup {h \in WaitHandlers : Unanswered(h)}
    BY DEF PendingWaits, WaitCall, Unanswered, Asks
  <1>2. \A h \in WaitHandlers : h \in PendingWaits <=> Unanswered(h)
    BY <1>1, SemaphoreAssumption
  <1>3. \A h \in WaitHandlers : Free(h) <=> h # handler /\ ~Underway(h)
    BY DEF Free, Underway, Present
  <1>4. \A h \in WaitHandlers : h = handler => Unanswered(h)
    BY DEF Unanswered
  <1>. QED
    BY <1>1, <1>2, <1>3, <1>4 DEF GrantedWaits

LEMMA MembersPrimed ==
    /\ PendingWaits' = {t \in Threads : WaitCall(t)'}
                          \cup {h \in WaitHandlers : Unanswered(h)'}
    /\ GrantedWaits' = {h \in WaitHandlers : Underway(h)' /\ ~Unanswered(h)'}
  <1>1. PendingWaits' = {t \in Threads : WaitCall(t)'}
                          \cup {h \in WaitHandlers : Unanswered(h)'}
    BY DEF PendingWaits, WaitCall, Unanswered, Asks
  <1>2. \A h \in WaitHandlers : h \in PendingWaits' <=> Unanswered(h)'
    BY <1>1, SemaphoreAssumption
  <1>3. \A h \in WaitHandlers : Free(h)' <=> h # handler' /\ ~Underway(h)'
    BY DEF Free, Underway, Present, Posted, OnStack
  <1>4. \A h \in WaitHandlers : h = handler' => Unanswered(h)'
    BY DEF Unanswered
  <1>. QED
    BY <1>1, <1>2, <1>3, <1>4 DEF GrantedWaits

(* A call changes nothing of the other threads'. *)
LEMMA Elsewhere ==
    ASSUME NEW t \in Threads,
           \A u \in Threads : u # t =>
              pc'[u] = pc[u] /\ op'[u] = op[u] /\ arg'[u] = arg[u]
    PROVE  \A u \in Threads : u # t =>
              /\ WaitCall(u)' <=> WaitCall(u)
              /\ \A h : /\ Asks(u, h)' <=> Asks(u, h)
                        /\ Occurs(h, arg'[u]) <=> Occurs(h, arg[u])
  BY DEF WaitCall, Asks

LEMMA Unchanged ==
    ASSUME UNCHANGED count,
           \A t \in Threads : WaitCall(t)' <=> WaitCall(t),
           \A h \in WaitHandlers : /\ Unanswered(h)' <=> Unanswered(h)
                                   /\ Underway(h)' <=> Underway(h)
    PROVE  UNCHANGED Promise!vars
  BY Members, MembersPrimed DEF Promise!vars

-----------------------------------------------------------------------------
LEMMA InitRefines == Init => Promise!Init
  <1>. SUFFICES ASSUME Init PROVE Promise!Init
    OBVIOUS
  <1>1. \A t \in Threads : pc[t] = "user" /\ arg[t] = <<>> /\ stack[t] = <<>>
    BY DEF Init, IoInit
  <1>2. \A t \in Threads : ~WaitCall(t)
    BY <1>1 DEF WaitCall
  <1>3. \A h \in WaitHandlers : ~Unanswered(h)
    BY <1>1, SemaphoreAssumption DEF Unanswered, Asks, Init
  <1>4. \A h \in WaitHandlers : ~Underway(h)
    BY <1>1, OccursFacts
       DEF Underway, Present, Posted, OnStack, OccursIn, Init, IoInit
  <1>5. PendingWaits = {} /\ GrantedWaits = {}
    BY <1>2, <1>3, <1>4, Members
  <1>. QED
    BY <1>5 DEF Promise!Init, Init

(* Entering a wait asks for a permit, entering a signal changes nothing. *)
LEMMA CallRefines ==
    ASSUME RInv, NEW t \in Threads, Call(t)
    PROVE  [Promise!Next]_(Promise!vars)
  <1>. USE DEF RInv, TypeInv, TypeOK
  <1>1. ASSUME NEW name \in Ops, NEW item \in Items, Enter(t, name, item)
        PROVE  /\ pc[t] = "user" /\ pc'[t] = "lock"
               /\ op'[t] = name /\ arg[t] = <<>> /\ arg'[t] = item
               /\ UNCHANGED <<count, handler>>
               /\ \A u \in Threads : u # t =>
                     pc'[u] = pc[u] /\ op'[u] = op[u] /\ arg'[u] = arg[u]
               /\ \A h : Present(h)' <=> Present(h)
    BY <1>1, IdlePresence DEF Enter, EmptyHanded
  <1>2. CASE CallAsyncWait(t)
    <2>1. PICK h \in WaitHandlers : Free(h) /\ Enter(t, "async_wait", <<h>>)
      BY <1>2 DEF CallAsyncWait
    <2>2. <<h>> \in Items
      BY ItemTypes, SemaphoreAssumption
    <2>3. ~WaitCall(t) /\ ~WaitCall(t)' /\ \A x : ~Asks(t, x)
      BY <1>1, <2>1, <2>2 DEF WaitCall, Asks, Ops
    <2>4. \A x : Asks(t, x)' <=> x = h
      BY <1>1, <2>1, <2>2, OccursFacts DEF Asks, Ops
    <2>5. \A u \in Threads : WaitCall(u)' <=> WaitCall(u)
      BY <1>1, <2>1, <2>2, <2>3, Elsewhere DEF Ops
    <2>6. \A x : Unanswered(x)' <=> Unanswered(x) \/ x = h
      BY <1>1, <2>1, <2>2, <2>3, <2>4, Elsewhere DEF Unanswered, Ops
    <2>7. \A x : Underway(x)' <=> Underway(x) \/ x = h
      BY <1>1, <2>1, <2>2, OccursFacts, Elsewhere DEF Underway, Ops
    <2>8. ~Unanswered(h) /\ ~Underway(h)
      BY <2>1 DEF Free, Unanswered, Underway, Asks, Present
    <2>9. PendingWaits' = PendingWaits \cup {h} /\ GrantedWaits' = GrantedWaits
      BY <2>5, <2>6, <2>7, <2>8, Members, MembersPrimed
    <2>10. h \notin PendingWaits /\ h \notin GrantedWaits
      BY <2>8, Members, SemaphoreAssumption
    <2>11. Promise!Ask(h)
      BY <1>1, <2>1, <2>2, <2>9, <2>10 DEF Promise!Ask, Ops
    <2>. QED
      BY <2>11 DEF Promise!Next, Promise!Clients
  <1>3. CASE CallWait(t)
    <2>1. Enter(t, "wait", <<>>) /\ <<>> \in Items /\ "wait" \in Ops
      BY <1>3, ItemTypes DEF CallWait, Ops
    <2>2. ~WaitCall(t) /\ WaitCall(t)' /\ \A x : ~Asks(t, x) /\ ~Asks(t, x)'
      BY <1>1, <2>1 DEF WaitCall, Asks
    <2>3. \A x : Unanswered(x)' <=> Unanswered(x)
      BY <1>1, <2>1, <2>2, Elsewhere DEF Unanswered
    <2>4. \A x : Underway(x)' <=> Underway(x)
      BY <1>1, <2>1, Elsewhere DEF Underway
    <2>5. PendingWaits' = PendingWaits \cup {t} /\ GrantedWaits' = GrantedWaits
      BY <1>1, <2>1, <2>2, <2>3, <2>4, Elsewhere, Members, MembersPrimed
    <2>6. t \notin PendingWaits /\ t \notin GrantedWaits
      BY <2>2, Members, SemaphoreAssumption
    <2>7. Promise!Ask(t)
      BY <1>1, <2>1, <2>5, <2>6 DEF Promise!Ask
    <2>. QED
      BY <2>7 DEF Promise!Next, Promise!Clients
  <1>4. CASE CallAsyncSignal(t) \/ CallSignal(t)
    <2>1. PICK name \in {"signal", "async_signal"}, item \in Items :
            /\ Enter(t, name, item)
            /\ \A h \in WaitHandlers : ~Occurs(h, item)
      <3>1. CASE CallSignal(t)
        BY <3>1, ItemTypes, OccursFacts DEF CallSignal
      <3>2. CASE CallAsyncSignal(t)
        <4>1. PICK h \in SignalHandlers : Enter(t, "async_signal", <<h>>)
          BY <3>2 DEF CallAsyncSignal
        <4>2. <<h>> \in Items /\ h \notin WaitHandlers
          BY ItemTypes, SemaphoreAssumption
        <4>. QED
          BY <4>1, <4>2, OccursFacts
      <3>. QED
        BY <1>4, <3>1, <3>2
    <2>2. name \in Ops
      BY DEF Ops
    <2>3. ~WaitCall(t) /\ ~WaitCall(t)' /\ \A x : ~Asks(t, x) /\ ~Asks(t, x)'
      BY <1>1, <2>1, <2>2 DEF WaitCall, Asks
    <2>4. \A u \in Threads : WaitCall(u)' <=> WaitCall(u)
      BY <1>1, <2>1, <2>2, <2>3, Elsewhere
    <2>5. \A x \in WaitHandlers : Unanswered(x)' <=> Unanswered(x)
      BY <1>1, <2>1, <2>2, <2>3, Elsewhere DEF Unanswered
    <2>6. \A x \in WaitHandlers : Underway(x)' <=> Underway(x)
      BY <1>1, <2>1, <2>2, OccursFacts, Elsewhere DEF Underway
    <2>7. UNCHANGED count
      BY <1>1, <2>1, <2>2
    <2>. QED
      BY <2>4, <2>5, <2>6, <2>7, Unchanged
  <1>. QED
    BY <1>2, <1>3, <1>4 DEF Call

(* What the bodies have in common. *)
LEMMA BodyFacts ==
    ASSUME RInv, NEW t \in Threads, Body(t)
    PROVE  /\ pc[t] = "body" /\ op'[t] = op[t]
           /\ pc'[t] \notin {"lock", "body"}
           /\ \A u \in Threads : u # t =>
                 pc'[u] = pc[u] /\ op'[u] = op[u] /\ arg'[u] = arg[u]
           /\ \A h : Present(h)' <=> Present(h)
           /\ \A h : ~Asks(t, h)'
           /\ \A u \in Threads : u # t =>
                 /\ WaitCall(u)' <=> WaitCall(u)
                 /\ \A h : /\ Asks(u, h)' <=> Asks(u, h)
                           /\ Occurs(h, arg'[u]) <=> Occurs(h, arg[u])
  <1>1. /\ pc[t] = "body" /\ op'[t] = op[t]
        /\ pc'[t] \notin {"lock", "body"}
        /\ UNCHANGED <<ready, stack>>
        /\ \A u \in Threads : u # t =>
              pc'[u] = pc[u] /\ op'[u] = op[u] /\ arg'[u] = arg[u]
    BY DEF RInv, TypeInv, TypeOK, Body, AsyncWaitTake, AsyncWaitStore, AsyncWaitRefuse,
           WaitTake, WaitSleep, SignalHandoff, SignalCount, InBody, Continue, Finish
  <1>2. \A h : ~Asks(t, h)'
    BY <1>1 DEF Asks
  <1>. QED
    BY <1>1, <1>2, IdlePresence, Elsewhere

(* The body of async_wait, with the handler it was given. *)
LEMMA AsyncWaitRefines ==
    ASSUME RInv, NEW t \in Threads, Body(t), InBody(t, "async_wait")
    PROVE  [Promise!Next]_(Promise!vars)
  <1>. USE DEF InBody
  <1>1. PICK h \in WaitHandlers : arg[t] = <<h>>
    BY DEF RInv, TypeInv, CallsOK
  <1>2. \A x : Occurs(x, arg[t]) <=> x = h
    BY <1>1, OccursFacts
  <1>3. ~WaitCall(t) /\ ~WaitCall(t)' /\ \A x : Asks(t, x) <=> x = h
    BY <1>2, BodyFacts DEF WaitCall, Asks
  <1>4. /\ h # handler /\ ~Present(h) /\ Unanswered(h)
        /\ \A u \in Threads : u # t => ~Occurs(h, arg[u]) /\ ~Asks(u, h)
    BY <1>2, <1>3, SemaphoreAssumption DEF RInv, HeldOnce, Unanswered, Asks
  <1>5. \A u \in Threads : WaitCall(u)' <=> WaitCall(u)
    BY <1>3, BodyFacts
  <1>6. h \in Promise!Clients
    BY DEF Promise!Clients
  <1>7. h \notin GrantedWaits /\ h \in PendingWaits /\ h \notin Threads
    BY <1>4, Members, SemaphoreAssumption
  <1>8. CASE AsyncWaitTake(t)
    <2>1. handler' = handler /\ arg'[t] = arg[t]
      BY <1>8 DEF AsyncWaitTake, Continue, RInv, TypeInv, TypeOK
    <2>2. \A x : Unanswered(x)' <=> Unanswered(x) /\ x # h
      BY <1>3, <1>4, <2>1, BodyFacts DEF Unanswered
    <2>3. \A x : Underway(x)' <=> Underway(x)
      BY <2>1, BodyFacts DEF Underway
    <2>4. Underway(h)
      BY <1>2 DEF Underway
    <2>5. PendingWaits' = PendingWaits \ {h} /\ GrantedWaits' = GrantedWaits \cup {h}
      BY <1>5, <1>7, <2>2, <2>3, <2>4, Members, MembersPrimed
    <2>6. Promise!Take(h)
      BY <1>7, <1>8, <2>5 DEF Promise!Take, AsyncWaitTake
    <2>. QED
      BY <1>6, <2>6 DEF Promise!Next
  <1>9. CASE AsyncWaitStore(t)
    <2>1. handler' = h /\ handler \notin WaitHandlers
      BY <1>1, <1>9, SemaphoreAssumption DEF AsyncWaitStore
    <2>2. arg'[t] = <<>>
      BY <1>9 DEF AsyncWaitStore, Finish, RInv, TypeInv, TypeOK
    <2>3. \A x \in WaitHandlers : Unanswered(x)' <=> Unanswered(x)
      BY <1>3, <2>1, BodyFacts DEF Unanswered
    <2>4. \A x : x # h => (Underway(x)' <=> Underway(x))
      BY <1>2, <2>2, BodyFacts, OccursFacts DEF Underway
    <2>5. UNCHANGED Promise!vars
      <3>1. PendingWaits' = PendingWaits
        BY <1>5, <2>3, Members, MembersPrimed
      <3>2. GrantedWaits' = GrantedWaits
        BY <1>4, <2>3, <2>4, Members, MembersPrimed
      <3>. QED
        BY <1>9, <3>1, <3>2 DEF AsyncWaitStore, Promise!vars
    <2>. QED
      BY <2>5
  <1>10. CASE AsyncWaitRefuse(t)
    <2>1. handler' = handler /\ arg'[t] = <<>> /\ handler \in WaitHandlers
      BY <1>10 DEF AsyncWaitRefuse, Finish, RInv, TypeInv, TypeOK
    <2>2. \A x : Unanswered(x)' <=> Unanswered(x) /\ x # h
      BY <1>3, <1>4, <2>1, BodyFacts DEF Unanswered
    <2>3. \A x : Underway(x)' <=> Underway(x) /\ x # h
      BY <1>2, <1>4, <2>1, BodyFacts, OccursFacts DEF Underway
    <2>4. PendingWaits' = PendingWaits \ {h} /\ GrantedWaits' = GrantedWaits
      BY <1>4, <1>5, <1>7, <2>2, <2>3, Members, MembersPrimed
    <2>5. handler \in PendingWaits
      BY <2>1, Members DEF Unanswered
    <2>6. Promise!Refuse(h)
      BY <1>4, <1>7, <1>10, <2>1, <2>4, <2>5 DEF Promise!Refuse, AsyncWaitRefuse
    <2>. QED
      BY <1>6, <2>6 DEF Promise!Next
  <1>. QED
    BY <1>8, <1>9, <1>10
       DEF Body, WaitTake, WaitSleep, SignalHandoff, SignalCount

(* The body of wait() takes a permit or puts the thread to sleep. *)
LEMMA WaitRefines ==
    ASSUME RInv, NEW t \in Threads, Body(t), InBody(t, "wait")
    PROVE  [Promise!Next]_(Promise!vars)
  <1>. USE DEF InBody
  <1>1. arg[t] = <<>> /\ WaitCall(t) /\ \A x : ~Asks(t, x)
    BY DEF RInv, EmptyHanded, WaitCall, Asks
  <1>2. WaitTake(t) \/ WaitSleep(t)
    BY DEF Body, AsyncWaitTake, AsyncWaitStore, AsyncWaitRefuse, SignalHandoff,
           SignalCount
  <1>3. handler' = handler /\ arg'[t] = <<>>
    BY <1>2 DEF WaitTake, WaitSleep, Finish, Continue, RInv, TypeInv, TypeOK
  <1>4. /\ \A x : Unanswered(x)' <=> Unanswered(x)
        /\ \A x : Underway(x)' <=> Underway(x)
    BY <1>1, <1>3, BodyFacts DEF Unanswered, Underway
  <1>5. t \notin WaitHandlers /\ t \notin GrantedWaits
    BY Members, SemaphoreAssumption
  <1>6. CASE WaitTake(t)
    <2>1. ~WaitCall(t)'
      BY <1>6 DEF WaitTake, Finish, WaitCall, RInv, TypeInv, TypeOK
    <2>2. PendingWaits' = PendingWaits \ {t} /\ GrantedWaits' = GrantedWaits
      BY <1>4, <1>5, <2>1, BodyFacts, Members, MembersPrimed
    <2>3. Promise!Take(t)
      BY <1>5, <1>6, <2>2 DEF Promise!Take, WaitTake
    <2>. QED
      BY <2>3 DEF Promise!Next, Promise!Clients
  <1>7. CASE WaitSleep(t)
    <2>1. WaitCall(t)'
      BY <1>7 DEF WaitSleep, Continue, WaitCall, RInv, TypeInv, TypeOK
    <2>2. \A u \in Threads : WaitCall(u)' <=> WaitCall(u)
      BY <1>1, <2>1, BodyFacts
    <2>. QED
      BY <1>4, <1>7, <2>2, Unchanged DEF WaitSleep
  <1>. QED
    BY <1>2, <1>6, <1>7

(* The bodies of the signals answer the stored wait or free a permit. *)
LEMMA SignalRefines ==
    ASSUME RInv, NEW t \in Threads, SignalHandoff(t) \/ SignalCount(t)
    PROVE  [Promise!Next]_(Promise!vars)
  <1>. USE DEF InBody
  <1>0. Body(t)
    BY DEF Body
  <1>1. op[t] \in {"signal", "async_signal"}
    BY DEF SignalHandoff, SignalCount
  <1>2. ~WaitCall(t) /\ ~WaitCall(t)' /\ \A x : ~Asks(t, x)
    BY <1>0, <1>1, BodyFacts DEF WaitCall, Asks
  <1>3. \A u \in Threads : WaitCall(u)' <=> WaitCall(u)
    BY <1>0, <1>2, BodyFacts
  <1>4. CASE SignalHandoff(t)
    <2>1. /\ handler \in WaitHandlers /\ handler \in Handlers
          /\ handler' \notin WaitHandlers /\ count = 0
      BY <1>4, SemaphoreAssumption
         DEF SignalHandoff, TakeHandler, RInv, TypeInv, TypeOK,
             NoPermitBesideStoredWait
    <2>2. arg'[t] = <<handler>> \o arg[t] /\ arg[t] \in Items
      BY <1>4 DEF SignalHandoff, Continue, RInv, TypeInv, TypeOK
    <2>3. \A x : Occurs(x, arg'[t]) <=> x = handler \/ Occurs(x, arg[t])
      BY <2>1, <2>2, OccursConcat
    <2>4. /\ \A u \in Threads : ~Occurs(handler, arg[u])
          /\ \A u \in Threads : ~Asks(u, handler)
      BY <2>1 DEF RInv, HeldOnce, Asks
    <2>5. \A x \in WaitHandlers : Unanswered(x)' <=> Unanswered(x) /\ x # handler
      BY <1>0, <1>2, <2>1, <2>4, BodyFacts DEF Unanswered
    <2>6. \A x : Underway(x)' <=> Underway(x) \/ x = handler
      BY <1>0, <2>3, BodyFacts DEF Underway
    <2>7. Unanswered(handler)
      BY DEF Unanswered
    <2>8. handler \in PendingWaits /\ handler \notin Threads
      BY <2>1, <2>7, Members, SemaphoreAssumption
    <2>9. PendingWaits' = PendingWaits \ {handler}
      BY <1>3, <2>5, <2>8, Members, MembersPrimed
    <2>10. GrantedWaits' = GrantedWaits \cup {handler}
      BY <2>1, <2>5, <2>6, Members, MembersPrimed
    <2>11. Promise!Handoff(handler)
      BY <1>4, <2>1, <2>8, <2>9, <2>10 DEF Promise!Handoff, SignalHandoff
    <2>. QED
      BY <2>1, <2>11 DEF Promise!Next, Promise!Clients
  <1>5. CASE SignalCount(t)
    <2>1. handler' = handler /\ arg'[t] = arg[t] /\ count' = count + 1
      BY <1>5 DEF SignalCount, Continue, RInv, TypeInv, TypeOK
    <2>2. /\ \A x : Unanswered(x)' <=> Unanswered(x)
          /\ \A x : Underway(x)' <=> Underway(x)
      BY <1>0, <1>2, <2>1, BodyFacts DEF Unanswered, Underway
    <2>3. PendingWaits' = PendingWaits /\ GrantedWaits' = GrantedWaits
      BY <1>3, <2>2, Members, MembersPrimed
    <2>4. Promise!Release
      BY <2>1, <2>3 DEF Promise!Release
    <2>. QED
      BY <2>4 DEF Promise!Next
  <1>. QED
    BY <1>4, <1>5

(* Dispatching passes what the call carries on to asio. *)
LEMMA DispatchRefines ==
    ASSUME RInv, NEW t \in Threads, DispatchArg(t)
    PROVE  UNCHANGED Promise!vars
  <1>1. arg[t] \in Items /\ Dispatch(t, arg[t]) /\ IoTypeOK
    BY DEF DispatchArg, RInv, TypeInv, TypeOK
  <1>2. \A h : Present(h)' <=> Present(h) \/ Occurs(h, arg[t])
    BY <1>1, DispatchPresence
  <1>3. /\ pc[t] = "dispatch" /\ pc'[t] = "user"
        /\ arg'[t] = <<>> /\ UNCHANGED <<count, handler>>
        /\ \A u \in Threads : u # t =>
              pc'[u] = pc[u] /\ op'[u] = op[u] /\ arg'[u] = arg[u]
    BY DEF DispatchArg, RInv, TypeInv, TypeOK
  <1>4. ~WaitCall(t) /\ ~WaitCall(t)' /\ \A x : ~Asks(t, x) /\ ~Asks(t, x)'
    BY <1>3 DEF WaitCall, Asks
  <1>5. \A u \in Threads : WaitCall(u)' <=> WaitCall(u)
    BY <1>3, <1>4, Elsewhere
  <1>6. \A x : Unanswered(x)' <=> Unanswered(x)
    BY <1>3, <1>4, Elsewhere DEF Unanswered
  <1>7. \A x : Underway(x)' <=> Underway(x)
    BY <1>2, <1>3, OccursFacts, Elsewhere DEF Underway
  <1>. QED
    BY <1>3, <1>5, <1>6, <1>7, Unchanged

(* Locks, notifications and wake-ups only move calls along. *)
LEMMA QuietRefines ==
    ASSUME RInv, NEW t \in Threads,
           Lock(t) \/ Leave(t) \/ NotifyOne(t) \/ SpuriousWakeUp(t)
    PROVE  UNCHANGED Promise!vars
  <1>1. UNCHANGED <<ready, stack, count, handler, op, arg>>
    BY DEF Lock, Leave, NotifyOne, SpuriousWakeUp
  <1>2. \A u \in Threads :
          \/ pc'[u] = pc[u]
          \/ pc[u] \in {"lock", "body"} /\ pc'[u] \in {"lock", "body"}
          \/ pc[u] = "asleep" /\ pc'[u] = "lock" /\ op[u] = "wait"
          \/ /\ pc[u] \notin {"lock", "body", "asleep"}
             /\ pc'[u] \notin {"lock", "body", "asleep"}
    BY DEF Lock, Leave, NotifyOne, AfterNotify, Asleep, SpuriousWakeUp,
           RInv, TypeInv, TypeOK, CallsOK
  <1>3. /\ \A u \in Threads : WaitCall(u)' <=> WaitCall(u)
        /\ \A u \in Threads : \A x : Asks(u, x)' <=> Asks(u, x)
    BY <1>1, <1>2 DEF WaitCall, Asks
  <1>4. /\ \A x : Unanswered(x)' <=> Unanswered(x)
        /\ \A x : Underway(x)' <=> Underway(x)
    BY <1>1, <1>3, IdlePresence DEF Unanswered, Underway
  <1>. QED
    BY <1>1, <1>3, <1>4, Unchanged

(* Handlers that start, return or throw finish granted waits or none. *)
LEMMA HandlerRefines ==
    ASSUME RInv, NEW t \in Threads, RunOne(t) \/ Return(t) \/ Throw(t, Throwing),
           UNCHANGED <<count, handler, pc, op, arg>>
    PROVE  [Promise!Next]_(Promise!vars)
  <1>1. \A x : Underway(x)' => Underway(x)
    BY HandlerPresence DEF RInv, Underway
  <1>2. \A u \in Threads : WaitCall(u)' <=> WaitCall(u)
    BY DEF WaitCall
  <1>3. \A x : Unanswered(x)' <=> Unanswered(x)
    BY DEF Unanswered, Asks
  <1>4. PendingWaits' = PendingWaits /\ GrantedWaits' \subseteq GrantedWaits
    BY <1>1, <1>2, <1>3, Members, MembersPrimed
  <1>. DEFINE done == GrantedWaits \ GrantedWaits'
  <1>5. CASE done = {}
    BY <1>4, <1>5 DEF Promise!vars
  <1>6. CASE done # {}
    <2>1. GrantedWaits' = GrantedWaits \ done
      BY <1>4
    <2>2. Promise!Finish(done)
      BY <1>4, <1>6, <2>1 DEF Promise!Finish
    <2>3. done \in SUBSET GrantedWaits
      OBVIOUS
    <2>. QED
      BY <2>2, <2>3 DEF Promise!Next
  <1>. QED
    BY <1>5, <1>6

LEMMA StepRefines == RInv /\ [Next]_vars => [Promise!Next]_(Promise!vars)
  <1>. SUFFICES ASSUME RInv, [Next]_vars
                PROVE  [Promise!Next]_(Promise!vars)
    OBVIOUS
  <1>1. CASE UNCHANGED vars
    BY <1>1 DEF vars, Promise!vars, PendingWaits, GrantedWaits, Free, Posted, OnStack
  <1>2. ASSUME NEW t \in Threads, Call(t) PROVE [Promise!Next]_(Promise!vars)
    BY <1>2, CallRefines
  <1>3. ASSUME NEW t \in Threads, Body(t) PROVE [Promise!Next]_(Promise!vars)
    <2>1. CASE InBody(t, "async_wait")
      BY <1>3, <2>1, AsyncWaitRefines
    <2>2. CASE InBody(t, "wait")
      BY <1>3, <2>2, WaitRefines
    <2>3. CASE SignalHandoff(t) \/ SignalCount(t)
      BY <2>3, SignalRefines
    <2>. QED
      BY <1>3, <2>1, <2>2, <2>3
         DEF Body, AsyncWaitTake, AsyncWaitStore, AsyncWaitRefuse, WaitTake, WaitSleep
  <1>4. ASSUME NEW t \in Threads, DispatchArg(t)
        PROVE  [Promise!Next]_(Promise!vars)
    BY <1>4, DispatchRefines
  <1>5. ASSUME NEW t \in Threads,
               Lock(t) \/ Leave(t) \/ NotifyOne(t) \/ SpuriousWakeUp(t)
        PROVE  [Promise!Next]_(Promise!vars)
    BY <1>5, QuietRefines
  <1>6. ASSUME NEW t \in Threads,
               \/ RunHandler(t)
               \/ \E h \in Handlers : HandlerReturns(t, h) \/ HandlerThrows(t, h)
        PROVE  [Promise!Next]_(Promise!vars)
    BY <1>6, HandlerRefines DEF RunHandler, HandlerReturns, HandlerThrows
  <1>. QED
    BY <1>1, <1>2, <1>3, <1>4, <1>5, <1>6 DEF Next, Finishing

(***************************************************************************)
(* The semaphore is a counting semaphore: every wait that succeeds, at once,*)
(* after sleeping or by hand-off, uses up exactly one permit, every signal  *)
(* gives exactly one, and a wait is only turned away by async_wait's        *)
(* exception, while another one is pending.                                *)
(***************************************************************************)
THEOREM Refinement == Spec => ImplementsCountingSemaphore
  BY InitRefines, StepRefines, HandlersHeldOnce, PTL
     DEF Spec, ImplementsCountingSemaphore, Promise!Spec

-----------------------------------------------------------------------------
(***************************************************************************)
(* A completion handler is never in two places: the refinement tells apart  *)
(* the semaphore, its calls and the io_context; here is what goes on inside *)
(* the io_context.                                                         *)
(***************************************************************************)

(* At most one item of asio's, posted or on a stack, holds the handler.     *)
PostedOnce(h) ==
    \A i, j \in DOMAIN ready : Occurs(h, ready[i]) /\ Occurs(h, ready[j]) => i = j

RunsAt(h, t, i) == i \in DOMAIN stack[t] /\ Occurs(h, stack[t][i])

StackedOnce(h) ==
    \A t, u \in Threads : \A i, j \in Nat :
        RunsAt(h, t, i) /\ RunsAt(h, u, j) => t = u /\ i = j

IoOnce(h) == PostedOnce(h) /\ StackedOnce(h) /\ ~(Posted(h) /\ OnStack(h))

-----------------------------------------------------------------------------
LEMMA StackDomains ==
    ASSUME IoTypeOK, NEW h
    PROVE  /\ \A t \in Threads : \A i : RunsAt(h, t, i) => i \in Nat
           /\ OnStack(h) <=> \E t \in Threads, i \in Nat : RunsAt(h, t, i)
  <1>1. \A t \in Threads : DOMAIN stack[t] = 1 .. Len(stack[t]) /\ Len(stack[t]) \in Nat
    BY DEF IoTypeOK
  <1>. QED
    BY <1>1 DEF RunsAt, OnStack, OccursIn

(* A step that leaves every handler of the stacks at its place or removes   *)
(* it, and changes nothing else.                                           *)
LEMMA UnstackOnce ==
    ASSUME IoTypeOK, IoTypeOK', ready' = ready, NEW h, IoOnce(h),
           \A t \in Threads, i \in Nat : RunsAt(h, t, i)' => RunsAt(h, t, i)
    PROVE  IoOnce(h)'
  <1>1. OnStack(h) <=> \E t \in Threads, i \in Nat : RunsAt(h, t, i)
    BY StackDomains
  <1>2. OnStack(h)' <=> \E t \in Threads, i \in Nat : RunsAt(h, t, i)'
    <2>1. \A t \in Threads : DOMAIN stack'[t] = 1 .. Len(stack'[t]) /\ Len(stack'[t]) \in Nat
      BY DEF IoTypeOK
    <2>. QED
      BY <2>1 DEF RunsAt, OnStack, OccursIn
  <1>3. StackedOnce(h)'
    BY DEF IoOnce, StackedOnce
  <1>4. PostedOnce(h)' /\ (Posted(h)' <=> Posted(h))
    BY DEF IoOnce, PostedOnce, Posted
  <1>. QED
    BY <1>1, <1>2, <1>3, <1>4 DEF IoOnce

LEMMA DispatchOnce ==
    ASSUME IoTypeOK, NEW t \in Threads, NEW item \in Items, Dispatch(t, item),
           NEW h, IoOnce(h), Occurs(h, item) => ~Present(h)
    PROVE  IoOnce(h)'
  <1>1. stack[t] \in Seq(Items) /\ ready \in Seq(Items)
    BY DEF IoTypeOK
  <1>2. ASSUME NEW items \in Seq(Items)
        PROVE  /\ DOMAIN items = 1 .. Len(items) /\ Len(items) \in Nat
               /\ DOMAIN Append(items, item) = 1 .. Len(items) + 1
               /\ \A i \in 1 .. Len(items) : Append(items, item)[i] = items[i]
               /\ Append(items, item)[Len(items) + 1] = item
    BY <1>2
  <1>3. CASE InHandler(t)
    <2>1. ready' = ready /\ stack'[t] = Append(stack[t], item)
      BY <1>3 DEF Dispatch, IoTypeOK
    <2>2. \A u \in Threads : u # t => stack'[u] = stack[u]
      BY <1>3 DEF Dispatch, IoTypeOK
    <2>3. \A u \in Threads, i \in Nat : RunsAt(h, u, i)' <=>
              \/ RunsAt(h, u, i)
              \/ u = t /\ i = Len(stack[t]) + 1 /\ Occurs(h, item)
      <3>1. /\ DOMAIN stack[t] = 1 .. Len(stack[t]) /\ Len(stack[t]) \in Nat
            /\ DOMAIN stack'[t] = 1 .. Len(stack[t]) + 1
            /\ \A i \in 1 .. Len(stack[t]) : stack'[t][i] = stack[t][i]
            /\ stack'[t][Len(stack[t]) + 1] = item
        BY <1>1, <1>2, <2>1
      <3>2. ASSUME NEW i \in Nat
            PROVE  RunsAt(h, t, i)' <=>
                      RunsAt(h, t, i) \/ (i = Len(stack[t]) + 1 /\ Occurs(h, item))
        <4>1. CASE i \in 1 .. Len(stack[t])
          <5>1. i \in DOMAIN stack[t] /\ i \in DOMAIN stack'[t] /\ i # Len(stack[t]) + 1
                /\ stack'[t][i] = stack[t][i]
            BY <3>1, <4>1
          <5>. QED
            BY <5>1 DEF RunsAt
        <4>2. CASE i = Len(stack[t]) + 1
          <5>1. i \notin DOMAIN stack[t] /\ i \in DOMAIN stack'[t] /\ stack'[t][i] = item
            BY <3>1, <4>2
          <5>. QED
            BY <4>2, <5>1 DEF RunsAt
        <4>3. CASE i \notin 1 .. Len(stack[t]) + 1
          <5>1. i \notin DOMAIN stack[t] /\ i \notin DOMAIN stack'[t] /\ i # Len(stack[t]) + 1
            BY <3>1, <4>3
          <5>. QED
            BY <5>1 DEF RunsAt
        <4>. QED
          BY <3>1, <4>1, <4>2, <4>3
      <3>3. ASSUME NEW u \in Threads, u # t, NEW i \in Nat
            PROVE  RunsAt(h, u, i)' <=> RunsAt(h, u, i)
        BY <2>2, <3>3 DEF RunsAt
      <3>. QED
        BY <3>2, <3>3
    <2>4. \A u \in Threads, i \in Nat : RunsAt(h, u, i) => OnStack(h)
      BY StackDomains
    <2>5. OnStack(h)' => OnStack(h) \/ Occurs(h, item)
      <3>1. IoTypeOK'
        BY DispatchType
      <3>2. \A u \in Threads : DOMAIN stack'[u] = 1 .. Len(stack'[u]) /\ Len(stack'[u]) \in Nat
        BY <3>1 DEF IoTypeOK
      <3>3. OnStack(h)' => \E u \in Threads, i \in Nat : RunsAt(h, u, i)'
        BY <3>2 DEF RunsAt, OnStack, OccursIn
      <3>. QED
        BY <2>3, <2>4, <3>3
    <2>6. StackedOnce(h)'
      BY <2>3, <2>4 DEF IoOnce, StackedOnce, Present
    <2>7. PostedOnce(h)' /\ (Posted(h)' <=> Posted(h))
      BY <2>1 DEF IoOnce, PostedOnce, Posted
    <2>. QED
      BY <2>5, <2>6, <2>7 DEF IoOnce, Present
  <1>4. CASE ~InHandler(t)
    <2>1. ready' = Append(ready, item) /\ stack' = stack
      BY <1>4 DEF Dispatch, Post
    <2>2. PostedOnce(h)'
      <3>1. \A i \in 1 .. Len(ready) : Occurs(h, ready[i]) => Posted(h)
        BY <1>1, <1>2 DEF Posted, OccursIn
      <3>. QED
        BY <1>1, <1>2, <2>1, <3>1 DEF IoOnce, PostedOnce, Present
    <2>3. Posted(h)' => Posted(h) \/ Occurs(h, item)
      BY <1>1, <1>2, <2>1 DEF Posted, OccursIn
    <2>4. StackedOnce(h)' /\ (OnStack(h)' <=> OnStack(h))
      BY <2>1 DEF IoOnce, StackedOnce, RunsAt, OnStack
    <2>. QED
      BY <2>2, <2>3, <2>4 DEF IoOnce, Present
  <1>. QED
    BY <1>3, <1>4

(* The oldest posted item starts on a thread with nothing on its stack.     *)
LEMMA RunOnce ==
    ASSUME IoTypeOK, NEW t \in Threads, RunOne(t), NEW h, IoOnce(h)
    PROVE  IoOnce(h)'
  <1>1. stack[t] = <<>> /\ ready \in Seq(Items) /\ ready # <<>>
    BY DEF RunOne, InHandler, IoTypeOK
  <1>2. stack'[t] = <<Head(ready)>> /\ ready' = Tail(ready)
    BY DEF RunOne, IoTypeOK
  <1>3. \A u \in Threads : u # t => stack'[u] = stack[u]
    BY DEF RunOne, IoTypeOK
  <1>4. /\ Len(ready) \in Nat \ {0} /\ DOMAIN ready = 1 .. Len(ready)
        /\ DOMAIN Tail(ready) = 1 .. Len(ready) - 1
        /\ Head(ready) = ready[1]
        /\ \A i \in 1 .. Len(ready) - 1 : Tail(ready)[i] = ready[i + 1]
    BY <1>1
  <1>5. \A u \in Threads, i \in Nat : RunsAt(h, u, i)' <=>
            IF u = t THEN i = 1 /\ Occurs(h, ready[1]) ELSE RunsAt(h, u, i)
    BY <1>2, <1>3, <1>4 DEF RunsAt
  <1>6. \A i \in 1 .. Len(ready) - 1 : i + 1 \in DOMAIN ready /\ i + 1 # 1
    BY <1>4
  <1>7. PostedOnce(h)'
    BY <1>2, <1>4, <1>6 DEF IoOnce, PostedOnce
  <1>8. Posted(h)' => Posted(h) /\ ~Occurs(h, ready[1])
    <2>1. SUFFICES ASSUME Posted(h)' PROVE Posted(h) /\ ~Occurs(h, ready[1])
      OBVIOUS
    <2>2. PICK i \in 1 .. Len(ready) - 1 : Occurs(h, Tail(ready)[i])
      BY <1>2, <1>4, <2>1 DEF Posted, OccursIn
    <2>3. Occurs(h, ready[i + 1]) /\ i + 1 \in DOMAIN ready /\ i + 1 # 1 /\ 1 \in DOMAIN ready
      BY <1>4, <1>6, <2>2
    <2>. QED
      BY <2>3 DEF IoOnce, PostedOnce, Posted, OccursIn
  <1>9. Occurs(h, ready[1]) => Posted(h)
    BY <1>4 DEF Posted, OccursIn
  <1>10. \A u \in Threads, i \in Nat : RunsAt(h, u, i) => OnStack(h)
    BY StackDomains
  <1>11. OnStack(h)' => Occurs(h, ready[1]) \/ OnStack(h)
    <2>1. IoTypeOK'
      BY RunOneType
    <2>2. \A u \in Threads : DOMAIN stack'[u] = 1 .. Len(stack'[u]) /\ Len(stack'[u]) \in Nat
      BY <2>1 DEF IoTypeOK
    <2>3. OnStack(h)' => \E u \in Threads, i \in Nat : RunsAt(h, u, i)'
      BY <2>2 DEF RunsAt, OnStack, OccursIn
    <2>. QED
      BY <1>5, <1>10, <2>3
  <1>12. StackedOnce(h)'
    BY <1>5, <1>9, <1>10 DEF IoOnce, StackedOnce
  <1>. QED
    BY <1>7, <1>8, <1>11, <1>12 DEF IoOnce

LEMMA ReturnOnce ==
    ASSUME IoTypeOK, NEW t \in Threads, Return(t) \/ Throw(t, Throwing), NEW h, IoOnce(h)
    PROVE  IoOnce(h)'
  <1>1. stack[t] \in Seq(Items) /\ stack[t] # <<>> /\ ready' = ready
    BY DEF Return, Throw, InHandler, IoTypeOK
  <1>2. \A u \in Threads : u # t => stack'[u] = stack[u]
    BY DEF Return, Throw, IoTypeOK
  <1>3. IoTypeOK'
    BY ReturnType, ThrowType
  <1>4. /\ Len(stack[t]) \in Nat \ {0} /\ DOMAIN stack[t] = 1 .. Len(stack[t])
        /\ \A d \in 0 .. Len(stack[t]) - 1 :
              /\ DOMAIN SubSeq(stack[t], 1, d) = 1 .. d
              /\ \A i \in 1 .. d : SubSeq(stack[t], 1, d)[i] = stack[t][i]
    BY <1>1
  <1>5. ASSUME NEW d \in 0 .. Len(stack[t]) - 1, stack'[t] = SubSeq(stack[t], 1, d)
        PROVE  \A i \in Nat : RunsAt(h, t, i)' => RunsAt(h, t, i)
    BY <1>4, <1>5 DEF RunsAt
  <1>6. \A i \in Nat : RunsAt(h, t, i)' => RunsAt(h, t, i)
    <2>1. CASE Throw(t, Throwing)
      BY <1>5, <2>1 DEF Throw, IoTypeOK
    <2>2. CASE Return(t) /\ ~(Len(Innermost(t)) > 1)
      <3>1. stack'[t] = SubSeq(stack[t], 1, Len(stack[t]) - 1)
        BY <2>2 DEF Return, Outer, IoTypeOK
      <3>2. Len(stack[t]) - 1 \in 0 .. Len(stack[t]) - 1
        BY <1>4
      <3>. QED
        BY <1>5, <3>1, <3>2
    <2>3. CASE Return(t) /\ Len(Innermost(t)) > 1
      <3>1. stack'[t] = Append(Outer(t), Tail(Innermost(t)))
        BY <2>3 DEF Return, IoTypeOK
      <3>2. Innermost(t) \in Seq(Handlers) /\ Outer(t) \in Seq(Items)
        BY <1>1 DEF Innermost, Outer, Items
      <3>3. Occurs(h, Tail(Innermost(t))) => Occurs(h, Innermost(t))
        BY <2>3, <3>2 DEF Occurs
      <3>4. Len(Outer(t)) = Len(stack[t]) - 1
            /\ \A i \in 1 .. Len(stack[t]) - 1 : Outer(t)[i] = stack[t][i]
        BY <1>1, <1>4 DEF Outer
      <3>5. Tail(Innermost(t)) \in Items
        BY <2>3, <3>2 DEF Items
      <3>6. /\ DOMAIN stack'[t] = 1 .. Len(stack[t])
            /\ stack'[t][Len(stack[t])] = Tail(Innermost(t))
            /\ \A i \in 1 .. Len(stack[t]) - 1 : stack'[t][i] = stack[t][i]
        BY <1>4, <3>1, <3>2, <3>4, <3>5
      <3>. QED
        BY <1>4, <3>3, <3>6 DEF RunsAt, Innermost
    <2>. QED
      BY <2>1, <2>2, <2>3
  <1>7. \A u \in Threads, i \in Nat : RunsAt(h, u, i)' => RunsAt(h, u, i)
    BY <1>2, <1>6 DEF RunsAt
  <1>. QED
    BY <1>1, <1>3, <1>7, UnstackOnce

-----------------------------------------------------------------------------
AllOnce == \A h \in Handlers : IoOnce(h)

LEMMA StepAllOnce == TypeInv /\ HeldOnce /\ AllOnce /\ [Next]_vars => AllOnce'
  <1>. SUFFICES ASSUME TypeInv, HeldOnce, AllOnce, [Next]_vars, NEW h \in Handlers
                PROVE  IoOnce(h)'
    BY DEF AllOnce
  <1>0. IoTypeOK /\ IoOnce(h)
    BY DEF TypeInv, TypeOK, AllOnce
  <1>1. CASE UNCHANGED <<ready, stack>>
    BY <1>0, <1>1 DEF IoOnce, PostedOnce, StackedOnce, RunsAt, Posted, OnStack
  <1>2. ASSUME NEW t \in Threads, DispatchArg(t) PROVE IoOnce(h)'
    <2>1. arg[t] \in Items /\ Dispatch(t, arg[t])
      BY <1>2 DEF DispatchArg, TypeInv, TypeOK
    <2>2. Occurs(h, arg[t]) => ~Present(h)
      BY DEF HeldOnce
    <2>. QED
      BY <1>0, <2>1, <2>2, DispatchOnce
  <1>3. ASSUME NEW t \in Threads,
               \/ RunHandler(t)
               \/ \E g \in Handlers : HandlerReturns(t, g) \/ HandlerThrows(t, g)
        PROVE  IoOnce(h)'
    <2>1. RunOne(t) \/ Return(t) \/ Throw(t, Throwing)
      BY <1>3 DEF RunHandler, HandlerReturns, HandlerThrows
    <2>. QED
      BY <1>0, <2>1, RunOnce, ReturnOnce
  <1>4. ASSUME NEW t \in Threads,
               Call(t) \/ Lock(t) \/ Body(t) \/ Leave(t) \/ NotifyOne(t) \/ SpuriousWakeUp(t)
        PROVE  IoOnce(h)'
    BY <1>1, <1>4
       DEF Call, CallAsyncWait, CallWait, CallAsyncSignal, CallSignal, Enter, Lock, Leave,
           NotifyOne, SpuriousWakeUp, Body, AsyncWaitTake, AsyncWaitStore, AsyncWaitRefuse,
           WaitTake, WaitSleep, SignalHandoff, SignalCount, Continue, Finish
  <1>5. CASE UNCHANGED vars
    BY <1>1, <1>5 DEF vars
  <1>. QED
    BY <1>2, <1>3, <1>4, <1>5 DEF Next, Finishing

LEMMA InitAllOnce == Init => AllOnce
  BY DEF Init, IoInit, AllOnce, IoOnce, PostedOnce, StackedOnce, RunsAt, Posted, OccursIn

LEMMA OnePlace ==
    ASSUME TypeInv, HeldOnce, AllOnce, NEW h \in Handlers
    PROVE  Cardinality(Places(h)) <= 1
  <1>1. IoTypeOK /\ IoOnce(h)
    BY DEF TypeInv, TypeOK, AllOnce
  <1>2. ASSUME NEW p \in Places(h), NEW q \in Places(h) PROVE p = q
    <2>1. \A i \in DOMAIN ready : Occurs(h, ready[i]) => Posted(h)
      BY DEF Posted, OccursIn
    <2>2. \A t \in Threads : \A i \in DOMAIN stack[t] :
              Occurs(h, stack[t][i]) => OnStack(h) /\ RunsAt(h, t, i) /\ i \in Nat
      BY <1>1, StackDomains DEF OnStack, OccursIn, RunsAt
    <2>3. ASSUME NEW x \in Places(h)
          PROVE  \/ x = <<"m_handler">> /\ handler = h
                 \/ \E t \in Threads : x = <<"call", t>> /\ Occurs(h, arg[t])
                 \/ Posted(h) /\ \E i \in DOMAIN ready :
                        x = <<"posted", i>> /\ Occurs(h, ready[i])
                 \/ OnStack(h) /\ \E t \in Threads : \E i \in Nat :
                        x = <<"running", t, i>> /\ RunsAt(h, t, i)
      BY <2>1, <2>2, <2>3 DEF Places
    <2>4. CASE handler = h
      BY <2>3, <2>4 DEF HeldOnce, Present
    <2>5. CASE \E t \in Threads : Occurs(h, arg[t])
      BY <2>3, <2>5 DEF HeldOnce, Present
    <2>6. CASE Posted(h) /\ handler # h /\ \A t \in Threads : ~Occurs(h, arg[t])
      <3>1. ASSUME NEW x \in Places(h)
            PROVE  \E i \in DOMAIN ready : x = <<"posted", i>> /\ Occurs(h, ready[i])
        BY <1>1, <2>3, <2>6 DEF IoOnce
      <3>. QED
        BY <1>1, <3>1 DEF IoOnce, PostedOnce
    <2>7. CASE ~Posted(h) /\ handler # h /\ \A t \in Threads : ~Occurs(h, arg[t])
      <3>1. ASSUME NEW x \in Places(h)
            PROVE  \E t \in Threads : \E i \in Nat :
                        x = <<"running", t, i>> /\ RunsAt(h, t, i)
        BY <2>3, <2>7
      <3>. QED
        BY <1>1, <3>1 DEF IoOnce, StackedOnce
    <2>. QED
      BY <2>4, <2>5, <2>6, <2>7
  <1>3. CASE Places(h) = {}
    BY <1>3, FS_EmptySet
  <1>4. ASSUME NEW p \in Places(h) PROVE Cardinality(Places(h)) <= 1
    <2>1. Places(h) = {p}
      BY <1>2
    <2>. QED
      BY <2>1, FS_Singleton
  <1>. QED
    BY <1>3, <1>4

(***************************************************************************)
(* A completion handler, of a wait or of a signal, is stored, held by one   *)
(* call, posted or running, and never in two of these places: no operation  *)
(* of the semaphore and no nesting of handlers invokes it a second time.    *)
(***************************************************************************)
THEOREM HandlersRunOnce == Spec => []OneShot
  <1>1. TypeInv /\ HeldOnce /\ AllOnce => OneShot
    BY OnePlace DEF OneShot
  <1>2. RInv => TypeInv /\ HeldOnce
    BY DEF RInv
  <1>. QED
    BY <1>1, <1>2, InitAllOnce, StepAllOnce, HandlersHeldOnce, PTL DEF Spec

-----------------------------------------------------------------------------
(***************************************************************************)
(* No completion is dropped.  An item calls one handler, or a waiting one   *)
(* and then that of the async_signal that woke it: only an exception of a   *)
(* waiting handler could lose one that has not started.                    *)
(***************************************************************************)
Shaped(item) ==
    item # <<>> /\ (Len(item) > 1 => Len(item) = 2 /\ item[1] \in WaitHandlers)

ItemsShaped ==
    /\ \A i \in DOMAIN ready : Shaped(ready[i])
    /\ \A t \in Threads : \A i \in DOMAIN stack[t] : Shaped(stack[t][i])

(* Before the body a call carries one handler at most. *)
CallsShaped ==
    \A t \in Threads : IF pc[t] = "dispatch" THEN Shaped(arg[t]) ELSE Len(arg[t]) <= 1

DInv == TypeInv /\ ItemsShaped /\ CallsShaped

(* Held by a call that is about to dispatch it. *)
InDispatch(h) == \E t \in Threads : pc[t] = "dispatch" /\ Occurs(h, arg[t])

-----------------------------------------------------------------------------
LEMMA InitShaped == Init => ItemsShaped /\ CallsShaped
  BY DEF Init, IoInit, ItemsShaped, CallsShaped

LEMMA ItemLength ==
    ASSUME NEW item \in Seq(Handlers)
    PROVE  /\ Len(item) \in Nat /\ DOMAIN item = 1 .. Len(item)
           /\ item = <<>> <=> Len(item) = 0
  OBVIOUS

LEMMA ConcatShaped ==
    ASSUME NEW w \in WaitHandlers, NEW item \in Items, Len(item) <= 1
    PROVE  Shaped(<<w>> \o item)
  <1>1. /\ Len(<<w>> \o item) = Len(item) + 1
        /\ (<<w>> \o item)[1] = w
        /\ Len(item) \in Nat
    BY DEF Items
  <1>2. <<w>> \o item # <<>>
    BY <1>1
  <1>. QED
    BY <1>1, <1>2 DEF Shaped

LEMMA OneShaped ==
    ASSUME NEW item \in Items, Len(item) <= 1, item # <<>>
    PROVE  Shaped(item)
  BY DEF Shaped, Items

LEMMA StepCallsShaped == TypeInv /\ CallsShaped /\ [Next]_vars => CallsShaped'
  <1>. SUFFICES ASSUME TypeInv, CallsShaped, [Next]_vars PROVE CallsShaped'
    OBVIOUS
  <1>. USE DEF TypeInv, TypeOK, CallsShaped, PCs
  <1>0. Len(<<>>) = 0 /\ \A h : Len(<<h>>) = 1
    OBVIOUS
  <1>1. ASSUME NEW t \in Threads, Call(t) PROVE CallsShaped'
    <2>1. ASSUME NEW name, NEW item, Len(item) <= 1, Enter(t, name, item)
          PROVE  CallsShaped'
      BY <2>1 DEF Enter
    <2>2. Len(<<>>) <= 1 /\ \A h : Len(<<h>>) <= 1
      BY <1>0
    <2>3. CASE CallAsyncWait(t)
      <3>1. PICK h : Enter(t, "async_wait", <<h>>)
        BY <2>3 DEF CallAsyncWait
      <3>. QED
        BY <2>1, <2>2, <3>1
    <2>4. CASE CallAsyncSignal(t)
      <3>1. PICK h : Enter(t, "async_signal", <<h>>)
        BY <2>4 DEF CallAsyncSignal
      <3>. QED
        BY <2>1, <2>2, <3>1
    <2>5. CASE CallWait(t) \/ CallSignal(t)
      <3>1. Enter(t, "wait", <<>>) \/ Enter(t, "signal", <<>>)
        BY <2>5 DEF CallWait, CallSignal
      <3>. QED
        BY <2>1, <2>2, <3>1
    <2>. QED
      BY <1>1, <2>3, <2>4, <2>5 DEF Call
  <1>2. ASSUME NEW t \in Threads, Lock(t) PROVE CallsShaped'
    BY <1>2 DEF Lock
  <1>3. ASSUME NEW t \in Threads, Body(t) PROVE CallsShaped'
    <2>1. pc[t] = "body" /\ Len(arg[t]) <= 1 /\ arg[t] \in Items
      BY <1>3
         DEF Body, AsyncWaitTake, AsyncWaitStore, AsyncWaitRefuse, WaitTake, WaitSleep,
             SignalHandoff, SignalCount, InBody
    <2>2. CASE AsyncWaitTake(t)
      <3>1. arg[t] # <<>>
        <4>1. PICK h \in WaitHandlers : arg[t] = <<h>>
          BY <2>2 DEF AsyncWaitTake, InBody, CallsOK
        <4>. QED
          BY <4>1
      <3>2. Shaped(arg[t])
        BY <2>1, <3>1, OneShaped
      <3>. QED
        BY <2>2, <3>2 DEF AsyncWaitTake, Continue
    <2>3. CASE SignalHandoff(t)
      <3>1. handler \in WaitHandlers
        BY <2>3 DEF SignalHandoff
      <3>2. Shaped(<<handler>> \o arg[t])
        BY <2>1, <3>1, ConcatShaped
      <3>. QED
        BY <2>3, <3>2 DEF SignalHandoff, Continue
    <2>4. CASE SignalCount(t)
      BY <2>1, <2>4 DEF SignalCount, Continue
    <2>5. CASE WaitSleep(t)
      BY <1>0, <2>5 DEF WaitSleep, Continue
    <2>6. CASE AsyncWaitStore(t) \/ AsyncWaitRefuse(t) \/ WaitTake(t)
      BY <1>0, <2>6 DEF AsyncWaitStore, AsyncWaitRefuse, WaitTake, Finish
    <2>. QED
      BY <1>3, <2>2, <2>3, <2>4, <2>5, <2>6 DEF Body
  <1>4. ASSUME NEW t \in Threads, Leave(t) PROVE CallsShaped'
    BY <1>4 DEF Leave
  <1>5. ASSUME NEW t \in Threads, NotifyOne(t) PROVE CallsShaped'
    <2>1. Len(arg[t]) <= 1 /\ arg[t] \in Items /\ arg' = arg
      BY <1>5 DEF NotifyOne
    <2>2. arg[t] # <<>> => Shaped(arg[t])
      BY <2>1, OneShaped
    <2>3. /\ \A u \in Threads : u # t => pc'[u] = pc[u] \/ (pc[u] = "asleep" /\ pc'[u] = "lock")
          /\ pc'[t] = AfterNotify(t) \/ pc'[t] = "lock"
      BY <1>5 DEF NotifyOne, Asleep
    <2>. QED
      BY <2>1, <2>2, <2>3 DEF AfterNotify
  <1>6. ASSUME NEW t \in Threads, DispatchArg(t) PROVE CallsShaped'
    BY <1>0, <1>6 DEF DispatchArg
  <1>7. ASSUME NEW t \in Threads, SpuriousWakeUp(t) PROVE CallsShaped'
    BY <1>7 DEF SpuriousWakeUp
  <1>8. CASE UNCHANGED <<pc, arg>>
    BY <1>8
  <1>9. ASSUME NEW t \in Threads,
               \/ RunHandler(t)
               \/ \E h \in Handlers : HandlerReturns(t, h) \/ HandlerThrows(t, h)
        PROVE  UNCHANGED <<pc, arg>>
    BY <1>9 DEF RunHandler, HandlerReturns, HandlerThrows
  <1>10. UNCHANGED vars => UNCHANGED <<pc, arg>>
    BY DEF vars
  <1>. QED
    BY <1>1, <1>2, <1>3, <1>4, <1>5, <1>6, <1>7, <1>8, <1>9, <1>10 DEF Next, Finishing

-----------------------------------------------------------------------------
(* What asio does to the shape of the items it holds. *)

LEMMA AppendShaped ==
    ASSUME NEW items \in Seq(Items), NEW item \in Items, Shaped(item),
           \A i \in DOMAIN items : Shaped(items[i])
    PROVE  \A i \in DOMAIN Append(items, item) : Shaped(Append(items, item)[i])
  <1>1. /\ DOMAIN items = 1 .. Len(items) /\ Len(items) \in Nat
        /\ DOMAIN Append(items, item) = 1 .. Len(items) + 1
        /\ \A i \in 1 .. Len(items) : Append(items, item)[i] = items[i]
        /\ Append(items, item)[Len(items) + 1] = item
    OBVIOUS
  <1>2. \A i \in 1 .. Len(items) + 1 : i \in 1 .. Len(items) \/ i = Len(items) + 1
    BY <1>1
  <1>. QED
    BY <1>1, <1>2

LEMMA PrefixShaped ==
    ASSUME NEW items \in Seq(Items), NEW depth \in 0 .. Len(items),
           \A i \in DOMAIN items : Shaped(items[i])
    PROVE  \A i \in DOMAIN SubSeq(items, 1, depth) : Shaped(SubSeq(items, 1, depth)[i])
  <1>1. /\ DOMAIN items = 1 .. Len(items) /\ Len(items) \in Nat
        /\ DOMAIN SubSeq(items, 1, depth) = 1 .. depth
        /\ \A i \in 1 .. depth : SubSeq(items, 1, depth)[i] = items[i] /\ i \in 1 .. Len(items)
    OBVIOUS
  <1>. QED
    BY <1>1

LEMMA DispatchShaped ==
    ASSUME IoTypeOK, ItemsShaped, NEW t \in Threads, NEW item \in Items, Shaped(item),
           Dispatch(t, item)
    PROVE  ItemsShaped'
  <1>1. stack[t] \in Seq(Items) /\ ready \in Seq(Items)
    BY DEF IoTypeOK
  <1>2. \A i \in DOMAIN Append(ready, item) : Shaped(Append(ready, item)[i])
    BY <1>1, AppendShaped DEF ItemsShaped
  <1>3. \A i \in DOMAIN Append(stack[t], item) : Shaped(Append(stack[t], item)[i])
    BY <1>1, AppendShaped DEF ItemsShaped
  <1>4. CASE InHandler(t)
    <2>1. /\ ready' = ready /\ stack'[t] = Append(stack[t], item)
          /\ \A u \in Threads : u # t => stack'[u] = stack[u]
      BY <1>4 DEF Dispatch, IoTypeOK
    <2>. QED
      BY <1>3, <2>1 DEF ItemsShaped
  <1>5. CASE ~InHandler(t)
    <2>1. ready' = Append(ready, item) /\ stack' = stack
      BY <1>5 DEF Dispatch, Post
    <2>. QED
      BY <1>2, <2>1 DEF ItemsShaped
  <1>. QED
    BY <1>4, <1>5

LEMMA RunShaped ==
    ASSUME IoTypeOK, ItemsShaped, NEW t \in Threads, RunOne(t)
    PROVE  ItemsShaped'
  <1>1. ready \in Seq(Items) /\ ready # <<>> /\ ready' = Tail(ready)
    BY DEF RunOne, IoTypeOK
  <1>2. /\ stack'[t] = <<Head(ready)>>
        /\ \A u \in Threads : u # t => stack'[u] = stack[u]
    BY DEF RunOne, IoTypeOK
  <1>3. /\ Len(ready) \in Nat \ {0} /\ DOMAIN ready = 1 .. Len(ready)
        /\ DOMAIN Tail(ready) = 1 .. Len(ready) - 1
        /\ Head(ready) = ready[1]
        /\ \A i \in 1 .. Len(ready) - 1 : Tail(ready)[i] = ready[i + 1]
                                            /\ i + 1 \in 1 .. Len(ready)
    BY <1>1
  <1>4. \A i \in DOMAIN Tail(ready) : Shaped(Tail(ready)[i])
    BY <1>3 DEF ItemsShaped
  <1>5. Shaped(Head(ready))
    BY <1>3 DEF ItemsShaped
  <1>6. \A i \in DOMAIN <<Head(ready)>> : <<Head(ready)>>[i] = Head(ready)
    OBVIOUS
  <1>. QED
    BY <1>1, <1>2, <1>4, <1>5, <1>6 DEF ItemsShaped

LEMMA ReturnShaped ==
    ASSUME IoTypeOK, ItemsShaped, NEW t \in Threads, Return(t) \/ Throw(t, Throwing)
    PROVE  ItemsShaped'
  <1>1. stack[t] \in Seq(Items) /\ stack[t] # <<>> /\ ready' = ready
    BY DEF Return, Throw, InHandler, IoTypeOK
  <1>2. \A u \in Threads : u # t => stack'[u] = stack[u]
    BY DEF Return, Throw, IoTypeOK
  <1>3. /\ Len(stack[t]) \in Nat \ {0} /\ DOMAIN stack[t] = 1 .. Len(stack[t])
        /\ \A i \in DOMAIN stack[t] : Shaped(stack[t][i])
    BY <1>1 DEF ItemsShaped
  <1>4. \A depth \in 0 .. Len(stack[t]) - 1 :
            \A i \in DOMAIN SubSeq(stack[t], 1, depth) : Shaped(SubSeq(stack[t], 1, depth)[i])
    BY <1>1, <1>3, PrefixShaped
  <1>5. \A i \in DOMAIN stack'[t] : Shaped(stack'[t][i])
    <2>1. CASE Throw(t, Throwing)
      BY <1>4, <2>1 DEF Throw, IoTypeOK
    <2>2. CASE Return(t) /\ ~(Len(Innermost(t)) > 1)
      BY <1>3, <1>4, <2>2 DEF Return, Outer, IoTypeOK
    <2>3. CASE Return(t) /\ Len(Innermost(t)) > 1
      <3>1. stack'[t] = Append(Outer(t), Tail(Innermost(t)))
        BY <2>3 DEF Return, IoTypeOK
      <3>2. Innermost(t) \in Seq(Handlers) /\ Outer(t) \in Seq(Items)
        BY <1>1 DEF Innermost, Outer, Items
      <3>3. Shaped(Innermost(t))
        BY <1>3 DEF Innermost
      <3>4. Tail(Innermost(t)) \in Items /\ Len(Tail(Innermost(t))) = 1
        BY <2>3, <3>2, <3>3 DEF Shaped, Items
      <3>5. Shaped(Tail(Innermost(t)))
        <4>1. ASSUME NEW item \in Items, Len(item) = 1 PROVE Shaped(item)
          <5>1. item # <<>>
            <6>1. Len(<<>>) = 0
              OBVIOUS
            <6>. QED
              BY <4>1, <6>1
          <5>2. Len(item) <= 1
            BY <4>1
          <5>. QED
            BY <5>1, <5>2, OneShaped
        <4>. QED
          BY <3>4, <4>1, Zenon
      <3>6. \A i \in DOMAIN Outer(t) : Shaped(Outer(t)[i])
        BY <1>3, <1>4 DEF Outer
      <3>. QED
        BY <3>1, <3>2, <3>4, <3>5, <3>6, AppendShaped
    <2>. QED
      BY <2>1, <2>2, <2>3
  <1>. QED
    BY <1>1, <1>2, <1>5 DEF ItemsShaped

LEMMA StepShaped == DInv /\ [Next]_vars => DInv'
  <1>. SUFFICES ASSUME DInv, [Next]_vars PROVE DInv'
    OBVIOUS
  <1>1. TypeInv' /\ CallsShaped'
    BY StepTypeInv, StepCallsShaped DEF DInv
  <1>2. IoTypeOK /\ ItemsShaped
    BY DEF DInv, TypeInv, TypeOK
  <1>3. UNCHANGED <<ready, stack>> => ItemsShaped'
    BY DEF DInv, ItemsShaped
  <1>4. ASSUME NEW t \in Threads, DispatchArg(t) PROVE ItemsShaped'
    <2>1. arg[t] \in Items /\ Shaped(arg[t]) /\ Dispatch(t, arg[t])
      BY <1>4 DEF DispatchArg, DInv, CallsShaped, TypeInv, TypeOK
    <2>. QED
      BY <1>2, <2>1, DispatchShaped
  <1>5. ASSUME NEW t \in Threads,
               \/ RunHandler(t)
               \/ \E g \in Handlers : HandlerReturns(t, g) \/ HandlerThrows(t, g)
        PROVE  ItemsShaped'
    <2>1. RunOne(t) \/ Return(t) \/ Throw(t, Throwing)
      BY <1>5 DEF RunHandler, HandlerReturns, HandlerThrows
    <2>. QED
      BY <1>2, <2>1, RunShaped, ReturnShaped
  <1>6. ASSUME NEW t \in Threads,
               Call(t) \/ Lock(t) \/ Body(t) \/ Leave(t) \/ NotifyOne(t) \/ SpuriousWakeUp(t)
        PROVE  ItemsShaped'
    BY <1>3, <1>6
       DEF Call, CallAsyncWait, CallWait, CallAsyncSignal, CallSignal, Enter, Lock, Leave,
           NotifyOne, SpuriousWakeUp, Body, AsyncWaitTake, AsyncWaitStore, AsyncWaitRefuse,
           WaitTake, WaitSleep, SignalHandoff, SignalCount, Continue, Finish
  <1>7. UNCHANGED vars => ItemsShaped'
    BY <1>3 DEF vars
  <1>. QED
    BY <1>1, <1>4, <1>5, <1>6, <1>7 DEF DInv, Next, Finishing

-----------------------------------------------------------------------------
(* What runs out of an item has started. *)
LEMMA ReturnKeeps ==
    ASSUME IoTypeOK, NEW t \in Threads, Return(t), NEW h, Present(h), ~Started(h)
    PROVE  Present(h)'
  <1>1. stack[t] \in Seq(Items) /\ stack[t] # <<>> /\ ready' = ready
    BY DEF Return, InHandler, IoTypeOK
  <1>2. \A u \in Threads : u # t => stack'[u] = stack[u]
    BY DEF Return, IoTypeOK
  <1>3. /\ Len(stack[t]) \in Nat \ {0} /\ DOMAIN stack[t] = 1 .. Len(stack[t])
        /\ Innermost(t) = stack[t][Len(stack[t])] /\ Innermost(t) \in Seq(Handlers)
        /\ Outer(t) \in Seq(Items) /\ DOMAIN Outer(t) = 1 .. Len(stack[t]) - 1
        /\ Len(Outer(t)) = Len(stack[t]) - 1
        /\ \A i \in 1 .. Len(stack[t]) - 1 : Outer(t)[i] = stack[t][i]
    BY <1>1 DEF Innermost, Outer, Items
  <1>4. Innermost(t)[1] # h
    BY <1>3 DEF Started
  <1>5. ASSUME OccursIn(h, stack[t]) PROVE OccursIn(h, stack'[t])
    <2>1. PICK i \in 1 .. Len(stack[t]) : Occurs(h, stack[t][i])
      BY <1>3, <1>5 DEF OccursIn
    <2>2. CASE i # Len(stack[t])
      <3>1. i \in 1 .. Len(stack[t]) - 1 /\ Outer(t)[i] = stack[t][i]
        BY <1>3, <2>1, <2>2
      <3>2. CASE Len(Innermost(t)) > 1
        <4>1. stack'[t] = Append(Outer(t), Tail(Innermost(t)))
          BY <3>2 DEF Return, IoTypeOK
        <4>2. i \in DOMAIN stack'[t] /\ stack'[t][i] = stack[t][i]
          BY <1>3, <3>1, <4>1
        <4>. QED
          BY <2>1, <4>2 DEF OccursIn
      <3>3. CASE ~(Len(Innermost(t)) > 1)
        <4>1. stack'[t] = Outer(t)
          BY <3>3 DEF Return, IoTypeOK
        <4>. QED
          BY <1>3, <2>1, <3>1, <4>1 DEF OccursIn
      <3>. QED
        BY <3>2, <3>3
    <2>3. CASE i = Len(stack[t])
      <3>1. PICK j \in DOMAIN Innermost(t) : Innermost(t)[j] = h
        BY <1>3, <2>1, <2>3 DEF Occurs
      <3>2. j \in 2 .. Len(Innermost(t)) /\ Len(Innermost(t)) > 1
        BY <1>3, <1>4, <3>1
      <3>3. stack'[t] = Append(Outer(t), Tail(Innermost(t)))
        BY <3>2 DEF Return, IoTypeOK
      <3>4. /\ j - 1 \in DOMAIN Tail(Innermost(t))
            /\ Tail(Innermost(t))[j - 1] = Innermost(t)[j]
        BY <1>3, <3>2
      <3>5. Occurs(h, Tail(Innermost(t)))
        BY <3>1, <3>4 DEF Occurs
      <3>6. /\ Len(stack[t]) \in DOMAIN stack'[t]
            /\ stack'[t][Len(stack[t])] = Tail(Innermost(t))
        BY <1>3, <3>3
      <3>. QED
        BY <3>5, <3>6 DEF OccursIn
    <2>. QED
      BY <2>2, <2>3
  <1>. QED
    BY <1>1, <1>2, <1>5 DEF Present, Posted, OnStack

(* An item that an exception leaves has no other handler than the one that  *)
(* ran, but beside a waiting handler.                                      *)
LEMMA ThrowKeeps ==
    ASSUME IoTypeOK, ItemsShaped, NEW t \in Threads, Throw(t, Throwing), NEW h,
           Present(h), ~Started(h)
    PROVE  \/ Present(h)'
           \/ \E i \in DOMAIN stack[t] \ DOMAIN stack'[t] :
                 stack[t][i][1] \in WaitHandlers \cap Throwing /\ Occurs(h, stack[t][i])
  <1>. DEFINE Lost == \E i \in DOMAIN stack[t] \ DOMAIN stack'[t] :
                         stack[t][i][1] \in WaitHandlers \cap Throwing
                            /\ Occurs(h, stack[t][i])
  <1>1. stack[t] \in Seq(Items) /\ ready' = ready
    BY DEF Throw, IoTypeOK
  <1>2. \A u \in Threads : u # t => stack'[u] = stack[u]
    BY DEF Throw, IoTypeOK
  <1>3. PICK depth \in 0 .. Len(stack[t]) - 1 :
            /\ \A i \in depth + 1 .. Len(stack[t]) : stack[t][i][1] \in Throwing
            /\ stack'[t] = SubSeq(stack[t], 1, depth)
    BY DEF Throw, IoTypeOK
  <1>4. /\ Len(stack[t]) \in Nat /\ DOMAIN stack[t] = 1 .. Len(stack[t])
        /\ \A i \in 1 .. Len(stack[t]) : stack[t][i] \in Seq(Handlers)
        /\ DOMAIN SubSeq(stack[t], 1, depth) = 1 .. depth
        /\ \A i \in 1 .. depth : SubSeq(stack[t], 1, depth)[i] = stack[t][i]
    BY <1>1 DEF Items
  <1>5. ASSUME NEW i \in 1 .. Len(stack[t]), Occurs(h, stack[t][i]), i \notin 1 .. depth
        PROVE  Lost
    <2>1. stack[t][i][1] \in Throwing
      BY <1>3, <1>4, <1>5
    <2>2. SUFFICES ASSUME stack[t][i][1] \notin WaitHandlers PROVE FALSE
      BY <1>3, <1>4, <1>5, <2>1
    <2>3. Shaped(stack[t][i]) /\ stack[t][i] \in Seq(Handlers)
      BY <1>4 DEF ItemsShaped
    <2>4. DOMAIN stack[t][i] = 1 .. Len(stack[t][i]) /\ Len(stack[t][i]) = 1
      <3>1. DOMAIN stack[t][i] = 1 .. Len(stack[t][i]) /\ Len(stack[t][i]) \in Nat \ {0}
        BY <2>3, ItemLength DEF Shaped
      <3>2. ~(Len(stack[t][i]) > 1)
        BY <2>2, <2>3 DEF Shaped
      <3>3. \A n \in Nat \ {0} : ~(n > 1) => n = 1
        OBVIOUS
      <3>. QED
        BY <3>1, <3>2, <3>3
    <2>5. stack[t][i][1] = h
      BY <1>5, <2>4 DEF Occurs
    <2>. QED
      BY <1>4, <2>5 DEF Started
  <1>6. OccursIn(h, stack[t]) => OccursIn(h, stack'[t]) \/ Lost
    BY <1>3, <1>4, <1>5 DEF OccursIn
  <1>. QED
    BY <1>1, <1>2, <1>6 DEF Present, Posted, OnStack

LEMMA StepKeeps ==
    ASSUME DInv, Next, NEW h \in Handlers, Dispatched(h)
    PROVE  Dispatched(h)' \/ Started(h)' \/ \E t \in Threads : LostBesideWaiter(h, t)
  <1>. DEFINE Lost == \E t \in Threads : LostBesideWaiter(h, t)
  <1>. SUFFICES InDispatch(h)' \/ Present(h)' \/ Lost
    BY DEF Dispatched, InDispatch, Present
  <1>1. /\ InDispatch(h) \/ Present(h)
        /\ ~Started(h)
        /\ IoTypeOK /\ ItemsShaped
    BY DEF Dispatched, InDispatch, Present, DInv, TypeInv, TypeOK
  <1>2. ASSUME \A u \in Threads : pc[u] = "dispatch" => pc'[u] = "dispatch" /\ arg'[u] = arg[u],
               Present(h) => Present(h)' \/ Lost
        PROVE  InDispatch(h)' \/ Present(h)' \/ Lost
    BY <1>1, <1>2 DEF InDispatch
  <1>3. ASSUME NEW t \in Threads, DispatchArg(t)
        PROVE  InDispatch(h)' \/ Present(h)'
    <2>1. arg[t] \in Items /\ Dispatch(t, arg[t])
      BY <1>3 DEF DispatchArg, DInv, TypeInv, TypeOK
    <2>2. Present(h)' <=> Present(h) \/ Occurs(h, arg[t])
      BY <1>1, <2>1, DispatchPresence
    <2>3. \A u \in Threads : u # t => pc'[u] = pc[u] /\ arg'[u] = arg[u]
      BY <1>3 DEF DispatchArg, DInv, TypeInv, TypeOK
    <2>. QED
      BY <1>1, <2>2, <2>3 DEF InDispatch
  <1>4. ASSUME NEW t \in Threads,
               RunHandler(t) \/ \E g \in Handlers : HandlerReturns(t, g)
        PROVE  InDispatch(h)' \/ Present(h)' \/ Lost
    <2>1. pc' = pc /\ arg' = arg
      BY <1>4 DEF RunHandler, HandlerReturns
    <2>2. RunOne(t) \/ Return(t)
      BY <1>4 DEF RunHandler, HandlerReturns
    <2>3. Present(h) => Present(h)'
      BY <1>1, <2>2, RunPresence, ReturnKeeps
    <2>. QED
      BY <1>2, <2>1, <2>3
  <1>5. ASSUME NEW t \in Threads, NEW g \in Handlers, HandlerThrows(t, g)
        PROVE  InDispatch(h)' \/ Present(h)' \/ Lost
    <2>1. pc' = pc /\ arg' = arg
      BY <1>5 DEF HandlerThrows
    <2>2. Throw(t, Throwing)
      BY <1>5 DEF HandlerThrows
    <2>3. Present(h) => Present(h)' \/ Lost
      BY <1>1, <1>5, <2>2, ThrowKeeps DEF LostBesideWaiter
    <2>. QED
      BY <1>2, <2>1, <2>3
  <1>6. ASSUME NEW t \in Threads,
               Call(t) \/ Lock(t) \/ Body(t) \/ Leave(t) \/ NotifyOne(t) \/ SpuriousWakeUp(t)
        PROVE  InDispatch(h)' \/ Present(h)' \/ Lost
    <2>1. UNCHANGED <<ready, stack>>
      BY <1>6
         DEF Call, CallAsyncWait, CallWait, CallAsyncSignal, CallSignal, Enter, Lock, Leave,
             NotifyOne, SpuriousWakeUp, Body, AsyncWaitTake, AsyncWaitStore, AsyncWaitRefuse,
             WaitTake, WaitSleep, SignalHandoff, SignalCount, Continue, Finish
    <2>2. \A u \in Threads : pc[u] = "dispatch" => pc'[u] = "dispatch" /\ arg'[u] = arg[u]
      BY <1>6
         DEF DInv, TypeInv, TypeOK, Call, CallAsyncWait, CallWait, CallAsyncSignal,
             CallSignal, Enter, Lock, Leave, NotifyOne, Asleep, SpuriousWakeUp, Body,
             AsyncWaitTake, AsyncWaitStore, AsyncWaitRefuse, WaitTake, WaitSleep,
             SignalHandoff, SignalCount, InBody, Continue, Finish
    <2>. QED
      BY <1>2, <2>1, <2>2, IdlePresence
  <1>. QED
    BY <1>3, <1>4, <1>5, <1>6 DEF Next, Finishing

LEMMA ShapedInvariant == Spec => []DInv
  <1>1. Init => DInv
    BY InitTypeInv, InitShaped DEF DInv
  <1>. QED
    BY <1>1, StepShaped, PTL DEF Spec

(***************************************************************************)
(* A completion that was dispatched is lost before it starts in one case    *)
(* only: beside a waiting handler that throws.                             *)
(***************************************************************************)
THEOREM CompletionsLost == Spec => OnlyThrowingWaitersDrop
  <1>. DEFINE Keeps == \A h \in Handlers : Dispatched(h) =>
          Dispatched(h)' \/ Started(h)' \/ \E t \in Threads : LostBesideWaiter(h, t)
  <1>1. DInv /\ [Next]_vars => [Keeps]_vars
    BY StepKeeps
  <1>2. Spec => [][Keeps]_vars
    BY <1>1, ShapedInvariant, PTL DEF Spec
  <1>. QED
    BY <1>2 DEF OnlyThrowingWaitersDrop

(***************************************************************************)
(* Hence the comment on async_signal is right for programs whose waiting    *)
(* handlers do not throw.  That they must not is shown by the run           *)
(* semaphore_throwing_waiter.                                              *)
(***************************************************************************)
THEOREM CompletionsKept ==
    ASSUME WaitHandlers \cap Throwing = {}
    PROVE  Spec => NoCompletionDropped
  <1>. DEFINE Keeps == \A h \in Handlers : Dispatched(h) => Dispatched(h)' \/ Started(h)'
  <1>1. DInv /\ [Next]_vars => [Keeps]_vars
    <2>1. \A h : \A t \in Threads : ~LostBesideWaiter(h, t)
      BY DEF LostBesideWaiter
    <2>. QED
      BY <2>1, StepKeeps
  <1>2. Spec => [][Keeps]_vars
    BY <1>1, ShapedInvariant, PTL DEF Spec
  <1>. QED
    BY <1>2 DEF NoCompletionDropped
=============================================================================
