-------------------- MODULE UnsynchronizedSemaphoreProofs --------------------
(***************************************************************************)
(* UnsynchronizedSemaphore implements CountingSemaphore, for every set of   *)
(* completion handlers and every nesting of them.                          *)
(***************************************************************************)
EXTENDS UnsynchronizedSemaphore, SequenceTheorems, TLAPS

-----------------------------------------------------------------------------
(* What the operations of IoContext do to the items it holds. *)

LEMMA ItemTypes ==
    /\ <<>> \in Items
    /\ \A h \in Handlers : <<h>> \in Items
    /\ \A h \in Handlers, i \in Items : <<h>> \o i \in Items
  BY DEF Items

(* The three ways asio moves items about keep the types of its queues.     *)
LEMMA DispatchType ==
    ASSUME IoTypeOK, NEW t \in Threads, NEW item \in Items, Dispatch(t, item)
    PROVE  IoTypeOK'
  <1>1. stack[t] \in Seq(Items) /\ ready \in Seq(Items)
    BY DEF IoTypeOK
  <1>2. Append(stack[t], item) \in Seq(Items) /\ Append(ready, item) \in Seq(Items)
    BY <1>1
  <1>. QED
    BY <1>2 DEF IoTypeOK, Dispatch, Post

LEMMA RunOneType ==
    ASSUME IoTypeOK, NEW t \in Threads, RunOne(t)
    PROVE  IoTypeOK'
  BY IoThreadsAssumption DEF IoTypeOK, RunOne, InHandler

LEMMA ReturnType ==
    ASSUME IoTypeOK, NEW t \in Threads, Return(t)
    PROVE  IoTypeOK'
  <1>1. stack[t] \in Seq(Items) /\ stack[t] # <<>>
    BY DEF IoTypeOK, Return, InHandler
  <1>2. Innermost(t) \in Items
    BY <1>1 DEF Innermost
  <1>3. Outer(t) \in Seq(Items)
    BY <1>1 DEF Outer
  <1>4. Len(Innermost(t)) > 1 => Tail(Innermost(t)) \in Items
    BY <1>2 DEF Items
  <1>. QED
    BY <1>1, <1>3, <1>4 DEF IoTypeOK, Return

LEMMA ThrowType ==
    ASSUME IoTypeOK, NEW t \in Threads, Throw(t, Throwing)
    PROVE  IoTypeOK'
  <1>1. stack[t] \in Seq(Items)
    BY DEF IoTypeOK
  <1>2. \A d \in 0 .. Len(stack[t]) - 1 : SubSeq(stack[t], 1, d) \in Seq(Items)
    BY <1>1
  <1>. QED
    BY <1>2 DEF IoTypeOK, Throw

-----------------------------------------------------------------------------
(* A handler that is posted or on a stack. *)
Present(h) == Posted(h) \/ OnStack(h)

(* A dispatched item adds its handlers and nothing else. *)
LEMMA DispatchPresence ==
    ASSUME IoTypeOK, NEW t \in Threads, NEW item \in Items, Dispatch(t, item), NEW h
    PROVE  Present(h)' <=> Present(h) \/ Occurs(h, item)
  <1>1. stack[t] \in Seq(Items) /\ ready \in Seq(Items)
    BY DEF IoTypeOK
  <1>2. ASSUME NEW items \in Seq(Items)
        PROVE  OccursIn(h, Append(items, item)) <=> OccursIn(h, items) \/ Occurs(h, item)
    <2>1. /\ DOMAIN items = 1 .. Len(items) /\ Len(items) \in Nat
          /\ DOMAIN Append(items, item) = 1 .. Len(items) + 1
          /\ \A i \in 1 .. Len(items) : Append(items, item)[i] = items[i]
          /\ Append(items, item)[Len(items) + 1] = item
      BY <1>2
    <2>. QED
      BY <2>1 DEF OccursIn
  <1>3. CASE InHandler(t)
    <2>1. stack' = [stack EXCEPT ![t] = Append(@, item)] /\ ready' = ready
      BY <1>3 DEF Dispatch
    <2>2. OccursIn(h, stack'[t]) <=> OccursIn(h, stack[t]) \/ Occurs(h, item)
      BY <1>1, <1>2, <2>1 DEF IoTypeOK
    <2>3. \A u \in Threads : u # t => stack'[u] = stack[u]
      BY <2>1 DEF IoTypeOK
    <2>4. OnStack(h)' <=> OnStack(h) \/ Occurs(h, item)
      BY <2>2, <2>3 DEF OnStack
    <2>. QED
      BY <2>1, <2>4 DEF Present, Posted
  <1>4. CASE ~InHandler(t)
    <2>1. ready' = Append(ready, item) /\ stack' = stack
      BY <1>4 DEF Dispatch, Post
    <2>2. Posted(h)' <=> Posted(h) \/ Occurs(h, item)
      BY <1>1, <1>2, <2>1 DEF Posted
    <2>. QED
      BY <2>1, <2>2 DEF Present, OnStack
  <1>. QED
    BY <1>3, <1>4

(* Running, finishing or abandoning items never brings a handler in. *)
LEMMA RunPresence ==
    ASSUME IoTypeOK, NEW t \in Threads, RunOne(t), NEW h
    PROVE  Present(h)' <=> Present(h)
  <1>1. stack[t] = <<>> /\ ready \in Seq(Items) /\ ready # <<>>
    BY DEF RunOne, InHandler, IoTypeOK
  <1>2. stack'[t] = <<Head(ready)>> /\ ready' = Tail(ready)
    BY DEF RunOne, IoTypeOK
  <1>3. \A u \in Threads : u # t => stack'[u] = stack[u]
    BY DEF RunOne, IoTypeOK
  <1>4. OccursIn(h, ready) <=> Occurs(h, Head(ready)) \/ OccursIn(h, Tail(ready))
    <2>1. /\ Len(ready) \in Nat \ {0} /\ DOMAIN ready = 1 .. Len(ready)
          /\ DOMAIN Tail(ready) = 1 .. Len(ready) - 1
          /\ Head(ready) = ready[1]
          /\ \A i \in 1 .. Len(ready) - 1 : Tail(ready)[i] = ready[i + 1]
      BY <1>1
    <2>2. \A i \in 1 .. Len(ready) : i = 1 \/ (i - 1 \in 1 .. Len(ready) - 1 /\ (i - 1) + 1 = i)
      BY <2>1
    <2>3. ASSUME OccursIn(h, ready), ~Occurs(h, Head(ready))
          PROVE  OccursIn(h, Tail(ready))
      <3>1. PICK i \in 1 .. Len(ready) : Occurs(h, ready[i])
        BY <2>1, <2>3 DEF OccursIn
      <3>2. i - 1 \in 1 .. Len(ready) - 1 /\ Tail(ready)[i - 1] = ready[(i - 1) + 1]
        BY <2>1, <2>2, <2>3, <3>1
      <3>3. Occurs(h, Tail(ready)[i - 1])
        BY <3>1, <3>2
      <3>. QED
        BY <2>1, <3>2, <3>3 DEF OccursIn
    <2>4. ASSUME OccursIn(h, Tail(ready)) PROVE OccursIn(h, ready)
      <3>1. PICK i \in 1 .. Len(ready) - 1 : Occurs(h, Tail(ready)[i])
        BY <2>1, <2>4 DEF OccursIn
      <3>2. i + 1 \in 1 .. Len(ready) /\ Occurs(h, ready[i + 1])
        BY <2>1, <3>1
      <3>. QED
        BY <2>1, <3>2 DEF OccursIn
    <2>5. Occurs(h, Head(ready)) => OccursIn(h, ready)
      BY <2>1 DEF OccursIn
    <2>. QED
      BY <2>3, <2>4, <2>5
  <1>5. OccursIn(h, stack'[t]) <=> Occurs(h, Head(ready))
    BY <1>2 DEF OccursIn
  <1>6. ~OccursIn(h, stack[t])
    BY <1>1 DEF OccursIn
  <1>. QED
    BY <1>2, <1>3, <1>4, <1>5, <1>6 DEF Present, Posted, OnStack

LEMMA ReturnPresence ==
    ASSUME IoTypeOK, NEW t \in Threads, Return(t) \/ Throw(t, Throwing), NEW h
    PROVE  Present(h)' => Present(h)
  <1>1. stack[t] \in Seq(Items) /\ stack[t] # <<>> /\ ready' = ready
    BY DEF Return, Throw, InHandler, IoTypeOK
  <1>2. \A u \in Threads : u # t => stack'[u] = stack[u]
    BY DEF Return, Throw, IoTypeOK
  <1>3. ASSUME NEW depth \in 0 .. Len(stack[t]) - 1, OccursIn(h, SubSeq(stack[t], 1, depth))
        PROVE  OccursIn(h, stack[t])
    BY <1>1, <1>3 DEF OccursIn
  <1>4. OccursIn(h, stack'[t]) => OccursIn(h, stack[t])
    <2>1. CASE Throw(t, Throwing)
      BY <1>1, <1>3, <2>1 DEF Throw, IoTypeOK
    <2>2. CASE Return(t) /\ ~(Len(Innermost(t)) > 1)
      BY <1>1, <1>3, <2>2 DEF Return, Outer, IoTypeOK
    <2>3. CASE Return(t) /\ Len(Innermost(t)) > 1
      <3>1. stack'[t] = Append(Outer(t), Tail(Innermost(t)))
        BY <2>3 DEF Return, IoTypeOK
      <3>2. Innermost(t) \in Seq(Handlers) /\ Outer(t) \in Seq(Items)
        BY <1>1 DEF Innermost, Outer, Items
      <3>3. Occurs(h, Tail(Innermost(t))) => Occurs(h, Innermost(t))
        BY <2>3, <3>2 DEF Occurs
      <3>4. Occurs(h, Innermost(t)) => OccursIn(h, stack[t])
        BY <1>1 DEF OccursIn, Innermost
      <3>5. Tail(Innermost(t)) \in Items
        BY <2>3, <3>2 DEF Items
      <3>6. OccursIn(h, Append(Outer(t), Tail(Innermost(t))))
              => OccursIn(h, Outer(t)) \/ Occurs(h, Tail(Innermost(t)))
        BY <3>2, <3>5 DEF OccursIn
      <3>7. OccursIn(h, Outer(t)) => OccursIn(h, stack[t])
        BY <1>1, <1>3 DEF Outer
      <3>. QED
        BY <3>1, <3>3, <3>4, <3>6, <3>7
    <2>. QED
      BY <2>1, <2>2, <2>3
  <1>. QED
    BY <1>1, <1>2, <1>4 DEF Present, Posted, OnStack

-----------------------------------------------------------------------------
(* Both are inductive together: that no wait is stored beside a permit is   *)
(* what makes handing a permit over a step of the counting semaphore.      *)
IInv == TypeOK /\ NoPermitBesideStoredWait

LEMMA InitIInv == Init => IInv
  BY SemaphoreAssumption, ItemTypes
     DEF Init, IoInit, IInv, TypeOK, IoTypeOK, NoPermitBesideStoredWait

LEMMA StepIInv == IInv /\ [Next]_vars => IInv'
  <1>. SUFFICES ASSUME IInv, [Next]_vars PROVE IInv'
    OBVIOUS
  <1>. USE DEF IInv, TypeOK, NoPermitBesideStoredWait
  <1>0. Caller \in Threads
    BY SemaphoreAssumption
  <1>1. ASSUME NEW h \in WaitHandlers, AsyncWait(h) PROVE IInv'
    <2>1. CASE AsyncWaitTake(h)
      <3>1. IoTypeOK'
        BY <1>0, <2>1, DispatchType, ItemTypes, SemaphoreAssumption DEF AsyncWaitTake
      <3>. QED
        BY <2>1, <3>1 DEF AsyncWaitTake
    <2>2. CASE AsyncWaitStore(h)
      BY <2>2 DEF AsyncWaitStore, IoTypeOK
    <2>3. CASE AsyncWaitRefuse
      BY <2>3 DEF AsyncWaitRefuse, IoTypeOK, vars
    <2>. QED
      BY <1>1, <2>1, <2>2, <2>3 DEF AsyncWait
  <1>2. ASSUME NEW h \in SignalHandlers, AsyncSignal(h) PROVE IInv'
    <2>1. CASE AsyncSignalHandoff(h)
      <3>1. <<handler, h>> \in Items
        BY <2>1, SemaphoreAssumption DEF AsyncSignalHandoff, Items
      <3>2. IoTypeOK'
        BY <1>0, <2>1, <3>1, DispatchType DEF AsyncSignalHandoff
      <3>. QED
        BY <2>1, <3>2 DEF AsyncSignalHandoff, TakeHandler
    <2>2. CASE AsyncSignalCount(h)
      <3>1. IoTypeOK'
        BY <1>0, <2>2, DispatchType, ItemTypes, SemaphoreAssumption
           DEF AsyncSignalCount
      <3>. QED
        BY <2>2, <3>1 DEF AsyncSignalCount
    <2>. QED
      BY <1>2, <2>1, <2>2 DEF AsyncSignal
  <1>3. CASE Wait
    BY <1>3 DEF Wait, IoTypeOK, vars
  <1>4. CASE Signal
    <2>1. CASE SignalHandoff
      <3>1. IoTypeOK'
        BY <1>0, <2>1, DispatchType, ItemTypes, SemaphoreAssumption DEF SignalHandoff
      <3>. QED
        BY <2>1, <3>1 DEF SignalHandoff, TakeHandler
    <2>2. CASE SignalCount
      BY <2>2 DEF SignalCount, IoTypeOK
    <2>. QED
      BY <1>4, <2>1, <2>2 DEF Signal
  <1>5. CASE RunHandler
    BY <1>0, <1>5, RunOneType DEF RunHandler
  <1>6. ASSUME NEW h \in Handlers, HandlerReturns(h) \/ HandlerThrows(h)
        PROVE  IInv'
    BY <1>0, <1>6, ReturnType, ThrowType DEF HandlerReturns, HandlerThrows
  <1>7. CASE UNCHANGED vars
    BY <1>7 DEF vars, IoTypeOK
  <1>. QED
    BY <1>1, <1>2, <1>3, <1>4, <1>5, <1>6, <1>7 DEF Next

THEOREM Invariance == Spec => []IInv
  BY InitIInv, StepIInv, PTL DEF Spec

(***************************************************************************)
(* Type correctness: m_count, which is unsigned, never wraps below zero,    *)
(* whatever the handlers do that run inside an operation.                  *)
(***************************************************************************)
THEOREM TypeCorrect == Spec => []TypeOK
  <1>1. IInv => TypeOK
    BY DEF IInv
  <1>. QED
    BY <1>1, Invariance, PTL

(***************************************************************************)
(* A wait is stored only while there is no permit.                         *)
(***************************************************************************)
THEOREM PermitsAndWaits == Spec => []NoPermitBesideStoredWait
  <1>1. IInv => NoPermitBesideStoredWait
    BY DEF IInv
  <1>. QED
    BY <1>1, Invariance, PTL

-----------------------------------------------------------------------------
(* The refinement. *)

LEMMA GrantedMembers ==
    GrantedWaits = {h \in WaitHandlers : h # handler /\ Present(h)}
  BY DEF GrantedWaits, Free, Present

LEMMA GrantedMembersPrimed ==
    GrantedWaits' = {h \in WaitHandlers : h # handler' /\ Present(h)'}
  BY DEF GrantedWaits, Free, Present, Posted, OnStack

LEMMA InitRefines == Init => Promise!Init
  <1>. SUFFICES ASSUME Init PROVE Promise!Init
    OBVIOUS
  <1>1. PendingWaits = {}
    BY SemaphoreAssumption DEF Init, PendingWaits
  <1>2. GrantedWaits = {}
    BY GrantedMembers DEF Init, IoInit, Present, Posted, OnStack, OccursIn
  <1>. QED
    BY <1>1, <1>2 DEF Init, Promise!Init

(* What a dispatched item does to the granted handlers. *)
LEMMA DispatchGrants ==
    ASSUME IInv, NEW item \in Items, Dispatch(Caller, item)
    PROVE  GrantedWaits' = {h \in WaitHandlers :
                               h # handler' /\ (Present(h) \/ Occurs(h, item))}
  <1>1. \A h : Present(h)' <=> Present(h) \/ Occurs(h, item)
    BY DispatchPresence, SemaphoreAssumption DEF IInv, TypeOK
  <1>. QED
    BY <1>1, GrantedMembersPrimed

LEMMA TakeRefines ==
    ASSUME IInv, NEW h \in WaitHandlers, Free(h), AsyncWaitTake(h)
    PROVE  Promise!Take(h)
  <1>1. <<h>> \in Items /\ \A x : Occurs(x, <<h>>) <=> x = h
    BY SemaphoreAssumption DEF Items, Occurs
  <1>2. GrantedWaits' = GrantedWaits \cup {h}
    BY <1>1, DispatchGrants, GrantedMembers DEF AsyncWaitTake, Free
  <1>3. PendingWaits' = PendingWaits \ {h}
    BY DEF AsyncWaitTake, PendingWaits, Free
  <1>4. h \notin GrantedWaits
    BY DEF GrantedWaits
  <1>. QED
    BY <1>2, <1>3, <1>4 DEF AsyncWaitTake, Promise!Take

LEMMA StoreRefines ==
    ASSUME IInv, NEW h \in WaitHandlers, Free(h), AsyncWaitStore(h)
    PROVE  Promise!Ask(h)
  <1>1. GrantedWaits' = GrantedWaits
    <2>1. \A x : Present(x)' <=> Present(x)
      BY DEF AsyncWaitStore, Present, Posted, OnStack
    <2>2. ~Present(h)
      BY DEF Free, Present
    <2>3. \A x \in WaitHandlers : x # handler
      BY SemaphoreAssumption DEF AsyncWaitStore
    <2>. QED
      BY <2>1, <2>2, <2>3, GrantedMembers, GrantedMembersPrimed DEF AsyncWaitStore
  <1>2. PendingWaits = {} /\ PendingWaits' = {h}
    BY SemaphoreAssumption DEF AsyncWaitStore, PendingWaits
  <1>3. h \notin GrantedWaits
    BY DEF GrantedWaits
  <1>. QED
    BY <1>1, <1>2, <1>3 DEF AsyncWaitStore, Promise!Ask

(* The stored wait is answered; item carries it and no other wait handler. *)
LEMMA HandoffRefines ==
    ASSUME IInv, handler # NoHandler, TakeHandler, UNCHANGED count,
           NEW item \in Items, Dispatch(Caller, item),
           \A h \in WaitHandlers : Occurs(h, item) <=> h = handler
    PROVE  handler \in WaitHandlers /\ Promise!Handoff(handler)
  <1>1. handler \in WaitHandlers /\ count = 0
    BY DEF IInv, TypeOK, NoPermitBesideStoredWait
  <1>2. handler' = NoHandler /\ NoHandler \notin WaitHandlers
    BY SemaphoreAssumption DEF TakeHandler
  <1>3. PendingWaits = {handler} /\ PendingWaits' = {}
    BY <1>1, <1>2 DEF PendingWaits
  <1>4. GrantedWaits' = GrantedWaits \cup {handler}
    BY <1>1, <1>2, DispatchGrants, GrantedMembers
  <1>. QED
    BY <1>1, <1>3, <1>4 DEF Promise!Handoff

LEMMA AsyncSignalRefines ==
    ASSUME IInv, NEW h \in SignalHandlers, Free(h), AsyncSignal(h)
    PROVE  Promise!Next
  <1>1. h \in Handlers /\ h \notin WaitHandlers
    BY SemaphoreAssumption
  <1>2. CASE AsyncSignalHandoff(h)
    <2>1. handler \in Handlers
      BY <1>2, SemaphoreAssumption DEF IInv, TypeOK, AsyncSignalHandoff
    <2>2. <<handler, h>> \in Items
      BY <1>1, <2>1 DEF Items
    <2>3. \A x : Occurs(x, <<handler, h>>) <=> x = handler \/ x = h
      BY DEF Occurs
    <2>4. handler \in WaitHandlers /\ Promise!Handoff(handler)
      BY <1>1, <1>2, <2>2, <2>3, HandoffRefines DEF AsyncSignalHandoff
    <2>. QED
      BY <2>4 DEF Promise!Next, Promise!Clients
  <1>3. CASE AsyncSignalCount(h)
    <2>1. <<h>> \in Items /\ \A x : Occurs(x, <<h>>) <=> x = h
      BY <1>1 DEF Items, Occurs
    <2>2. GrantedWaits' = GrantedWaits
      BY <1>1, <1>3, <2>1, DispatchGrants, GrantedMembers DEF AsyncSignalCount
    <2>3. Promise!Release
      BY <1>3, <2>2 DEF AsyncSignalCount, PendingWaits, Promise!Release
    <2>. QED
      BY <2>3 DEF Promise!Next
  <1>. QED
    BY <1>2, <1>3 DEF AsyncSignal

LEMMA SignalRefines ==
    ASSUME IInv, Signal
    PROVE  Promise!Next
  <1>1. CASE SignalHandoff
    <2>1. handler \in Handlers
      BY <1>1, SemaphoreAssumption DEF IInv, TypeOK, SignalHandoff
    <2>2. <<handler>> \in Items /\ \A x : Occurs(x, <<handler>>) <=> x = handler
      BY <2>1 DEF Items, Occurs
    <2>3. handler \in WaitHandlers /\ Promise!Handoff(handler)
      BY <1>1, <2>2, HandoffRefines DEF SignalHandoff
    <2>. QED
      BY <2>3 DEF Promise!Next, Promise!Clients
  <1>2. CASE SignalCount
    <2>1. GrantedWaits' = GrantedWaits /\ PendingWaits' = PendingWaits
      BY <1>2 DEF SignalCount, GrantedWaits, PendingWaits, Free, Posted, OnStack
    <2>2. Promise!Release
      BY <1>2, <2>1 DEF SignalCount, Promise!Release
    <2>. QED
      BY <2>2 DEF Promise!Next
  <1>. QED
    BY <1>1, <1>2 DEF Signal

LEMMA WaitRefines ==
    ASSUME IInv, Wait
    PROVE  [Promise!Next]_(Promise!vars)
  <1>1. GrantedWaits' = GrantedWaits /\ PendingWaits' = PendingWaits
    BY DEF Wait, vars, GrantedWaits, PendingWaits, Free, Posted, OnStack
  <1>2. CASE count > 0
    <2>1. Caller \in Threads /\ Caller \notin WaitHandlers
      BY SemaphoreAssumption
    <2>2. Caller \notin GrantedWaits /\ Caller \notin PendingWaits
      BY <2>1 DEF GrantedWaits, PendingWaits
    <2>3. count' = count - 1
      BY <1>2 DEF Wait
    <2>4. Promise!Take(Caller)
      BY <1>1, <1>2, <2>1, <2>2, <2>3 DEF Promise!Take
    <2>. QED
      BY <2>1, <2>4 DEF Promise!Next, Promise!Clients
  <1>3. CASE ~(count > 0)
    BY <1>1, <1>3 DEF Wait, vars, Promise!vars
  <1>. QED
    BY <1>2, <1>3

(* Handlers that start, return or throw finish granted waits or none. *)
LEMMA HandlerRefines ==
    ASSUME IInv, UNCHANGED <<count, handler>>,
           RunOne(Caller) \/ Return(Caller) \/ Throw(Caller, Throwing)
    PROVE  [Promise!Next]_(Promise!vars)
  <1>1. Caller \in Threads /\ IoTypeOK
    BY SemaphoreAssumption DEF IInv, TypeOK
  <1>2. \A h : Present(h)' => Present(h)
    BY <1>1, RunPresence, ReturnPresence
  <1>3. GrantedWaits' \subseteq GrantedWaits
    BY <1>2, GrantedMembers, GrantedMembersPrimed
  <1>4. PendingWaits' = PendingWaits
    BY DEF PendingWaits
  <1>. DEFINE done == GrantedWaits \ GrantedWaits'
  <1>5. CASE done = {}
    <2>1. GrantedWaits' = GrantedWaits
      BY <1>3, <1>5
    <2>. QED
      BY <1>4, <2>1 DEF Promise!vars
  <1>6. CASE done # {}
    <2>1. GrantedWaits' = GrantedWaits \ done
      BY <1>3
    <2>2. Promise!Finish(done)
      BY <1>4, <1>6, <2>1 DEF Promise!Finish
    <2>3. done \in SUBSET GrantedWaits
      OBVIOUS
    <2>. QED
      BY <2>2, <2>3 DEF Promise!Next
  <1>. QED
    BY <1>5, <1>6

LEMMA StepRefines == IInv /\ [Next]_vars => [Promise!Next]_(Promise!vars)
  <1>. SUFFICES ASSUME IInv, [Next]_vars
                PROVE  [Promise!Next]_(Promise!vars)
    OBVIOUS
  <1>0. CASE UNCHANGED vars
    BY <1>0 DEF vars, Promise!vars, PendingWaits, GrantedWaits, Free, Posted, OnStack
  <1>1. ASSUME NEW h \in WaitHandlers, Free(h), AsyncWait(h)
        PROVE  [Promise!Next]_(Promise!vars)
    <2>1. h \in Promise!Clients
      BY DEF Promise!Clients
    <2>2. CASE AsyncWaitTake(h)
      BY <1>1, <2>1, <2>2, TakeRefines DEF Promise!Next
    <2>3. CASE AsyncWaitStore(h)
      BY <1>1, <2>1, <2>3, StoreRefines DEF Promise!Next
    <2>4. CASE AsyncWaitRefuse
      BY <1>0, <2>4 DEF AsyncWaitRefuse
    <2>. QED
      BY <1>1, <2>2, <2>3, <2>4 DEF AsyncWait
  <1>2. ASSUME NEW h \in SignalHandlers, Free(h), AsyncSignal(h)
        PROVE  [Promise!Next]_(Promise!vars)
    BY <1>2, AsyncSignalRefines
  <1>3. CASE Wait
    BY <1>3, WaitRefines
  <1>4. CASE Signal
    BY <1>4, SignalRefines
  <1>5. CASE RunHandler
    BY <1>5, HandlerRefines DEF RunHandler
  <1>6. ASSUME NEW h \in Handlers, HandlerReturns(h) \/ HandlerThrows(h)
        PROVE  [Promise!Next]_(Promise!vars)
    BY <1>6, HandlerRefines DEF HandlerReturns, HandlerThrows
  <1>. QED
    BY <1>0, <1>1, <1>2, <1>3, <1>4, <1>5, <1>6 DEF Next

(***************************************************************************)
(* The semaphore is a counting semaphore, also when a handler dispatched by *)
(* an operation waits and signals in turn before that operation returns.   *)
(***************************************************************************)
THEOREM Refinement == Spec => ImplementsCountingSemaphore
  BY InitRefines, StepRefines, Invariance, PTL
     DEF Spec, ImplementsCountingSemaphore, Promise!Spec
=============================================================================
