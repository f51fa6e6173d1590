---------------------------- MODULE ResourceProofs ----------------------------
(***************************************************************************)
(* Proofs about what the library acquires and gives back: the safety        *)
(* invariants of AllocatedPool, for every number of threads, blocks and     *)
(* calls, and those of Lifetimes, for every size of the buffers and every   *)
(* alignment.                                                              *)
(***************************************************************************)
EXTENDS AllocatedPool, Lifetimes, FiniteSetTheorems, TLAPS

-----------------------------------------------------------------------------
(* The pool. *)

(* The types of the state, without the bounds of the counters, which follow *)
(* from Counted below.                                                     *)
Shape ==
    /\ pooled \subseteq Blocks
    /\ held \in [Threads -> SUBSET Blocks]
    /\ backed \subseteq Blocks
    /\ allocated \subseteq Blocks
    /\ hit \in Nat
    /\ total \in Nat
    /\ pc \in [Threads -> Stages]
    /\ ptr \in [Threads -> Blocks \cup {None}]
    /\ \A t \in Threads : pc[t] # "idle" <=> ptr[t] \in Blocks
    /\ seen \in [Threads -> SUBSET Blocks]
    /\ calls \in 0 .. MaxCalls
    /\ stale \subseteq Blocks
    /\ raced \in BOOLEAN

(* A block is in one place: with the pool, in a call or with a holder.      *)
Apart ==
    /\ \A t \in Threads : held[t] \cap pooled = {}
    /\ \A t, u \in Threads : t # u => held[t] \cap held[u] = {}
    /\ \A t \in Threads : pc[t] # "idle" => ptr[t] \notin pooled
    /\ \A t, u \in Threads : pc[t] # "idle" => ptr[t] \notin held[u]
    /\ \A t, u \in Threads :
          t # u /\ pc[t] # "idle" /\ pc[u] # "idle" => ptr[t] # ptr[u]

(***************************************************************************)
(* Whoever takes a recorded block for touched is right: it is, or it was    *)
(* given back to the system since, or the call that recorded it is about    *)
(* to touch it.  What an undone insert forgets never matters, since it is   *)
(* only relied on by the call that holds the block.                        *)
(***************************************************************************)
Touched ==
    /\ \A t \in Threads : held[t] \subseteq backed \cup stale
    /\ \A b \in allocated :
          \/ b \in backed \cup stale
          \/ \E t \in Threads : pc[t] = "memset" /\ ptr[t] = b
    /\ allocated \cap OfSystem \subseteq stale
    /\ \A t \in Threads :
          \/ pc[t] \in {"hit", "total"}
          \/ pc[t] = "inserting" /\ ptr[t] \in seen[t]
          => ptr[t] \in backed \cup stale

(* The threads whose stage in p is one of S. *)
At(p, S) == {t \in Threads : p[t] \in S}

(* How many calls are in progress, and how many of them are counted in one  *)
(* way or the other and not yet in m_total.                                *)
Active == Cardinality(At(pc, Stages \ {"idle"}))
Counting == Cardinality(At(pc, {"memset", "total"}))

(* The blocks recorded, with those a call is about to record once more.     *)
Known ==
    {b \in Blocks :
        \/ b \in allocated
        \/ \E t \in Threads :
              pc[t] = "inserting" /\ ptr[t] = b /\ b \in seen[t]}

(***************************************************************************)
(* The calls in progress make up the difference between the counters.  As   *)
(* long as inserts do not overlap the difference is exact.                 *)
(***************************************************************************)
Counted ==
    /\ IsFiniteSet(Known)
    /\ total + Active = calls
    /\ Cardinality(Known) + hit <= total + Counting
    /\ ~raced =>
          /\ Cardinality(Known) + hit = total + Counting
          /\ \A t \in Threads : pc[t] = "inserting" => seen[t] = allocated
          /\ \A t, u \in Threads :
                pc[t] = "inserting" /\ pc[u] = "inserting" => t = u

IInv == Shape /\ Apart /\ Touched /\ Counted

-----------------------------------------------------------------------------
LEMMA InitShape == Init => Shape
  <1>. SUFFICES ASSUME Init PROVE Shape
    OBVIOUS
  <1>1. \A t \in Threads : pc[t] = "idle" /\ ptr[t] = None
    BY DEF Init
  <1>2. /\ held \in [Threads -> SUBSET Blocks]
        /\ seen \in [Threads -> SUBSET Blocks]
        /\ pc \in [Threads -> Stages]
        /\ ptr \in [Threads -> Blocks \cup {None}]
    BY DEF Init, Stages
  <1>3. raced \in BOOLEAN
    BY DEF Init
  <1>4. calls \in 0 .. MaxCalls /\ hit \in Nat /\ total \in Nat
    BY PoolAssumption DEF Init
  <1>5. \A t \in Threads : pc[t] # "idle" <=> ptr[t] \in Blocks
    BY <1>1, PoolAssumption
  <1>. QED
    BY <1>2, <1>3, <1>4, <1>5 DEF Init, Shape

LEMMA StepShape == Shape /\ [Next]_vars => Shape'
  <1>. SUFFICES ASSUME Shape, [Next]_vars PROVE Shape'
    OBVIOUS
  <1>. USE DEF Shape, Stages, Goto, poolVars, counters, history
  <1>1. ASSUME NEW t \in Threads, Allocate(t) PROVE Shape'
    <2>1. PICK b \in pooled \cup OfSystem :
            /\ ptr' = [ptr EXCEPT ![t] = b]
            /\ pooled' = pooled \ {b}
            /\ backed' = IF b \in pooled THEN backed ELSE backed \ {b}
      BY <1>1 DEF Allocate
    <2>2. b \in Blocks
      BY DEF OfSystem
    <2>3. calls' \in 0 .. MaxCalls
      BY <1>1, PoolAssumption DEF Allocate
    <2>. QED
      BY <1>1, <2>1, <2>2, <2>3 DEF Allocate
  <1>2. ASSUME NEW t \in Threads, InsertBegins(t) PROVE Shape'
    BY <1>2 DEF InsertBegins
  <1>3. ASSUME NEW t \in Threads, InsertEnds(t) PROVE Shape'
    BY <1>3 DEF InsertEnds
  <1>4. ASSUME NEW t \in Threads, Memset(t) PROVE Shape'
    BY <1>4 DEF Memset
  <1>5. ASSUME NEW t \in Threads, Hit(t) PROVE Shape'
    BY <1>5 DEF Hit
  <1>6. ASSUME NEW t \in Threads, Total(t) PROVE Shape'
    BY <1>6, PoolAssumption DEF Total
  <1>7. ASSUME NEW t \in Threads, NEW b \in Blocks, Deallocate(t, b) PROVE Shape'
    BY <1>7 DEF Deallocate, Leave
  <1>8. CASE Release
    BY <1>8 DEF Release, Leave
  <1>9. CASE UNCHANGED vars
    BY <1>9 DEF vars
  <1>. QED
    BY <1>1, <1>2, <1>3, <1>4, <1>5, <1>6, <1>7, <1>8, <1>9 DEF Next

-----------------------------------------------------------------------------
(* What a call may take from the pool or the system is in nobody's hands.   *)
LEMMA FreeBlocks ==
    ASSUME Shape, Apart, NEW b \in pooled \cup OfSystem
    PROVE  /\ b \in Blocks
           /\ \A t \in Threads : b \notin held[t]
           /\ \A t \in Threads : pc[t] # "idle" => ptr[t] # b
  <1>1. CASE b \in pooled
    BY <1>1 DEF Shape, Apart
  <1>2. CASE b \in OfSystem
    BY <1>2 DEF OfSystem, InUse
  <1>. QED
    BY <1>1, <1>2

LEMMA InitApart == Init => Apart
  BY DEF Init, Apart

LEMMA StepApart == Shape /\ Apart /\ [Next]_vars => Apart'
  <1>. SUFFICES ASSUME Shape, Apart, [Next]_vars PROVE Apart'
    OBVIOUS
  <1>. USE DEF Shape, Apart, Stages, Goto, poolVars, counters, history
  <1>1. ASSUME NEW t \in Threads, Allocate(t) PROVE Apart'
    BY <1>1, FreeBlocks DEF Allocate
  <1>2. ASSUME NEW t \in Threads, InsertBegins(t) PROVE Apart'
    BY <1>2 DEF InsertBegins
  <1>3. ASSUME NEW t \in Threads, InsertEnds(t) PROVE Apart'
    BY <1>3 DEF InsertEnds
  <1>4. ASSUME NEW t \in Threads, Memset(t) PROVE Apart'
    BY <1>4 DEF Memset
  <1>5. ASSUME NEW t \in Threads, Hit(t) PROVE Apart'
    BY <1>5 DEF Hit
  <1>6. ASSUME NEW t \in Threads, Total(t) PROVE Apart'
    BY <1>6 DEF Total
  <1>7. ASSUME NEW t \in Threads, NEW b \in Blocks, Deallocate(t, b) PROVE Apart'
    BY <1>7 DEF Deallocate
  <1>8. CASE Release
    BY <1>8 DEF Release
  <1>9. CASE UNCHANGED vars
    BY <1>9 DEF vars
  <1>. QED
    BY <1>1, <1>2, <1>3, <1>4, <1>5, <1>6, <1>7, <1>8, <1>9 DEF Next

-----------------------------------------------------------------------------
LEMMA InitTouched == Init => Touched
  BY DEF Init, Touched

LEMMA StepTouched == Shape /\ Apart /\ Touched /\ [Next]_vars => Touched'
  <1>. SUFFICES ASSUME Shape, Apart, Touched, [Next]_vars PROVE Touched'
    OBVIOUS
  <1>. USE DEF Stages, Goto, poolVars, counters, history
  <1>1. ASSUME NEW t \in Threads, Allocate(t) PROVE Touched'
    <2>1. PICK b \in pooled \cup OfSystem :
            /\ ptr' = [ptr EXCEPT ![t] = b]
            /\ pooled' = pooled \ {b}
            /\ backed' = IF b \in pooled THEN backed ELSE backed \ {b}
      BY <1>1 DEF Allocate
    <2>2. b \in allocated => b \in backed' \cup stale
      BY <2>1, FreeBlocks DEF Touched, Apart
    <2>3. \A c \in backed : c # b => c \in backed'
      BY <2>1
    <2>4. OfSystem' \subseteq OfSystem
      BY <1>1, <2>1 DEF Allocate, Shape, OfSystem, InUse
    <2>5. \A u \in Threads : held[u] \subseteq backed' \cup stale
      BY <2>3, FreeBlocks DEF Touched
    <2>. QED
      BY <1>1, <2>1, <2>2, <2>3, <2>4, <2>5, FreeBlocks DEF Touched, Shape, Allocate
  <1>2. ASSUME NEW t \in Threads, InsertBegins(t) PROVE Touched'
    <2>1. OfSystem' = OfSystem
      BY <1>2 DEF InsertBegins, OfSystem, InUse
    <2>2. ptr[t] \in allocated => ptr[t] \in backed \cup stale
      BY <1>2 DEF InsertBegins, Touched, Apart, Shape
    <2>. QED
      BY <1>2, <2>1, <2>2 DEF InsertBegins, Touched, Shape
  <1>3. ASSUME NEW t \in Threads, InsertEnds(t) PROVE Touched'
    <2>1. OfSystem' = OfSystem /\ ptr[t] \notin OfSystem
      BY <1>3 DEF InsertEnds, OfSystem, InUse
    <2>2. allocated' \subseteq allocated \cup {ptr[t]}
      BY <1>3 DEF InsertEnds
    <2>. QED
      BY <1>3, <2>1, <2>2 DEF InsertEnds, Touched, Shape
  <1>4. ASSUME NEW t \in Threads, Memset(t) PROVE Touched'
    <2>1. OfSystem' = OfSystem /\ ptr[t] \notin OfSystem
      BY <1>4 DEF Memset, OfSystem, InUse
    <2>. QED
      BY <1>4, <2>1 DEF Memset, Touched, Shape
  <1>5. ASSUME NEW t \in Threads, Hit(t) PROVE Touched'
    <2>1. OfSystem' = OfSystem
      BY <1>5 DEF Hit, OfSystem, InUse
    <2>. QED
      BY <1>5, <2>1 DEF Hit, Touched, Shape
  <1>6. ASSUME NEW t \in Threads, Total(t) PROVE Touched'
    <2>1. OfSystem' \subseteq OfSystem
      BY <1>6 DEF Total, Shape, OfSystem, InUse
    <2>. QED
      BY <1>6, <2>1 DEF Total, Touched, Shape
  <1>7. ASSUME NEW t \in Threads, NEW b \in Blocks, Deallocate(t, b) PROVE Touched'
    <2>1. OfSystem' \subseteq OfSystem \cup {b}
      BY <1>7 DEF Deallocate, Shape, OfSystem, InUse
    <2>2. b \in OfSystem' => b \in Large
      BY <1>7 DEF Deallocate, OfSystem, InUse
    <2>3. \A c \in Blocks : c # b /\ c \in backed \cup stale => c \in backed' \cup stale'
      BY <1>7 DEF Deallocate, Leave
    <2>4. b \in allocated /\ b \in backed \cup stale => b \in backed' \cup stale'
      BY <1>7 DEF Deallocate, Leave
    <2>5. b \in allocated /\ b \in Large => b \in stale'
      BY <1>7 DEF Deallocate, Leave
    <2>6. b \in backed \cup stale /\ \A u \in Threads : pc[u] # "idle" => ptr[u] # b
      BY <1>7 DEF Deallocate, Touched, Apart, Shape
    <2>7. \A u \in Threads : b \notin held'[u]
      BY <1>7 DEF Deallocate, Apart, Shape
    <2>8. \A u \in Threads : held'[u] \subseteq held[u]
      BY <1>7 DEF Deallocate, Shape
    <2>9. stale \subseteq stale'
      BY <1>7 DEF Deallocate, Leave
    <2>10. \A u \in Threads : held'[u] \subseteq backed' \cup stale'
      BY <2>3, <2>7, <2>8 DEF Touched, Shape
    <2>11. \A c \in allocated :
             \/ c \in backed' \cup stale'
             \/ \E u \in Threads : pc[u] = "memset" /\ ptr[u] = c
      BY <2>3, <2>4, <2>6 DEF Touched, Shape
    <2>12. allocated \cap OfSystem' \subseteq stale'
      BY <2>1, <2>2, <2>5, <2>9 DEF Touched
    <2>13. \A u \in Threads :
             \/ pc[u] \in {"hit", "total"}
             \/ pc[u] = "inserting" /\ ptr[u] \in seen[u]
             => ptr[u] \in backed' \cup stale'
      BY <2>3, <2>6 DEF Touched, Shape
    <2>. QED
      BY <1>7, <2>10, <2>11, <2>12, <2>13 DEF Deallocate, Touched
  <1>8. CASE Release
    <2>1. \A u \in Threads : held[u] = {} /\ pc[u] = "idle"
      BY <1>8 DEF Release, InUse, Shape
    <2>2. \A c \in allocated : c \in backed' \cup stale'
      BY <1>8, <2>1 DEF Release, Leave, Touched
    <2>3. OfSystem' \subseteq OfSystem \cup pooled
      BY <1>8 DEF Release, Shape, OfSystem, InUse
    <2>4. stale' = stale \cup (pooled \cap allocated)
      BY <1>8 DEF Release, Leave
    <2>5. allocated \cap OfSystem' \subseteq stale'
      BY <2>3, <2>4 DEF Touched
    <2>. QED
      BY <1>8, <2>1, <2>2, <2>5 DEF Release, Touched
  <1>9. CASE UNCHANGED vars
    BY <1>9 DEF vars, Touched, OfSystem, InUse
  <1>. QED
    BY <1>1, <1>2, <1>3, <1>4, <1>5, <1>6, <1>7, <1>8, <1>9 DEF Next

-----------------------------------------------------------------------------
(* How many threads are in the stages S when one of them moves on.          *)
LEMMA MoveCount ==
    ASSUME Shape, NEW t \in Threads, NEW stage \in Stages, Goto(t, stage), NEW S
    PROVE  /\ Cardinality(At(pc, S)) \in Nat
           /\ Cardinality(At(pc', S)) \in Nat
           /\ pc[t] \in S /\ stage \notin S
                 => Cardinality(At(pc, S)) = Cardinality(At(pc', S)) + 1
           /\ pc[t] \notin S /\ stage \in S
                 => Cardinality(At(pc', S)) = Cardinality(At(pc, S)) + 1
           /\ (pc[t] \in S <=> stage \in S)
                 => Cardinality(At(pc', S)) = Cardinality(At(pc, S))
  <1>. DEFINE others == At(pc, S) \ {t}
  <1>1. /\ IsFiniteSet(At(pc, S))
        /\ Cardinality(At(pc, S)) \in Nat
    <2>1. At(pc, S) \in SUBSET Threads
      BY DEF At
    <2>. QED
      BY <2>1, PoolAssumption, FS_Subset, FS_CardinalityType
  <1>2. IsFiniteSet(others)
    BY <1>1, FS_RemoveElement
  <1>3. Cardinality(others) \in Nat
    BY <1>2, FS_CardinalityType
  <1>4. Cardinality(others \cup {t}) = Cardinality(others) + 1
    BY <1>2, FS_AddElement
  <1>5. /\ pc[t] \in S => At(pc, S) = others \cup {t}
        /\ pc[t] \notin S => At(pc, S) = others
        /\ stage \in S => At(pc', S) = others \cup {t}
        /\ stage \notin S => At(pc', S) = others
    BY DEF At, Goto, Shape
  <1>6. /\ pc[t] \in S => Cardinality(At(pc, S)) = Cardinality(others \cup {t})
        /\ pc[t] \notin S => Cardinality(At(pc, S)) = Cardinality(others)
        /\ stage \in S => Cardinality(At(pc', S)) = Cardinality(others \cup {t})
        /\ stage \notin S => Cardinality(At(pc', S)) = Cardinality(others)
    BY <1>5
  <1>. QED
    BY <1>1, <1>3, <1>4, <1>6

LEMMA InitCounted == Init => Counted
  <1>. SUFFICES ASSUME Init PROVE Counted
    OBVIOUS
  <1>1. At(pc, Stages \ {"idle"}) = {} /\ At(pc, {"memset", "total"}) = {}
    BY DEF Init, At
  <1>2. Known = {}
    BY DEF Init, Known
  <1>3. \A t \in Threads : pc[t] # "inserting"
    BY DEF Init
  <1>4. IsFiniteSet({}) /\ Cardinality({}) = 0
    BY FS_EmptySet
  <1>5. hit = 0 /\ total = 0 /\ calls = 0
    BY DEF Init
  <1>. QED
    BY <1>1, <1>2, <1>3, <1>4, <1>5 DEF Counted, Active, Counting

(* Steps that leave what is recorded, and what inserts saw of it, alone.    *)
LEMMA KnownUnchanged ==
    ASSUME Shape, NEW t \in Threads, UNCHANGED <<allocated, seen>>,
           pc[t] # "inserting", pc'[t] # "inserting",
           \A u \in Threads : u # t => pc'[u] = pc[u] /\ ptr'[u] = ptr[u]
    PROVE  Known' = Known
  BY DEF Known, Shape

LEMMA CountTypes ==
    ASSUME Shape, Counted
    PROVE  /\ hit \in Nat /\ total \in Nat /\ calls \in Nat
           /\ Cardinality(Known) \in Nat
           /\ Cardinality(Threads) \in Nat
           /\ Active \in Nat /\ Active <= Cardinality(Threads)
           /\ Counting \in Nat /\ Counting <= Cardinality(Threads)
  <1>1. At(pc, Stages \ {"idle"}) \in SUBSET Threads
        /\ At(pc, {"memset", "total"}) \in SUBSET Threads
    BY DEF At
  <1>2. /\ Cardinality(Threads) \in Nat
        /\ Active \in Nat /\ Active <= Cardinality(Threads)
        /\ Counting \in Nat /\ Counting <= Cardinality(Threads)
    BY <1>1, PoolAssumption, FS_Subset, FS_CardinalityType DEF Active, Counting
  <1>3. Cardinality(Known) \in Nat
    BY FS_CardinalityType DEF Counted
  <1>. QED
    BY <1>2, <1>3, PoolAssumption DEF Shape

(***************************************************************************)
(* A step outside insert keeps Counted if it adjusts the counters as the    *)
(* stages it leaves and enters require.                                    *)
(***************************************************************************)
LEMMA CountedKept ==
    ASSUME Shape, Shape', Counted, NEW t \in Threads, NEW stage \in Stages,
           Goto(t, stage), stage # "inserting", pc[t] # "inserting",
           UNCHANGED <<allocated, seen, raced>>,
           \A u \in Threads : u # t => ptr'[u] = ptr[u],
           total' + Active' = calls',
           hit' + total + Counting = hit + total' + Counting',
           Counting' \in Nat
    PROVE  Counted'
  <1>1. pc'[t] = stage /\ \A u \in Threads : u # t => pc'[u] = pc[u]
    BY DEF Goto, Shape
  <1>2. Known' = Known
    BY <1>1, KnownUnchanged
  <1>3. hit' \in Nat /\ total' \in Nat
    BY DEF Shape
  <1>4. Cardinality(Known') = Cardinality(Known)
    BY <1>2
  <1>5. /\ Cardinality(Known) + hit <= total + Counting
        /\ ~raced => Cardinality(Known) + hit = total + Counting
    BY DEF Counted
  <1>6. Cardinality(Known') + hit' <= total' + Counting'
    BY <1>3, <1>4, <1>5, CountTypes
  <1>7. ~raced' => Cardinality(Known') + hit' = total' + Counting'
    BY <1>3, <1>4, <1>5, CountTypes
  <1>8. ~raced' =>
           /\ \A u \in Threads : pc'[u] = "inserting" => seen'[u] = allocated'
           /\ \A u, v \in Threads :
                 pc'[u] = "inserting" /\ pc'[v] = "inserting" => u = v
    BY <1>1 DEF Counted
  <1>. QED
    BY <1>2, <1>6, <1>7, <1>8 DEF Counted

(* What the two counts of calls become when a call moves on.                *)
LEMMA CountsMove ==
    ASSUME Shape, NEW t \in Threads, NEW stage \in Stages, Goto(t, stage)
    PROVE  /\ Active' \in Nat /\ Counting' \in Nat
           /\ pc[t] = "idle" /\ stage # "idle" => Active' = Active + 1
           /\ pc[t] # "idle" /\ stage = "idle" => Active = Active' + 1
           /\ pc[t] # "idle" /\ stage # "idle" => Active' = Active
           /\ pc[t] \notin {"memset", "total"} /\ stage \in {"memset", "total"}
                 => Counting' = Counting + 1
           /\ pc[t] \in {"memset", "total"} /\ stage \notin {"memset", "total"}
                 => Counting = Counting' + 1
           /\ (pc[t] \in {"memset", "total"} <=> stage \in {"memset", "total"})
                 => Counting' = Counting
  <1>1. /\ pc[t] \in Stages \ {"idle"} <=> pc[t] # "idle"
        /\ stage \in Stages \ {"idle"} <=> stage # "idle"
    BY DEF Shape
  <1>. QED
    BY <1>1, MoveCount DEF Active, Counting

LEMMA InsertBeginsCounted ==
    ASSUME Shape, Counted, NEW t \in Threads, InsertBegins(t)
    PROVE  Counted'
  <1>1. Goto(t, "inserting") /\ pc[t] = "insert"
    BY DEF InsertBegins
  <1>2. pc'[t] = "inserting" /\ \A u \in Threads : u # t => pc'[u] = pc[u]
    BY <1>1 DEF Goto, Shape
  <1>3. seen'[t] = allocated /\ \A u \in Threads : u # t => seen'[u] = seen[u]
    BY DEF InsertBegins, Shape
  <1>4. Known' = Known
    BY <1>1, <1>2, <1>3 DEF InsertBegins, Known
  <1>5. Active' = Active /\ Counting' = Counting
    BY <1>1, CountsMove DEF Stages
  <1>6. Cardinality(Known') = Cardinality(Known)
    BY <1>4
  <1>7. ~raced' =>
           /\ ~raced
           /\ \A u \in Threads : pc'[u] = "inserting" => u = t
    BY <1>2 DEF InsertBegins
  <1>8. ~raced' =>
           /\ \A u \in Threads : pc'[u] = "inserting" => seen'[u] = allocated
           /\ \A u, v \in Threads :
                 pc'[u] = "inserting" /\ pc'[v] = "inserting" => u = v
    BY <1>3, <1>7
  <1>. QED
    BY <1>4, <1>5, <1>6, <1>7, <1>8 DEF InsertBegins, Counted, counters

(* An insert adds at most its own block, and counts it unless it saw it     *)
(* recorded; when it runs alone what it saw is what is recorded.           *)
LEMMA InsertEndsCounted ==
    ASSUME Shape, Counted, NEW t \in Threads, InsertEnds(t)
    PROVE  Counted'
  <1>. DEFINE b == ptr[t]
              stage == IF b \in seen[t] THEN "hit" ELSE "memset"
  <1>1. Goto(t, stage) /\ pc[t] = "inserting" /\ stage \in Stages
    BY DEF InsertEnds, Stages
  <1>2. pc'[t] = stage /\ \A u \in Threads : u # t => pc'[u] = pc[u]
    BY <1>1 DEF Goto, Shape
  <1>3. \A u \in Threads : u # t => seen'[u] = seen[u]
    BY DEF InsertEnds, Shape
  <1>4. PICK lost \in {{}, allocated \ seen[t]} :
          allocated' = (allocated \ lost) \cup {b}
    BY DEF InsertEnds
  <1>5. b \in Blocks
    BY <1>1 DEF Shape
  <1>6. Known' \subseteq Known \cup {b}
    BY <1>1, <1>2, <1>3, <1>4 DEF InsertEnds, Known
  <1>7. b \in seen[t] => b \in Known
    BY <1>1, <1>5 DEF Known
  <1>8. /\ IsFiniteSet(Known \cup {b})
        /\ Cardinality(Known \cup {b})
              = IF b \in Known THEN Cardinality(Known) ELSE Cardinality(Known) + 1
    BY FS_AddElement DEF Counted
  <1>9. IsFiniteSet(Known') /\ Cardinality(Known') <= Cardinality(Known \cup {b})
    <2>1. Known' \in SUBSET (Known \cup {b})
      BY <1>6
    <2>. QED
      BY <1>8, <2>1, FS_Subset
  <1>10. Cardinality(Known') \in Nat
    BY <1>9, FS_CardinalityType
  <1>11. Active' = Active
    BY <1>1, CountsMove
  <1>12. /\ b \in seen[t] => Counting' = Counting
         /\ b \notin seen[t] => Counting' = Counting + 1
    <2>1. CASE b \in seen[t]
      BY <1>1, <2>1, CountsMove
    <2>2. CASE b \notin seen[t]
      BY <1>1, <2>2, CountsMove
    <2>. QED
      BY <2>1, <2>2
  <1>13. UNCHANGED <<hit, total, calls, raced>>
    BY DEF InsertEnds, counters, history
  <1>14. Cardinality(Known') + hit' <= total' + Counting'
    <2>1. Cardinality(Known) + hit <= total + Counting
      BY DEF Counted
    <2>2. CASE b \in seen[t]
      BY <1>7, <1>8, <1>9, <1>10, <1>12, <1>13, <2>1, <2>2, CountTypes
    <2>3. CASE b \notin seen[t]
      BY <1>8, <1>9, <1>10, <1>12, <1>13, <2>1, <2>3, CountTypes
    <2>. QED
      BY <2>2, <2>3
  <1>15. ASSUME ~raced PROVE Cardinality(Known') + hit' = total' + Counting'
    <2>1. seen[t] = allocated /\ \A u \in Threads : pc[u] = "inserting" => u = t
      BY <1>1, <1>15 DEF Counted
    <2>2. \A u \in Threads : pc'[u] # "inserting"
      BY <1>2, <2>1
    <2>3. Known' = Known \cup {b}
      BY <1>1, <1>4, <1>5, <2>1, <2>2 DEF Known
    <2>4. b \in Known <=> b \in seen[t]
      BY <1>5, <2>1 DEF Known
    <2>5. Cardinality(Known') = Cardinality(Known \cup {b})
      BY <2>3
    <2>6. Cardinality(Known) + hit = total + Counting
      BY <1>15 DEF Counted
    <2>7. CASE b \in seen[t]
      BY <1>8, <1>12, <1>13, <2>4, <2>5, <2>6, <2>7, CountTypes
    <2>8. CASE b \notin seen[t]
      BY <1>8, <1>12, <1>13, <2>4, <2>5, <2>6, <2>8, CountTypes
    <2>. QED
      BY <2>7, <2>8
  <1>16. ~raced =>
           /\ \A u \in Threads : pc'[u] = "inserting" => seen'[u] = allocated'
           /\ \A u, v \in Threads :
                 pc'[u] = "inserting" /\ pc'[v] = "inserting" => u = v
    BY <1>1, <1>2 DEF Counted
  <1>17. total' + Active' = calls'
    BY <1>11, <1>13 DEF Counted
  <1>. QED
    BY <1>9, <1>13, <1>14, <1>15, <1>16, <1>17 DEF Counted

LEMMA StepCounted == Shape /\ Counted /\ [Next]_vars => Counted'
  <1>. SUFFICES ASSUME Shape, Counted, [Next]_vars PROVE Counted'
    OBVIOUS
  <1>0. Shape'
    BY StepShape
  <1>. USE DEF Stages, counters, history
  <1>1. ASSUME NEW t \in Threads, Allocate(t) PROVE Counted'
    <2>1. Goto(t, "insert") /\ pc[t] = "idle"
      BY <1>1 DEF Allocate
    <2>2. Active' = Active + 1 /\ Counting' = Counting /\ Counting' \in Nat
      BY <2>1, CountsMove
    <2>3. calls' = calls + 1 /\ hit' = hit /\ total' = total
      BY <1>1 DEF Allocate
    <2>4. total' + Active' = calls'
      <3>1. total + Active = calls
        BY DEF Counted
      <3>. QED
        BY <2>2, <2>3, <3>1, CountTypes
    <2>5. /\ UNCHANGED <<allocated, seen, raced>>
          /\ \A u \in Threads : u # t => ptr'[u] = ptr[u]
      BY <1>1 DEF Allocate, Shape
    <2>. QED
      BY <1>0, <2>1, <2>2, <2>3, <2>4, <2>5, CountedKept
  <1>2. ASSUME NEW t \in Threads, InsertBegins(t) PROVE Counted'
    BY <1>2, InsertBeginsCounted
  <1>3. ASSUME NEW t \in Threads, InsertEnds(t) PROVE Counted'
    BY <1>3, InsertEndsCounted
  <1>4. ASSUME NEW t \in Threads, Memset(t) PROVE Counted'
    <2>1. Goto(t, "total") /\ pc[t] = "memset"
      BY <1>4 DEF Memset
    <2>2. Active' = Active /\ Counting' = Counting /\ Counting' \in Nat
      BY <2>1, CountsMove
    <2>3. UNCHANGED <<calls, hit, total, allocated, seen, raced, ptr>>
      BY <1>4 DEF Memset
    <2>4. total' + Active' = calls'
      BY <2>2, <2>3 DEF Counted
    <2>. QED
      BY <1>0, <2>1, <2>2, <2>3, <2>4, CountedKept
  <1>5. ASSUME NEW t \in Threads, Hit(t) PROVE Counted'
    <2>1. Goto(t, "total") /\ pc[t] = "hit"
      BY <1>5 DEF Hit
    <2>2. Active' = Active /\ Counting' = Counting + 1 /\ Counting' \in Nat
      BY <2>1, CountsMove
    <2>3. hit' = hit + 1 /\ UNCHANGED <<calls, total, allocated, seen, raced, ptr>>
      BY <1>5 DEF Hit
    <2>4. total' + Active' = calls'
      BY <2>2, <2>3 DEF Counted
    <2>5. hit' + total + Counting = hit + total' + Counting'
      BY <2>2, <2>3, CountTypes
    <2>. QED
      BY <1>0, <2>1, <2>2, <2>3, <2>4, <2>5, CountedKept
  <1>6. ASSUME NEW t \in Threads, Total(t) PROVE Counted'
    <2>1. Goto(t, "idle") /\ pc[t] = "total"
      BY <1>6 DEF Total
    <2>2. /\ Active = Active' + 1 /\ Active' \in Nat
          /\ Counting = Counting' + 1 /\ Counting' \in Nat
      BY <2>1, CountsMove
    <2>3. total' = total + 1 /\ UNCHANGED <<calls, hit, allocated, seen, raced>>
      BY <1>6 DEF Total
    <2>4. total' + Active' = calls'
      <3>1. total + Active = calls
        BY DEF Counted
      <3>. QED
        BY <2>2, <2>3, <3>1, CountTypes
    <2>5. hit' + total + Counting = hit + total' + Counting'
      BY <2>2, <2>3, CountTypes
    <2>6. \A u \in Threads : u # t => ptr'[u] = ptr[u]
      BY <1>6 DEF Total, Shape
    <2>. QED
      BY <1>0, <2>1, <2>2, <2>3, <2>4, <2>5, <2>6, CountedKept
  <1>7. CASE UNCHANGED <<allocated, counters, pc, ptr, seen, calls, raced>>
    BY <1>7 DEF Counted, Known, Active, Counting
  <1>8. ASSUME NEW t \in Threads, NEW b \in Blocks, Deallocate(t, b) PROVE Counted'
    BY <1>7, <1>8 DEF Deallocate
  <1>9. CASE Release
    BY <1>7, <1>9 DEF Release
  <1>10. CASE UNCHANGED vars
    BY <1>7, <1>10 DEF vars
  <1>. QED
    BY <1>1, <1>2, <1>3, <1>4, <1>5, <1>6, <1>8, <1>9, <1>10 DEF Next

-----------------------------------------------------------------------------
THEOREM Invariance == Spec => []IInv
  <1>1. Init => IInv
    BY InitShape, InitApart, InitTouched, InitCounted DEF IInv
  <1>2. IInv /\ [Next]_vars => IInv'
    BY StepShape, StepApart, StepTouched, StepCounted DEF IInv
  <1>. QED
    BY <1>1, <1>2, PTL DEF Spec

(***************************************************************************)
(* Type correctness: m_hit is never far ahead of m_total and m_total never  *)
(* ahead of the calls, whichever threads are between their increments.     *)
(***************************************************************************)
THEOREM TypeCorrect == Spec => []TypeOK
  <1>1. IInv => TypeOK
    <2>. SUFFICES ASSUME IInv PROVE TypeOK
      OBVIOUS
    <2>. USE DEF IInv
    <2>1. /\ total + Active = calls
          /\ Cardinality(Known) + hit <= total + Counting
      BY DEF Counted
    <2>2. hit \in 0 .. total + Cardinality(Threads) /\ total \in 0 .. calls
      BY <2>1, CountTypes
    <2>. QED
      BY <2>2 DEF Shape, TypeOK
  <1>. QED
    BY <1>1, Invariance, PTL

(***************************************************************************)
(* do_allocate hands out memory with pages behind it, unless the block went *)
(* back to the system after it was recorded, however inserts race and      *)
(* whatever they undo.                                                     *)
(***************************************************************************)
THEOREM TouchedBeforeUse == Spec => []BackedUnlessStale
  <1>1. IInv => BackedUnlessStale
    BY DEF IInv, Touched, BackedUnlessStale
  <1>. QED
    BY <1>1, Invariance, PTL

(***************************************************************************)
(* Between calls the counters and the set agree, exactly when no two        *)
(* inserts overlapped, and otherwise reuse is never overstated.            *)
(***************************************************************************)
THEOREM ReuseIsCounted == Spec => []CountersAgree
  <1>1. IInv => CountersAgree
    <2>. SUFFICES ASSUME IInv, \A t \in Threads : pc[t] = "idle"
                  PROVE  /\ total = calls
                         /\ Cardinality(allocated) + hit <= total
                         /\ ~raced => Cardinality(allocated) + hit = total
      BY DEF CountersAgree
    <2>. USE DEF IInv
    <2>1. Known = allocated
      BY DEF Known, Shape
    <2>2. At(pc, Stages \ {"idle"}) = {} /\ At(pc, {"memset", "total"}) = {}
      BY DEF At
    <2>3. Active = 0 /\ Counting = 0
      BY <2>2, FS_EmptySet DEF Active, Counting
    <2>4. Cardinality(Known) = Cardinality(allocated)
      BY <2>1
    <2>. QED
      BY <2>3, <2>4, CountTypes DEF Counted
  <1>. QED
    BY <1>1, Invariance, PTL

-----------------------------------------------------------------------------
(* The scope: the kinds of step of its constructors, and those of them that *)
(* acquire something.                                                      *)
Bindings == {"bind_eq", "bind_rx_cq", "bind_tx_cq"}
Kinds == {"hints", "base", "query", "fabric", "domain", "av", "wait",
          "eq", "eq_fd", "rx_cq", "rx_cq_fd", "tx_cq", "tx_cq_fd", "pep", "ep",
          "memory", "lock", "mr", "buffer", "copy"} \cup Bindings
Acquiring == Kinds \ ({"copy", "buffer", "eq_fd", "rx_cq_fd", "tx_cq_fd"} \cup Bindings)

(* One of the first n steps of s is of this kind. *)
Taken(s, kind, n) == \E i \in 1 .. n : Ctor[s][i] = kind

ScopeShape ==
    /\ steps \in [Slots -> Nat]
    /\ \A s \in Slots : steps[s] <= Len(Ctor[s])
    /\ building \in Slots \cup {Nobody}
    /\ open \subseteq Slots \X (Kinds \cup {"overflow"})
    /\ uses \subseteq open \X open
    /\ descriptor \in
            [Polled -> {"none", "queue", "both", "stale", "closed", "twice"}]
    /\ reader \in [Queues -> {"none", "waiting", "posted"}]
    /\ phase \in {"setup", "running", "ending", "over"}
    /\ size \in MessageSizes
    /\ next \in Nat
    /\ placed \in [Endpoints -> {"none", "region", "upstream"}]
    /\ posted \subseteq Endpoints

Begun(s) == steps[s] > 0 \/ building = s

(* A variable that is no pointer is there before anything declared after    *)
(* it, and until nothing declared after it is left.                        *)
InOrder ==
    \A s \in Slots, r \in Slots \ Pointers :
        Begun(s) /\ Position[r] < Position[s] => Built(r)

(* The constructor of a copy of the region neither throws nor outlives the  *)
(* resource it copies from.                                                *)
Constructing ==
    /\ building # Nobody => steps[building] < Len(Ctor[building])
    /\ building = "region" => phase \in {"setup", "running"} /\ steps["pmr"] = 4
    /\ phase = "over" => building = Nobody /\ \A s \in Slots : steps[s] = 0

(* What is open follows from the steps that stand; the region also from its *)
(* copy.  The hints of the info, and the memory and the lock of the         *)
(* registered resource, may be open for longer.                            *)
OpenExact ==
    /\ \A s \in Slots \ {"info", "pmr"}, kind \in Kinds \cup {"overflow"} :
            Resource(s, kind) \in open
                <=> kind \in Acquiring /\ Taken(s, kind, steps[s])
    /\ \A kind \in Kinds \cup {"overflow"} :
            Resource("info", kind) \in open => kind \in {"base", "query"}
    /\ Resource("info", "query") \in open <=> steps["info"] = 2
    /\ \A kind \in Kinds \cup {"overflow"} :
            Resource("pmr", kind) \in open => kind \in {"memory", "lock", "mr", "overflow"}
    /\ Mr \in open <=> steps["pmr"] >= 3 \/ steps["region"] = 1
    /\ Overflow \in open => steps["pmr"] = 4

(* Who may still refer to the memory: nothing ever gives it back. *)
MemoryStays ==
    \/ Begun("region") \/ steps["pmr"] > 0
    \/ \E s \in Endpoints : placed[s] # "none"
    => Memory \in open

(* r is acquired before u, and given back after it: by an earlier step of   *)
(* the same endpoint, or by the info, the fabric or the domain, which are   *)
(* declared before.                                                        *)
Precedes(r, u) ==
    \/ \E s \in Endpoints \cup {"pep"} : \E i, j \in 1 .. Len(Ctor[s]) :
          i < j /\ r = Resource(s, Ctor[s][i]) /\ u = Resource(s, Ctor[s][j])
    \/ /\ r \in {Resource("info", "query"), Fabric, Domain}
       /\ Position[r[1]] < Position[u[1]]
       /\ u[2] \notin {"memory", "lock", "overflow"}

UsesOrdered ==
    \A p \in uses : Precedes(p[2], p[1])

(* A descriptor is there as long as its queue, also when its number is      *)
(* stale, and has two owners only while the step of the stream_descriptor   *)
(* stands.                                                                 *)
DescriptorsExact ==
    \A q \in Polled :
        /\ q \in open <=> descriptor[q] \in {"queue", "both", "stale"}
        /\ \A s \in Slots, kind \in Kinds :
              q \in Described(s, kind) /\ descriptor[q] = "both" => Taken(s, kind, steps[s])

(* A reader that waits has a stream_descriptor that stands; one that is     *)
(* posted has it before the end of run().                                  *)
WaitsOwned ==
    \A q \in Queues :
        /\ \/ reader[q] = "waiting"
           \/ reader[q] = "posted" /\ phase \in {"setup", "running"}
           => descriptor[q] = "both"
        /\ descriptor[q] = "both" => reader[q] # "none"

(* Buffers are placed when pmr stands, and what did not fit goes with it. *)
OverflowHeld ==
    \A s \in Endpoints : placed[s] # "none" =>
        /\ steps["pmr"] = 4 \/ phase \in {"ending", "over"}
        /\ placed[s] = "upstream" /\ steps["pmr"] = 4 => Overflow \in open

(* The buffers are placed in order, so the end of the first decides whether *)
(* the second fits.                                                        *)
BuffersPlaced ==
    /\ placed["endpoint"] = "none" => next = 0 /\ placed["ctrl_endpoint"] = "none"
    /\ placed["endpoint"] # "none" /\ placed["ctrl_endpoint"] = "none" =>
          next = IF size = 0 THEN 1 ELSE size
    /\ next <= size + ControlSize
    /\ placed["endpoint"] # "upstream"
    /\ placed["ctrl_endpoint"] # "none" =>
            (placed["ctrl_endpoint"] = "region" <=> size # 0 /\ size % Alignment = 0)

(* The inductive invariant. *)
ScopeInv ==
    /\ ScopeShape /\ InOrder /\ Constructing /\ OpenExact /\ MemoryStays
    /\ UsesOrdered /\ DescriptorsExact /\ WaitsOwned /\ OverflowHeld /\ BuffersPlaced
    /\ refused = {}

-----------------------------------------------------------------------------
(* The tables of the scope. *)

LEMMA ScopeFacts ==
    /\ Len(Scope) = 11
    /\ Scope[1] = "hints"
    /\ Scope[2] = "info"
    /\ Scope[3] = "fabric"
    /\ Scope[4] = "domain"
    /\ Scope[5] = "pep"
    /\ Scope[6] = "endpoint"
    /\ Scope[7] = "ctrl_endpoint"
    /\ Scope[8] = "region"
    /\ Scope[9] = "pmr"
    /\ Scope[10] = "av"
    /\ Scope[11] = "waitset"
  BY DEF Scope

LEMMA SlotNames ==
    Slots = {"hints", "info", "fabric", "domain", "pep", "endpoint",
             "ctrl_endpoint", "region", "pmr", "av", "waitset"}
  <1>. DEFINE Names == {"hints", "info", "fabric", "domain", "pep", "endpoint",
                          "ctrl_endpoint", "region", "pmr", "av", "waitset"}
  <1>1. ASSUME NEW s \in Slots
        PROVE  s \in Names
    <2>1. PICK i \in 1 .. 11 : s = Scope[i]
      BY ScopeFacts DEF Slots
    <2>2. i \in {1, 2, 3, 4, 5, 6, 7, 8, 9, 10, 11}
      OBVIOUS
    <2>. QED
      BY <2>1, <2>2, ScopeFacts
  <1>2. ASSUME NEW s \in Names
        PROVE  s \in Slots
    BY ScopeFacts DEF Slots
  <1>. QED
    BY <1>1, <1>2

LEMMA Positions ==
    /\ Position["hints"] = 1
    /\ Position["info"] = 2
    /\ Position["fabric"] = 3
    /\ Position["domain"] = 4
    /\ Position["pep"] = 5
    /\ Position["endpoint"] = 6
    /\ Position["ctrl_endpoint"] = 7
    /\ Position["region"] = 8
    /\ Position["pmr"] = 9
    /\ Position["av"] = 10
    /\ Position["waitset"] = 11
  <1>1. ASSUME NEW s \in Slots
        PROVE  Position[s] \in 1 .. 11 /\ Scope[Position[s]] = s
    <2>1. \E i \in 1 .. Len(Scope) : Scope[i] = s
      BY DEF Slots
    <2>2. Position[s] = CHOOSE i \in 1 .. Len(Scope) : Scope[i] = s
      BY DEF Position
    <2>3. Position[s] \in 1 .. Len(Scope) /\ Scope[Position[s]] = s
      BY <2>1, <2>2
    <2>. QED
      BY <2>3, ScopeFacts
  <1>2. \A i, j \in 1 .. 11 : Scope[i] = Scope[j] => i = j
    <2>1. \A i \in 1 .. 11 : i \in {1, 2, 3, 4, 5, 6, 7, 8, 9, 10, 11}
      OBVIOUS
    <2>. QED
      BY <2>1, ScopeFacts
  <1>. QED
    BY <1>1, <1>2, ScopeFacts, SlotNames

(* Constructors built from those of the members. *)
LEMMA PassiveCtor ==
    /\ Len(passive_endpoint_ctor) = 4
    /\ passive_endpoint_ctor[1] = "eq" /\ passive_endpoint_ctor[2] = "eq_fd"
    /\ passive_endpoint_ctor[3] = "pep" /\ passive_endpoint_ctor[4] = "bind_eq"
  BY DEF passive_endpoint_ctor, event_queue_ctor

LEMMA EndpointCtor ==
    /\ Len(connected_endpoint_ctor) = 10
    /\ connected_endpoint_ctor[1] = "eq" /\ connected_endpoint_ctor[2] = "eq_fd"
    /\ connected_endpoint_ctor[3] = "rx_cq" /\ connected_endpoint_ctor[4] = "rx_cq_fd"
    /\ connected_endpoint_ctor[5] = "tx_cq" /\ connected_endpoint_ctor[6] = "tx_cq_fd"
    /\ connected_endpoint_ctor[7] = "ep" /\ connected_endpoint_ctor[8] = "bind_eq"
    /\ connected_endpoint_ctor[9] = "bind_rx_cq"
    /\ connected_endpoint_ctor[10] = "bind_tx_cq"
  BY DEF connected_endpoint_ctor, event_queue_ctor, rx_cq_ctor, tx_cq_ctor

LEMMA Ctors ==
    /\ Ctor["hints"] = <<"hints">>
    /\ Ctor["info"] = <<"base", "query">>
    /\ Ctor["fabric"] = <<"fabric">>
    /\ Ctor["domain"] = <<"domain">>
    /\ Ctor["pep"] = passive_endpoint_ctor
    /\ \A s \in Endpoints : Ctor[s] = connected_endpoint_ctor
    /\ Ctor["region"] = <<"copy">>
    /\ Ctor["pmr"] = <<"memory", "lock", "mr", "buffer">>
    /\ Ctor["av"] = <<"av">>
    /\ Ctor["waitset"] = <<"wait">>
  BY SlotNames DEF Ctor, Endpoints, hints_ctor, info_ctor, fabric_ctor, domain_ctor,
     registered_memory_resource_ctor, address_vector_ctor, waitset_ctor

LEMMA KindNames ==
    /\ "hints" \in Kinds
    /\ "base" \in Kinds
    /\ "query" \in Kinds
    /\ "fabric" \in Kinds
    /\ "domain" \in Kinds
    /\ "av" \in Kinds
    /\ "wait" \in Kinds
    /\ "eq" \in Kinds
    /\ "eq_fd" \in Kinds
    /\ "rx_cq" \in Kinds
    /\ "rx_cq_fd" \in Kinds
    /\ "tx_cq" \in Kinds
    /\ "tx_cq_fd" \in Kinds
    /\ "pep" \in Kinds
    /\ "ep" \in Kinds
    /\ "memory" \in Kinds
    /\ "lock" \in Kinds
    /\ "mr" \in Kinds
    /\ "buffer" \in Kinds
    /\ "copy" \in Kinds
    /\ "bind_eq" \in Kinds
    /\ "bind_rx_cq" \in Kinds
    /\ "bind_tx_cq" \in Kinds
  BY DEF Kinds, Bindings

LEMMA CtorTypes ==
    ASSUME NEW s \in Slots
    PROVE  /\ Len(Ctor[s]) \in Nat \ {0}
           /\ \A i \in 1 .. Len(Ctor[s]) : Ctor[s][i] \in Kinds
  <1>1. CASE s \in Endpoints
    <2>1. \A i \in 1 .. 10 : i \in {1, 2, 3, 4, 5, 6, 7, 8, 9, 10}
      OBVIOUS
    <2>2. \A i \in {1, 2, 3, 4, 5, 6, 7, 8, 9, 10} : connected_endpoint_ctor[i] \in Kinds
      BY EndpointCtor, KindNames
    <2>3. Ctor[s] = connected_endpoint_ctor
      BY <1>1, Ctors
    <2>. QED
      BY <2>1, <2>2, <2>3, EndpointCtor
  <1>2. CASE s = "pep"
    <2>1. \A i \in 1 .. 4 : i \in {1, 2, 3, 4}
      OBVIOUS
    <2>. QED
      BY <1>2, <2>1, Ctors, PassiveCtor, KindNames
  <1>3. CASE s = "pmr"
    <2>1. \A i \in 1 .. 4 : i \in {1, 2, 3, 4}
      OBVIOUS
    <2>. QED
      BY <1>3, <2>1, Ctors, KindNames
  <1>4. CASE s = "info"
    BY <1>4, Ctors, KindNames
  <1>5. CASE s \in {"hints", "fabric", "domain", "region", "av", "waitset"}
    BY <1>5, Ctors, KindNames
  <1>. QED
    BY <1>1, <1>2, <1>3, <1>4, <1>5, SlotNames DEF Endpoints

(* No constructor takes the same step twice. *)
LEMMA CtorInjective ==
    ASSUME NEW s \in Slots, NEW i \in 1 .. Len(Ctor[s]), NEW j \in 1 .. Len(Ctor[s]),
           Ctor[s][i] = Ctor[s][j]
    PROVE  i = j
  <1>1. CASE s \in Endpoints
    <2>1. Ctor[s] = connected_endpoint_ctor
      BY <1>1, Ctors
    <2>2. i \in {1, 2, 3, 4, 5, 6, 7, 8, 9, 10} /\ j \in {1, 2, 3, 4, 5, 6, 7, 8, 9, 10}
      BY <2>1, EndpointCtor
    <2>. QED
      BY <2>1, <2>2, EndpointCtor
  <1>2. CASE s = "pep"
    <2>1. i \in {1, 2, 3, 4} /\ j \in {1, 2, 3, 4}
      BY <1>2, Ctors, PassiveCtor
    <2>. QED
      BY <1>2, <2>1, Ctors, PassiveCtor
  <1>3. CASE s \notin Endpoints \cup {"pep"}
    BY <1>3, SlotNames, Ctors DEF Endpoints
  <1>. QED
    BY <1>1, <1>2, <1>3

LEMMA AcquiredOne ==
    ASSUME NEW s \in Slots, NEW kind \in Kinds
    PROVE  Acquired(s, kind) = IF kind \in Acquiring THEN {Resource(s, kind)} ELSE {}
  <1>1. BoundTo(kind) # {} <=> kind \in Bindings
    BY DEF BoundTo, Bindings
  <1>2. Described(s, kind) # {} <=> kind \in {"eq_fd", "rx_cq_fd", "tx_cq_fd"}
    BY DEF Described
  <1>. QED
    BY <1>1, <1>2 DEF Acquired, Acquiring

(* A queue with a descriptor, and the step that makes the stream_descriptor. *)
LEMMA PolledBy ==
    ASSUME NEW q \in Polled
    PROVE  /\ q = Resource(q[1], q[2]) /\ q[1] \in Endpoints \cup {"pep"}
           /\ q[2] \in {"eq", "rx_cq", "tx_cq"} /\ q[2] \in Acquiring
           /\ q[1] \in Slots \ {"info", "pmr", "region"}
  <1>1. PICK s \in Endpoints \cup {"pep"}, kind \in {"eq", "rx_cq", "tx_cq"} :
          q = Resource(s, kind)
    BY DEF Polled, Queues, EventQueues
  <1>2. q[1] = s /\ q[2] = kind
    BY <1>1 DEF Resource
  <1>. QED
    BY <1>1, <1>2, SlotNames, KindNames DEF Endpoints, Acquiring, Bindings

LEMMA DescribedBy ==
    ASSUME NEW s \in Slots, NEW kind \in Kinds, NEW q \in Described(s, kind)
    PROVE  /\ q[1] = s
           /\ \/ kind = "eq_fd" /\ q[2] = "eq"
              \/ kind = "rx_cq_fd" /\ q[2] = "rx_cq"
              \/ kind = "tx_cq_fd" /\ q[2] = "tx_cq"
           /\ q = Resource(s, q[2])
           /\ Acquired(s, kind) = {}
  <1>1. \/ kind = "eq_fd" /\ q = Resource(s, "eq")
        \/ kind = "rx_cq_fd" /\ q = Resource(s, "rx_cq")
        \/ kind = "tx_cq_fd" /\ q = Resource(s, "tx_cq")
    BY DEF Described
  <1>2. Acquired(s, kind) = {}
    BY DEF Acquired
  <1>. QED
    BY <1>1, <1>2 DEF Resource

LEMMA OwnedTaken ==
    ASSUME NEW s \in Slots, NEW n \in 0 .. Len(Ctor[s]), NEW r
    PROVE  r \in AcquiredBy[s][n] <=>
             \E kind \in Acquiring : r = Resource(s, kind) /\ Taken(s, kind, n)
  <1>1. AcquiredBy[s][n] = UNION {Acquired(s, Ctor[s][i]) : i \in 1 .. n}
    BY DEF AcquiredBy
  <1>2. \A i \in 1 .. n : i \in 1 .. Len(Ctor[s]) /\ Ctor[s][i] \in Kinds
    BY CtorTypes
  <1>3. r \in AcquiredBy[s][n] <=> \E i \in 1 .. n : r \in Acquired(s, Ctor[s][i])
    BY <1>1
  <1>4. \A i \in 1 .. n : r \in Acquired(s, Ctor[s][i]) <=>
                            Ctor[s][i] \in Acquiring /\ r = Resource(s, Ctor[s][i])
    BY <1>2, AcquiredOne
  <1>. QED
    BY <1>3, <1>4 DEF Taken

(* What a step takes to itself, and what the steps before it took. *)
LEMMA TakenStep ==
    ASSUME NEW s \in Slots, NEW n \in 1 .. Len(Ctor[s]), NEW kind
    PROVE  /\ Taken(s, kind, n) <=> Taken(s, kind, n - 1) \/ kind = Ctor[s][n]
           /\ ~ Taken(s, Ctor[s][n], n - 1)
  <1>1. Len(Ctor[s]) \in Nat
    BY CtorTypes
  <1>2. 1 .. n = 1 .. n - 1 \cup {n}
    OBVIOUS
  <1>3. \A i \in 1 .. n - 1 : i \in 1 .. Len(Ctor[s]) /\ i # n
    BY <1>1
  <1>. QED
    BY <1>2, <1>3, CtorInjective DEF Taken

LEMMA Uses ==
    ASSUME NEW s \in Slots, NEW kind \in Kinds, NEW p \in UsePairs(s, kind)
    PROVE  \/ /\ kind = "fabric"
              /\ p = <<Resource(s, kind), Resource("info", "query")>>
           \/ /\ kind \in {"eq", "wait", "domain", "pep"}
              /\ p = <<Resource(s, kind), Fabric>>
           \/ /\ kind \in {"rx_cq", "tx_cq", "ep", "av", "mr"}
              /\ p = <<Resource(s, kind), Domain>>
           \/ \E own \in {"pep", "ep"}, q \in {"eq", "rx_cq", "tx_cq"} :
                 /\ own = "pep" <=> s = "pep"
                 /\ \/ kind = "bind_eq" /\ q = "eq"
                    \/ kind = "bind_rx_cq" /\ q = "rx_cq"
                    \/ kind = "bind_tx_cq" /\ q = "tx_cq"
                 /\ p = <<Resource(s, own), Resource(s, q)>>
  <1>1. CASE p \in Acquired(s, kind) \X Used(s, kind)
    <2>1. p = <<p[1], p[2]>> /\ p[1] \in Acquired(s, kind) /\ p[2] \in Used(s, kind)
      BY <1>1
    <2>2. p[1] = Resource(s, kind)
      BY <2>1 DEF Acquired
    <2>3. \/ kind = "fabric" /\ p[2] = Resource("info", "query")
          \/ kind \in {"eq", "wait", "domain", "pep"} /\ p[2] = Fabric
          \/ kind \in {"rx_cq", "tx_cq", "ep", "av", "mr"} /\ p[2] = Domain
      BY <2>1 DEF Used
    <2>. QED
      BY <2>1, <2>2, <2>3
  <1>2. CASE p \notin Acquired(s, kind) \X Used(s, kind)
    <2>1. PICK q \in BoundTo(kind) :
            p = <<Resource(s, IF s = "pep" THEN "pep" ELSE "ep"), Resource(s, q)>>
      BY <1>2 DEF UsePairs
    <2>2. \/ kind = "bind_eq" /\ q = "eq"
          \/ kind = "bind_rx_cq" /\ q = "rx_cq"
          \/ kind = "bind_tx_cq" /\ q = "tx_cq"
      BY DEF BoundTo
    <2>. QED
      BY <2>1, <2>2
  <1>. QED
    BY <1>1, <1>2

(* Where the steps of a kind are. *)
LEMMA Places ==
    ASSUME NEW s \in Slots, NEW n \in 1 .. Len(Ctor[s])
    PROVE  /\ Ctor[s][n] = "fabric" => s = "fabric"
           /\ Ctor[s][n] = "domain" => s = "domain"
           /\ Ctor[s][n] = "wait" => s = "waitset"
           /\ Ctor[s][n] = "av" => s = "av"
           /\ Ctor[s][n] = "mr" => s = "pmr" /\ n = 3
           /\ Ctor[s][n] \in {"base", "query"} => s = "info"
           /\ Ctor[s][n] \in {"memory", "lock", "buffer"} => s = "pmr"
           /\ Ctor[s][n] = "copy" => s = "region"
           /\ Ctor[s][n] \in {"eq", "eq_fd", "pep", "ep", "rx_cq", "tx_cq"} \cup Bindings
                 => s \in Endpoints \cup {"pep"}
           /\ Ctor[s][n] = "pep" => s = "pep" /\ n = 3
           /\ Ctor[s][n] = "eq" => n = 1
           /\ Ctor[s][n] = "eq_fd" => n = 2
           /\ Ctor[s][n] = "bind_eq" => n = IF s = "pep" THEN 4 ELSE 8
           /\ Ctor[s][n] = "rx_cq" => s \in Endpoints /\ n = 3
           /\ Ctor[s][n] = "rx_cq_fd" => s \in Endpoints /\ n = 4
           /\ Ctor[s][n] = "tx_cq" => s \in Endpoints /\ n = 5
           /\ Ctor[s][n] = "tx_cq_fd" => s \in Endpoints /\ n = 6
           /\ Ctor[s][n] = "ep" => s \in Endpoints /\ n = 7
           /\ Ctor[s][n] = "bind_rx_cq" => s \in Endpoints /\ n = 9
           /\ Ctor[s][n] = "bind_tx_cq" => s \in Endpoints /\ n = 10
  <1>1. CASE s \in Endpoints
    <2>1. Ctor[s] = connected_endpoint_ctor
      BY <1>1, Ctors
    <2>2. n \in {1, 2, 3, 4, 5, 6, 7, 8, 9, 10}
      BY <2>1, EndpointCtor
    <2>. QED
      BY <1>1, <2>1, <2>2, EndpointCtor DEF Endpoints, Bindings
  <1>2. CASE s = "pep"
    <2>1. Ctor[s] = passive_endpoint_ctor
      BY <1>2, Ctors
    <2>2. n \in {1, 2, 3, 4}
      BY <2>1, PassiveCtor
    <2>. QED
      BY <1>2, <2>1, <2>2, PassiveCtor DEF Endpoints, Bindings
  <1>3. CASE s = "pmr"
    <2>1. n \in {1, 2, 3, 4}
      BY <1>3, Ctors
    <2>. QED
      BY <1>3, <2>1, Ctors DEF Bindings
  <1>4. CASE s \in {"info", "hints", "fabric", "domain", "region", "av", "waitset"}
    BY <1>4, Ctors DEF Bindings
  <1>. QED
    BY <1>1, <1>2, <1>3, <1>4, SlotNames DEF Endpoints

(* A step uses what the same constructor acquired before, or an object that *)
(* was declared before.                                                    *)
UsesEarlier(s, n, p) ==
    \E j \in 1 .. n :
        /\ p = <<Resource(s, Ctor[s][j]), p[2]>> /\ Ctor[s][j] \in Acquiring
        /\ \/ /\ s \in Endpoints \cup {"pep"}
              /\ \E i \in 1 .. j - 1 : /\ p[2] = Resource(s, Ctor[s][i])
                                       /\ Ctor[s][i] \in Acquiring
           \/ /\ \/ p[2] = Resource("info", "query") /\ s = "fabric"
                 \/ p[2] = Fabric /\ s \in {"domain", "pep", "waitset"} \cup Endpoints
                 \/ p[2] = Domain /\ s \in {"av", "pmr"} \cup Endpoints
              /\ Ctor[s][j] \notin {"memory", "lock"}

LEMMA StepUses ==
    ASSUME NEW s \in Slots, NEW n \in 1 .. Len(Ctor[s]), NEW p \in UsePairs(s, Ctor[s][n])
    PROVE  UsesEarlier(s, n, p)
  <1>. USE DEF UsesEarlier
  <1>1. Len(Ctor[s]) \in Nat /\ n \in Nat /\ n <= Len(Ctor[s]) /\ n \in 1 .. n
    BY CtorTypes
  <1>2. {"fabric", "eq", "wait", "domain", "pep", "rx_cq", "tx_cq", "ep", "av", "mr"}
            \subseteq Acquiring
    BY KindNames DEF Acquiring, Bindings
  <1>3. CASE /\ Ctor[s][n] = "fabric"
             /\ p = <<Resource(s, Ctor[s][n]), Resource("info", "query")>>
    BY <1>1, <1>2, <1>3, Places
  <1>4. CASE /\ Ctor[s][n] \in {"eq", "wait", "domain", "pep"}
             /\ p = <<Resource(s, Ctor[s][n]), Fabric>>
    BY <1>1, <1>2, <1>4, Places
  <1>5. CASE /\ Ctor[s][n] \in {"rx_cq", "tx_cq", "ep", "av", "mr"}
             /\ p = <<Resource(s, Ctor[s][n]), Domain>>
    BY <1>1, <1>2, <1>5, Places
  <1>6. ASSUME NEW i \in 1 .. n, NEW j \in 1 .. n, i < j, s \in Endpoints \cup {"pep"},
               Ctor[s][i] \in Acquiring, Ctor[s][j] \in Acquiring,
               p = <<Resource(s, Ctor[s][j]), Resource(s, Ctor[s][i])>>
        PROVE  \E k \in 1 .. n :
             /\ p = <<Resource(s, Ctor[s][k]), p[2]>> /\ Ctor[s][k] \in Acquiring
             /\ s \in Endpoints \cup {"pep"}
             /\ \E l \in 1 .. k - 1 : /\ p[2] = Resource(s, Ctor[s][l])
                                      /\ Ctor[s][l] \in Acquiring
    BY <1>6
  <1>7. /\ s \in Endpoints \cup {"pep"} => Ctor[s][1] = "eq" /\ Ctor[s][2] = "eq_fd"
        /\ s = "pep" => Ctor[s][3] = "pep"
        /\ s \in Endpoints => /\ Ctor[s][3] = "rx_cq" /\ Ctor[s][4] = "rx_cq_fd"
                              /\ Ctor[s][5] = "tx_cq" /\ Ctor[s][6] = "tx_cq_fd"
                              /\ Ctor[s][7] = "ep"
    BY Ctors, EndpointCtor, PassiveCtor
  <1>11. ASSUME NEW own \in {"pep", "ep"}, NEW q \in {"eq", "rx_cq", "tx_cq"},
                own = "pep" <=> s = "pep",
                \/ Ctor[s][n] = "bind_eq" /\ q = "eq"
                \/ Ctor[s][n] = "bind_rx_cq" /\ q = "rx_cq"
                \/ Ctor[s][n] = "bind_tx_cq" /\ q = "tx_cq",
                p = <<Resource(s, own), Resource(s, q)>>
         PROVE  \E j \in 1 .. n :
                  /\ p = <<Resource(s, Ctor[s][j]), p[2]>> /\ Ctor[s][j] \in Acquiring
                  /\ s \in Endpoints \cup {"pep"}
                  /\ \E i \in 1 .. j - 1 : /\ p[2] = Resource(s, Ctor[s][i])
                                           /\ Ctor[s][i] \in Acquiring
    <2>1. CASE s = "pep"
      <3>1. n = 4 /\ q = "eq" /\ own = "pep"
        BY <1>11, <2>1, Places DEF Endpoints
      <3>. QED
        BY <1>1, <1>2, <1>6, <1>7, <1>11, <2>1, <3>1
    <2>2. CASE s # "pep"
      <3>1. s \in Endpoints /\ n \in {8, 9, 10} /\ own = "ep"
        BY <1>11, <2>2, Places DEF Bindings
      <3>2. PICK i \in {1, 3, 5} : Ctor[s][i] = q
        BY <1>7, <1>11, <3>1
      <3>3. /\ 7 \in 1 .. n /\ i \in 1 .. n /\ i < 7
            /\ Ctor[s][7] = own /\ Ctor[s][7] \in Acquiring /\ Ctor[s][i] \in Acquiring
        BY <1>1, <1>2, <1>7, <3>1, <3>2
      <3>4. p = <<Resource(s, Ctor[s][7]), Resource(s, Ctor[s][i])>>
        BY <1>11, <3>2, <3>3
      <3>. QED
        BY <1>6, <3>1, <3>3, <3>4
    <2>. QED
      BY <2>1, <2>2
  <1>12. Ctor[s][n] \in Kinds
    BY CtorTypes
  <1>. QED
    BY <1>3, <1>4, <1>5, <1>11, <1>12, Uses

-----------------------------------------------------------------------------
(* What the invariant says of one slot. *)

LEMMA Counts ==
    ASSUME ScopeShape, NEW s \in Slots
    PROVE  steps[s] \in Nat /\ Len(Ctor[s]) \in Nat \ {0} /\ steps[s] <= Len(Ctor[s])
  BY CtorTypes DEF ScopeShape

LEMMA AcquiredOpen ==
    ASSUME ScopeShape, OpenExact, NEW s \in Slots \ {"info"}, NEW j \in 1 .. steps[s],
           Ctor[s][j] \in Acquiring, Ctor[s][j] \notin {"memory", "lock"}
    PROVE  Resource(s, Ctor[s][j]) \in open
  <1>1. j \in 1 .. Len(Ctor[s]) /\ j <= steps[s] /\ j \in Nat /\ steps[s] \in Nat
    BY Counts
  <1>2. CASE s = "pmr"
    <2>1. Ctor[s][j] = "mr"
      <3>1. j \in {1, 2, 3, 4}
        BY <1>1, <1>2, Ctors
      <3>. QED
        BY <1>2, <3>1, Ctors DEF Acquiring
    <2>2. j = 3
      BY <1>1, <2>1, Places
    <2>. QED
      BY <1>1, <1>2, <2>1, <2>2 DEF OpenExact, Mr
  <1>3. CASE s # "pmr"
    BY <1>3, CtorTypes DEF OpenExact, Taken, Acquiring
  <1>. QED
    BY <1>2, <1>3

(* The queue that a stream_descriptor is constructed for stands. *)
LEMMA DescribedOpen ==
    ASSUME ScopeShape, OpenExact, NEW s \in Slots, NEW m \in 1 .. Len(Ctor[s]),
           m = steps[s] \/ m = steps[s] + 1, NEW q \in Described(s, Ctor[s][m])
    PROVE  q \in open /\ s \in Endpoints \cup {"pep"}
  <1>1. steps[s] \in Nat /\ m \in Nat /\ Ctor[s][m] \in Kinds
    BY Counts, CtorTypes
  <1>2. /\ q = Resource(s, q[2])
        /\ \/ Ctor[s][m] = "eq_fd" /\ q[2] = "eq"
           \/ Ctor[s][m] = "rx_cq_fd" /\ q[2] = "rx_cq"
           \/ Ctor[s][m] = "tx_cq_fd" /\ q[2] = "tx_cq"
    BY <1>1, DescribedBy
  <1>3. /\ s \in Endpoints \cup {"pep"}
        /\ \/ m = 2 /\ q[2] = "eq"
           \/ m = 4 /\ q[2] = "rx_cq" /\ s \in Endpoints
           \/ m = 6 /\ q[2] = "tx_cq" /\ s \in Endpoints
    BY <1>2, Places
  <1>4. /\ Ctor[s][1] = "eq"
        /\ s \in Endpoints => Ctor[s][3] = "rx_cq" /\ Ctor[s][5] = "tx_cq"
    BY <1>3, Ctors, EndpointCtor, PassiveCtor
  <1>5. PICK j \in 1 .. steps[s] : Ctor[s][j] = q[2]
    <2>1. CASE m = 2
      BY <1>1, <1>3, <1>4, <2>1
    <2>2. CASE m = 4
      BY <1>1, <1>3, <1>4, <2>2
    <2>3. CASE m = 6
      BY <1>1, <1>3, <1>4, <2>3
    <2>. QED
      BY <1>3, <2>1, <2>2, <2>3
  <1>6. q[2] \in Acquiring /\ q[2] \notin {"memory", "lock"} /\ s # "info"
    BY <1>3, KindNames DEF Acquiring, Bindings, Endpoints
  <1>. QED
    BY <1>2, <1>3, <1>5, <1>6, AcquiredOpen

LEMMA ObjectsOpen ==
    ASSUME ScopeShape, OpenExact
    PROVE  /\ Built("info") => Resource("info", "query") \in open
           /\ Built("fabric") => Fabric \in open
           /\ Built("domain") => Domain \in open
  <1>1. Built("info") => steps["info"] = 2
    BY Ctors DEF Built
  <1>2. Built("fabric") => steps["fabric"] = 1 /\ Ctor["fabric"][1] = "fabric"
    BY Ctors DEF Built
  <1>3. Built("domain") => steps["domain"] = 1 /\ Ctor["domain"][1] = "domain"
    BY Ctors DEF Built
  <1>4. "fabric" \in Acquiring /\ "domain" \in Acquiring
    BY KindNames DEF Acquiring, Bindings
  <1>. QED
    BY <1>1, <1>2, <1>3, <1>4, AcquiredOpen, SlotNames DEF OpenExact, Fabric, Domain

(* A resource that is not of an info, and whose last owner is not gone,     *)
(* belongs to a slot that stands at or after its own.                      *)
LEMMA OpenStands ==
    ASSUME ScopeShape, OpenExact, NEW u \in open, u[1] # "info",
           u[2] \notin {"memory", "lock", "overflow"}
    PROVE  /\ u[1] \in Slots
           /\ \/ steps[u[1]] > 0
              \/ u[1] = "pmr" /\ steps["region"] > 0
  <1>1. u[1] \in Slots /\ u[2] \in Kinds \cup {"overflow"} /\ u = Resource(u[1], u[2])
    BY DEF ScopeShape, Resource
  <1>2. steps[u[1]] \in Nat
    BY <1>1, Counts
  <1>3. CASE u[1] = "pmr"
    <2>1. u = Mr
      BY <1>1, <1>3 DEF OpenExact, Mr, Resource
    <2>. QED
      BY <1>1, <1>2, <1>3, <2>1 DEF OpenExact
  <1>4. CASE u[1] # "pmr"
    <2>1. Taken(u[1], u[2], steps[u[1]])
      BY <1>1, <1>4 DEF OpenExact
    <2>. QED
      BY <1>1, <1>2, <2>1 DEF Taken
  <1>. QED
    BY <1>3, <1>4

-----------------------------------------------------------------------------
(* The invariant is inductive: one lemma for each action. *)

LEMMA InitHolds ==
    ScopeInit => ScopeInv
  <1>. SUFFICES ASSUME ScopeInit PROVE ScopeInv
    OBVIOUS
  <1>. USE DEF ScopeInit
  <1>1. \A s \in Slots : steps[s] = 0 /\ Len(Ctor[s]) \in Nat \ {0}
    BY CtorTypes
  <1>2. ScopeShape
    BY <1>1, SizesAssumption DEF ScopeShape
  <1>3. InOrder /\ Constructing
    BY <1>1, SizesAssumption, SlotNames DEF InOrder, Constructing, Begun
  <1>4. OpenExact
    BY <1>1, SlotNames DEF OpenExact, Taken
  <1>5. MemoryStays
    BY <1>1, SlotNames, SizesAssumption DEF MemoryStays, Begun, Endpoints
  <1>6. UsesOrdered /\ DescriptorsExact /\ WaitsOwned /\ OverflowHeld
    <2>1. \A q \in Queues : q \in Polled
      BY DEF Polled
    <2>. QED
      BY <2>1 DEF UsesOrdered, DescriptorsExact, WaitsOwned, OverflowHeld
  <1>7. BuffersPlaced
    BY SizesAssumption DEF BuffersPlaced, Endpoints
  <1>. QED
    BY <1>2, <1>3, <1>4, <1>5, <1>6, <1>7 DEF ScopeInv

(* A resource a step acquires may be what this slot or an earlier one uses. *)
LEMMA OrderOfUse ==
    ASSUME ScopeInv, NEW s \in Slots, building = s, NEW m \in 1 .. Len(Ctor[s]),
           m = steps[s] + 1, NEW p \in UsePairs(s, Ctor[s][m])
    PROVE  /\ p \in (open \cup Acquired(s, Ctor[s][m])) \X (open \cup Acquired(s, Ctor[s][m]))
           /\ Precedes(p[2], p[1])
  <1>. DEFINE n == steps[s]
              kind == Ctor[s][m]
              open1 == open \cup Acquired(s, kind)
  <1>. USE DEF ScopeInv
  <1>1. n \in Nat /\ m \in Nat /\ Len(Ctor[s]) \in Nat /\ kind \in Kinds
    BY Counts, CtorTypes
  <1>2. PICK j \in 1 .. m :
             /\ p = <<Resource(s, Ctor[s][j]), p[2]>> /\ Ctor[s][j] \in Acquiring
             /\ \/ /\ s \in Endpoints \cup {"pep"}
                   /\ \E i \in 1 .. j - 1 : /\ p[2] = Resource(s, Ctor[s][i])
                                            /\ Ctor[s][i] \in Acquiring
                \/ /\ \/ p[2] = Resource("info", "query") /\ s = "fabric"
                      \/ p[2] = Fabric /\ s \in {"domain", "pep", "waitset"} \cup Endpoints
                      \/ p[2] = Domain /\ s \in {"av", "pmr"} \cup Endpoints
                   /\ Ctor[s][j] \notin {"memory", "lock"}
    <2>1. UsesEarlier(s, m, p)
      BY StepUses
    <2>. QED
      BY <2>1 DEF UsesEarlier
  <1>3. Ctor[s][j] \in Kinds /\ s # "info"
    BY <1>2 DEF Acquiring, Endpoints
  <1>4. ASSUME NEW k \in 1 .. m, Ctor[s][k] \in Acquiring, Ctor[s][k] \notin {"memory", "lock"}
        PROVE  Resource(s, Ctor[s][k]) \in open1
    <2>1. CASE k = m
      BY <1>1, <1>4, <2>1, AcquiredOne
    <2>2. CASE k # m
      BY <1>1, <1>3, <1>4, <2>2, AcquiredOpen
    <2>. QED
      BY <2>1, <2>2
  <1>5. Begun(s)
    BY DEF Begun
  <1>6. CASE /\ s \in Endpoints \cup {"pep"}
             /\ \E i \in 1 .. j - 1 : /\ p[2] = Resource(s, Ctor[s][i])
                                      /\ Ctor[s][i] \in Acquiring
    <2>1. PICK i \in 1 .. j - 1 : p[2] = Resource(s, Ctor[s][i]) /\ Ctor[s][i] \in Acquiring
      BY <1>6
    <2>2. i \in 1 .. m /\ i < j /\ i \in 1 .. Len(Ctor[s]) /\ j \in 1 .. Len(Ctor[s])
      BY <1>1
    <2>3. Ctor[s][i] \notin {"memory", "lock"} /\ Ctor[s][j] \notin {"memory", "lock"}
      BY <1>6, <2>2, Places DEF Endpoints
    <2>4. p[1] = Resource(s, Ctor[s][j])
      BY <1>2
    <2>5. p[1] \in open1 /\ p[2] \in open1
      BY <1>2, <1>4, <2>1, <2>2, <2>3, <2>4
    <2>6. Precedes(p[2], p[1])
      BY <1>6, <2>1, <2>2, <2>4 DEF Precedes
    <2>. QED
      BY <1>2, <2>4, <2>5, <2>6
  <1>7. CASE /\ \/ p[2] = Resource("info", "query") /\ s = "fabric"
                \/ p[2] = Fabric /\ s \in {"domain", "pep", "waitset"} \cup Endpoints
                \/ p[2] = Domain /\ s \in {"av", "pmr"} \cup Endpoints
             /\ Ctor[s][j] \notin {"memory", "lock"}
    <2>1. p[1] = Resource(s, Ctor[s][j]) /\ p[1] \in open1
      BY <1>2, <1>4, <1>7
    <2>2. \A r \in {"info", "fabric", "domain"} : Position[r] < Position[s] => Built(r)
      BY <1>5, SlotNames DEF InOrder, Pointers
    <2>3. /\ p[2] \in {Resource("info", "query"), Fabric, Domain}
          /\ p[2][1] \in {"info", "fabric", "domain"} /\ Position[p[2][1]] < Position[s]
      <3>1. s \in {"fabric", "domain", "pep", "waitset", "av", "pmr", "endpoint", "ctrl_endpoint"}
        BY <1>7 DEF Endpoints
      <3>2. CASE p[2] = Resource("info", "query")
        BY <3>1, <3>2, Positions DEF Resource
      <3>3. CASE p[2] = Fabric /\ s # "fabric"
        BY <3>1, <3>3, Positions DEF Resource, Fabric
      <3>4. CASE p[2] = Domain /\ s \notin {"fabric", "domain"}
        BY <3>1, <3>4, Positions DEF Resource, Domain
      <3>. QED
        BY <1>7, <3>2, <3>3, <3>4 DEF Endpoints
    <2>4. p[2] \in open
      BY <1>7, <2>2, <2>3, ObjectsOpen DEF Resource, Fabric, Domain
    <2>5. Precedes(p[2], p[1])
      <3>1. p[1][1] = s /\ p[1][2] = Ctor[s][j]
        BY <2>1 DEF Resource
      <3>2. Ctor[s][j] # "overflow"
        BY <1>3 DEF Kinds, Bindings
      <3>. QED
        BY <1>7, <2>3, <3>1, <3>2 DEF Precedes
    <2>. QED
      BY <1>2, <2>1, <2>4, <2>5
  <1>. QED
    BY <1>2, <1>6, <1>7

LEMMA ConstructStepHolds ==
    ASSUME ScopeInv, ConstructStep
    PROVE  ScopeInv'
  <1>. DEFINE s == building
              n == steps[s]
              kind == Ctor[s][n + 1]
  <1>. USE DEF ScopeInv
  <1>1. /\ s \in Slots /\ phase \in {"setup", "running"} /\ n < Len(Ctor[s])
        /\ s = "region" => steps["pmr"] = 4
    BY DEF ConstructStep, ScopeShape, Constructing
  <1>2. /\ n \in Nat /\ n + 1 \in 1 .. Len(Ctor[s]) /\ Len(Ctor[s]) \in Nat /\ kind \in Kinds
        /\ s \in Slots /\ s # Nobody
    BY <1>1, Counts, CtorTypes, SizesAssumption
  <1>3. /\ steps' = [steps EXCEPT ![s] = n + 1]
        /\ building' = IF n + 1 = Len(Ctor[s]) THEN Nobody ELSE s
        /\ open' = open \cup Acquired(s, kind)
        /\ uses' = uses \cup UsePairs(s, kind)
        /\ OwnDescriptor(s, kind)
        /\ StartReader(s, kind)
        /\ UNCHANGED <<refused, phase, size, next, placed, posted>>
    BY <1>2 DEF ConstructStep, ScopeShape, buffers
  <1>4. /\ steps'[s] = n + 1
        /\ \A t \in Slots \ {s} : steps'[t] = steps[t]
        /\ \A t \in Slots : steps'[t] \in Nat /\ steps'[t] <= Len(Ctor[t]) /\ steps[t] <= steps'[t]
    BY <1>2, <1>3, Counts DEF ScopeShape
  <1>5. \A r \in Acquired(s, kind) : r = Resource(s, kind) /\ kind \in Acquiring
    BY <1>2, AcquiredOne
  <1>6. ASSUME NEW p \in UsePairs(s, kind)
        PROVE  p \in open' \X open' /\ Precedes(p[2], p[1])
    <2>1. PICK m \in 1 .. Len(Ctor[s]) : m = n + 1
      BY <1>2
    <2>2. p \in UsePairs(s, Ctor[s][m])
      BY <2>1
    <2>. QED
      BY <1>1, <1>3, <2>1, <2>2, OrderOfUse
  <1>7. ScopeShape'
    <2>1. steps' \in [Slots -> Nat]
      BY <1>2, <1>3 DEF ScopeShape
    <2>2. open' \subseteq Slots \X (Kinds \cup {"overflow"})
      BY <1>2, <1>3, <1>5 DEF ScopeShape, Resource
    <2>3. uses' \subseteq open' \X open'
      BY <1>3, <1>6 DEF ScopeShape
    <2>4. reader' \in [Queues -> {"none", "waiting", "posted"}]
      BY <1>3 DEF ScopeShape, StartReader
    <2>5. descriptor' \in [Polled -> {"none", "queue", "both", "stale", "closed", "twice"}]
      BY <1>3 DEF ScopeShape, OwnDescriptor
    <2>. QED
      BY <1>2, <1>3, <1>4, <2>1, <2>2, <2>3, <2>4, <2>5 DEF ScopeShape
  <1>8. InOrder'
    <2>. SUFFICES ASSUME NEW t \in Slots, NEW r \in Slots \ Pointers,
                         Begun(t)', Position[r] < Position[t]
                  PROVE  Built(r)'
      BY DEF InOrder
    <2>1. Begun(t)
      BY <1>3, <1>4, SizesAssumption DEF Begun
    <2>2. Built(r) /\ r # s
      BY <2>1 DEF InOrder, Built
    <2>. QED
      BY <1>3, <1>4, <2>2, SizesAssumption DEF Built
  <1>9. Constructing'
    <2>1. building' # Nobody => building' = s /\ steps'[s] < Len(Ctor[s])
      BY <1>1, <1>2, <1>3, <1>4
    <2>2. building' = "region" => phase' \in {"setup", "running"} /\ steps'["pmr"] = 4
      <3>1. "pmr" # "region" /\ "pmr" \in Slots /\ "region" \in Slots
        BY SlotNames
      <3>. QED
        BY <1>1, <1>3, <1>4, <3>1, SizesAssumption
    <2>3. phase' # "over"
      BY <1>1, <1>3
    <2>. QED
      BY <2>1, <2>2, <2>3 DEF Constructing
  <1>10. OpenExact'
    <2>1. ASSUME NEW t \in Slots \ {"info", "pmr"}, NEW k \in Kinds \cup {"overflow"}
          PROVE  Resource(t, k) \in open' <=> k \in Acquiring /\ Taken(t, k, steps'[t])
      <3>1. Resource(t, k) \in open <=> k \in Acquiring /\ Taken(t, k, steps[t])
        BY DEF OpenExact
      <3>2. CASE t = s
        <4>1. Taken(t, k, n + 1) <=> Taken(t, k, n) \/ k = kind
          <5>1. PICK m \in 1 .. Len(Ctor[s]) : m = n + 1 /\ m - 1 = n
            BY <1>2
          <5>. QED
            BY <1>2, <3>2, <5>1, TakenStep
        <4>2. Resource(t, k) \in Acquired(s, kind) <=> k \in Acquiring /\ k = kind
          BY <1>2, <3>2, AcquiredOne DEF Resource
        <4>. QED
          BY <1>3, <1>4, <3>1, <3>2, <4>1, <4>2
      <3>3. CASE t # s
        BY <1>3, <1>4, <1>5, <3>1, <3>3 DEF Resource
      <3>. QED
        BY <3>2, <3>3
    <2>2. ASSUME NEW k \in Kinds \cup {"overflow"}, Resource("info", k) \in open'
          PROVE  k \in {"base", "query"}
      <3>1. CASE s = "info"
        <4>1. n + 1 \in {1, 2} /\ kind \in {"base", "query"}
          BY <1>2, <3>1, Ctors
        <4>. QED
          BY <1>3, <1>5, <2>2, <4>1 DEF OpenExact, Resource
      <3>2. CASE s # "info"
        BY <1>3, <1>5, <2>2, <3>2 DEF OpenExact, Resource
      <3>. QED
        BY <3>1, <3>2
    <2>3. Resource("info", "query") \in open' <=> steps'["info"] = 2
      <3>1. CASE s = "info"
        <4>1. n \in {0, 1} /\ Ctor[s][1] = "base" /\ Ctor[s][2] = "query"
          BY <1>2, <3>1, Ctors
        <4>2. "query" \in Acquiring
          BY KindNames DEF Acquiring, Bindings
        <4>3. Acquired(s, kind) = IF kind \in Acquiring THEN {Resource(s, kind)} ELSE {}
          BY <1>2, AcquiredOne
        <4>. QED
          BY <1>3, <1>4, <3>1, <4>1, <4>2, <4>3 DEF OpenExact, Resource
      <3>2. CASE s # "info"
        BY <1>3, <1>4, <1>5, <3>2, SlotNames DEF OpenExact, Resource
      <3>. QED
        BY <3>1, <3>2
    <2>4. ASSUME NEW k \in Kinds \cup {"overflow"}, Resource("pmr", k) \in open'
          PROVE  k \in {"memory", "lock", "mr", "overflow"}
      <3>1. CASE s = "pmr"
        <4>1. n + 1 \in {1, 2, 3, 4} /\ kind \in {"memory", "lock", "mr", "buffer"}
          BY <1>2, <3>1, Ctors
        <4>. QED
          BY <1>3, <1>5, <2>4, <4>1 DEF OpenExact, Resource, Acquiring
      <3>2. CASE s # "pmr"
        BY <1>3, <1>5, <2>4, <3>2 DEF OpenExact, Resource
      <3>. QED
        BY <3>1, <3>2
    <2>5. Mr \in open' <=> steps'["pmr"] >= 3 \/ steps'["region"] = 1
      <3>1. CASE s = "pmr"
        <4>1. n \in {0, 1, 2, 3} /\ Ctor[s][1] = "memory" /\ Ctor[s][2] = "lock"
              /\ Ctor[s][3] = "mr" /\ Ctor[s][4] = "buffer"
          BY <1>2, <3>1, Ctors
        <4>2. "mr" \in Acquiring
          BY KindNames DEF Acquiring, Bindings
        <4>3. Acquired(s, kind) = IF kind \in Acquiring THEN {Resource(s, kind)} ELSE {}
          BY <1>2, AcquiredOne
        <4>4. CASE n = 2
          BY <1>3, <1>4, <3>1, <4>1, <4>2, <4>3, <4>4 DEF Mr
        <4>5. CASE n # 2
          <5>1. kind # "mr"
            BY <4>1, <4>5
          <5>2. Mr \in open' <=> Mr \in open
            BY <1>3, <4>3, <5>1 DEF Mr, Resource
          <5>3. steps'["pmr"] >= 3 <=> steps["pmr"] >= 3
            BY <1>4, <3>1, <4>1, <4>5
          <5>4. steps'["region"] = steps["region"]
            BY <1>4, <3>1, SlotNames
          <5>. QED
            BY <5>2, <5>3, <5>4 DEF OpenExact
        <4>. QED
          BY <4>4, <4>5
      <3>2. CASE s = "region"
        <4>1. n = 0 /\ kind = "copy"
          BY <1>2, <3>2, Ctors
        <4>2. Acquired(s, kind) = {}
          BY <1>5, <4>1 DEF Acquiring
        <4>. QED
          BY <1>1, <1>3, <1>4, <3>2, <4>1, <4>2, SlotNames DEF OpenExact
      <3>3. CASE s \notin {"pmr", "region"}
        BY <1>3, <1>4, <1>5, <3>3, SlotNames DEF OpenExact, Resource, Mr
      <3>. QED
        BY <3>1, <3>2, <3>3
    <2>6. Overflow \in open' => steps'["pmr"] = 4
      <3>1. kind # "overflow"
        BY <1>2 DEF Kinds, Bindings
      <3>2. Overflow \in open' => Overflow \in open
        BY <1>3, <1>5, <3>1 DEF Overflow, Resource
      <3>3. steps["pmr"] = 4 => s # "pmr"
        <4>1. Len(Ctor["pmr"]) = 4
          BY Ctors
        <4>. QED
          BY <1>1, <1>2, <4>1
      <3>. QED
        BY <1>4, <3>2, <3>3, SlotNames DEF OpenExact
    <2>. QED
      BY <2>1, <2>2, <2>3, <2>4, <2>5, <2>6 DEF OpenExact
  <1>11. MemoryStays'
    <2>1. CASE Memory \in open
      BY <1>3, <2>1 DEF MemoryStays
    <2>2. CASE Memory \notin open
      <3>1. /\ ~ Begun("region") /\ ~ steps["pmr"] > 0
            /\ \A e \in Endpoints : placed[e] = "none"
        BY <2>2 DEF MemoryStays
      <3>2. CASE s = "pmr"
        <4>1. n = 0 /\ kind = "memory"
          BY <1>2, <3>1, <3>2, Ctors
        <4>2. Memory \in open'
          BY <1>2, <1>3, <3>2, <4>1, AcquiredOne, KindNames DEF Acquiring, Bindings, Memory
        <4>. QED
          BY <4>2 DEF MemoryStays
      <3>3. CASE s # "pmr"
        <4>1. s # "region"
          BY <3>1 DEF Begun
        <4>2. steps'["pmr"] = steps["pmr"] /\ steps'["region"] = steps["region"]
          BY <1>4, <3>3, <4>1, SlotNames
        <4>. QED
          BY <1>2, <1>3, <3>1, <4>1, <4>2, SizesAssumption, SlotNames DEF MemoryStays, Begun
      <3>. QED
        BY <3>2, <3>3
    <2>. QED
      BY <2>1, <2>2
  <1>12. UsesOrdered'
    BY <1>3, <1>6 DEF UsesOrdered
  <1>13. /\ \A q \in Described(s, kind) : q \in open /\ Acquired(s, kind) = {}
         /\ \A q \in Polled : q \in Acquired(s, kind) => q \notin open /\ q \notin Described(s, kind)
    <2>1. PICK m \in 1 .. Len(Ctor[s]) : m = n + 1 /\ m - 1 = n /\ kind = Ctor[s][m]
      BY <1>2
    <2>2. ASSUME NEW q \in Described(s, kind)
          PROVE  q \in open /\ Acquired(s, kind) = {}
      BY <1>2, <2>1, DescribedOpen, DescribedBy
    <2>3. ASSUME NEW q \in Polled, q \in Acquired(s, kind)
          PROVE  q \notin open
      <3>1. q = Resource(s, kind) /\ q[1] = s
        BY <1>5, <2>3 DEF Resource
      <3>2. s \in Slots \ {"info", "pmr"}
        BY <3>1, PolledBy
      <3>3. ~ Taken(s, kind, n)
        <4>1. ~ Taken(s, Ctor[s][m], m - 1)
          BY <1>2, TakenStep
        <4>. QED
          BY <2>1, <4>1
      <3>. QED
        BY <1>2, <3>1, <3>2, <3>3 DEF OpenExact
    <2>. QED
      BY <2>2, <2>3
  <1>15. \A q \in Polled :
          /\ q \in Acquired(s, kind) => descriptor'[q] = "queue"
          /\ q \in Described(s, kind) => descriptor'[q] = "both"
          /\ q \notin Acquired(s, kind) /\ q \notin Described(s, kind)
                => descriptor'[q] = descriptor[q]
    BY <1>3, <1>13 DEF OwnDescriptor
  <1>16. DescriptorsExact'
    <2>1. ASSUME NEW q \in Polled
          PROVE  q \in open' <=> descriptor'[q] \in {"queue", "both", "stale"}
      BY <1>3, <1>13, <1>15 DEF DescriptorsExact
    <2>2. ASSUME NEW q \in Polled, NEW t \in Slots, NEW k \in Kinds,
                 q \in Described(t, k), descriptor'[q] = "both"
          PROVE  Taken(t, k, steps'[t])
      <3>1. CASE q \in Described(s, kind)
        <4>1. t = s /\ k = kind
          BY <1>2, <2>2, <3>1, DescribedBy
        <4>. QED
          BY <1>2, <1>4, <4>1 DEF Taken
      <3>2. CASE q \notin Described(s, kind)
        <4>1. descriptor[q] = "both"
          BY <1>15, <2>2, <3>2
        <4>2. Taken(t, k, steps[t])
          BY <2>2, <4>1 DEF DescriptorsExact
        <4>3. steps[t] \in Nat /\ steps'[t] \in Nat /\ steps[t] <= steps'[t]
          BY <1>4, Counts
        <4>. QED
          BY <4>2, <4>3 DEF Taken
      <3>. QED
        BY <3>1, <3>2
    <2>. QED
      BY <2>1, <2>2 DEF DescriptorsExact
  <1>17. WaitsOwned'
    <2>. SUFFICES ASSUME NEW q \in Queues
                  PROVE  /\ reader'[q] # "none" => descriptor'[q] = "both"
                         /\ descriptor'[q] = "both" => reader'[q] # "none"
      BY DEF WaitsOwned
    <2>1. q \in Polled
      BY DEF Polled
    <2>2. PICK how \in {"waiting", "posted"} :
            reader' = [r \in Queues |-> IF r \in Described(s, kind) THEN how ELSE reader[r]]
      BY <1>3 DEF StartReader
    <2>3. reader[q] # "none" => descriptor[q] = "both" /\ q \in open
      BY <1>1, <2>1 DEF WaitsOwned, DescriptorsExact, ScopeShape
    <2>. QED
      BY <1>13, <1>15, <2>1, <2>2, <2>3 DEF WaitsOwned
  <1>18. OverflowHeld'
    <2>1. s = "pmr" => \A e \in Endpoints : placed[e] = "none"
      <3>1. Len(Ctor["pmr"]) = 4
        BY Ctors
      <3>. QED
        BY <1>1, <1>2, <3>1 DEF OverflowHeld
    <2>2. s # "pmr" => steps'["pmr"] = steps["pmr"]
      BY <1>4, SlotNames
    <2>. QED
      BY <1>1, <1>3, <2>1, <2>2 DEF OverflowHeld
  <1>14. BuffersPlaced' /\ refused' = {}
    BY <1>3 DEF BuffersPlaced
  <1>. QED
    BY <1>7, <1>8, <1>9, <1>10, <1>11, <1>12, <1>14, <1>16, <1>17, <1>18

LEMMA ConstructHolds ==
    ASSUME ScopeInv, NEW s \in Slots, Construct(s)
    PROVE  ScopeInv'
  <1>. USE DEF ScopeInv
  <1>1. /\ building = Nobody /\ steps[s] = 0 /\ building' = s /\ phase \in {"setup", "running"}
        /\ UNCHANGED <<steps, open, uses, refused, descriptor, reader, phase, size, next, placed, posted>>
    BY DEF Construct, buffers
  <1>2. \A r \in Slots : Built(r) => steps[r] > 0 /\ r # s /\ Built(r)'
    BY <1>1, Counts DEF Built
  <1>3. ScopeShape'
    BY <1>1 DEF ScopeShape
  <1>4. InOrder'
    <2>. SUFFICES ASSUME NEW t \in Slots, NEW r \in Slots \ Pointers,
                         Begun(t)', Position[r] < Position[t]
                  PROVE  Built(r)
      BY <1>2 DEF InOrder
    <2>1. CASE t # s
      BY <1>1, <2>1 DEF InOrder, Begun
    <2>2. CASE t = s /\ s \notin Pointers
      BY <2>2 DEF Construct
    <2>3. CASE t = s /\ s \in Pointers
      <3>1. Built(IF s = "region" THEN "pmr" ELSE "domain")
        BY <2>3 DEF Construct
      <3>2. CASE s = "region"
        <4>1. Begun("pmr") /\ "pmr" \in Slots
          BY <1>2, <3>1, <3>2, SlotNames DEF Begun
        <4>2. Position[r] < Position["pmr"]
          BY <2>3, <3>2, Positions, SlotNames DEF Pointers
        <4>. QED
          BY <4>1, <4>2 DEF InOrder
      <3>3. CASE s # "region"
        <4>1. Begun("domain") /\ "domain" \in Slots
          BY <1>2, <3>1, <3>3, SlotNames DEF Begun
        <4>2. r = "domain" \/ Position[r] < Position["domain"]
          <5>1. s \in {"pep", "endpoint", "ctrl_endpoint"}
            BY <2>3, <3>3 DEF Pointers
          <5>. QED
            BY <2>3, <5>1, Positions, SlotNames DEF Pointers
        <4>. QED
          BY <3>1, <3>3, <4>1, <4>2 DEF InOrder
      <3>. QED
        BY <3>2, <3>3
    <2>. QED
      BY <2>1, <2>2, <2>3
  <1>5. s = "region" => steps["pmr"] = 4
    BY Ctors DEF Construct, Built, Pointers
  <1>6. Constructing'
    BY <1>1, <1>5, Counts DEF Constructing
  <1>7. OpenExact'
    BY <1>1 DEF OpenExact
  <1>8. MemoryStays'
    BY <1>1, <1>5 DEF MemoryStays, Begun
  <1>9. UsesOrdered' /\ BuffersPlaced' /\ refused' = {}
    BY <1>1 DEF UsesOrdered, BuffersPlaced
  <1>10. DescriptorsExact' /\ WaitsOwned' /\ OverflowHeld'
    BY <1>1 DEF DescriptorsExact, WaitsOwned, OverflowHeld
  <1>. QED
    BY <1>3, <1>4, <1>6, <1>7, <1>8, <1>9, <1>10

(* The actions that construct, place and destroy nothing. *)
LEMMA PhaseHolds ==
    ASSUME ScopeInv, ConstructThrows \/ Run \/ RunEnds
    PROVE  ScopeInv'
  <1>. USE DEF ScopeInv
  <1>1. /\ UNCHANGED <<steps, building, open, uses, refused, descriptor, reader, size, next, placed, posted>>
        /\ phase \in {"setup", "running"} /\ phase' \in {"running", "ending"}
        /\ phase' = "ending" => building # "region"
    <2>1. CASE ConstructThrows
      <3>1. building # "region"
        <4>1. Len(Ctor["region"]) = 1 /\ Ctor["region"][1] = "copy" /\ "region" \in Slots
          BY Ctors, SlotNames
        <4>2. building = "region" => steps[building] < 1 /\ steps[building] \in Nat
          BY <4>1, Counts, SizesAssumption DEF Constructing
        <4>3. building = "region" => steps[building] + 1 = 1
          BY <4>2
        <4>. QED
          BY <2>1, <4>1, <4>3 DEF ConstructThrows
      <3>. QED
        BY <2>1, <3>1 DEF ConstructThrows, buffers, ScopeShape, Constructing
    <2>2. CASE Run
      BY <2>2 DEF Run, buffers
    <2>3. CASE RunEnds
      BY <2>3, SlotNames, SizesAssumption DEF RunEnds, Running, buffers
    <2>. QED
      BY <2>1, <2>2, <2>3
  <1>2. ScopeShape' /\ OpenExact' /\ UsesOrdered' /\ BuffersPlaced' /\ refused' = {}
    BY <1>1 DEF ScopeShape, OpenExact, UsesOrdered, BuffersPlaced
  <1>3. InOrder' /\ MemoryStays'
    BY <1>1 DEF InOrder, MemoryStays, Begun, Built
  <1>4. Constructing'
    BY <1>1 DEF Constructing
  <1>5. DescriptorsExact' /\ WaitsOwned' /\ OverflowHeld'
    BY <1>1 DEF DescriptorsExact, WaitsOwned, OverflowHeld
  <1>. QED
    BY <1>2, <1>3, <1>4, <1>5

LEMMA RunningHolds ==
    ASSUME ScopeInv,
           \/ \E s \in Endpoints : Post(s) \/ Complete(s)
           \/ \E q \in Queues : DescriptorReady(q) \/ ReaderRuns(q)
    PROVE  ScopeInv'
  <1>. USE DEF ScopeInv
  <1>1. /\ UNCHANGED <<steps, building, open, uses, refused, descriptor, phase, size, next, placed>>
        /\ posted' \subseteq Endpoints
        /\ reader' \in [Queues -> {"none", "waiting", "posted"}]
        /\ phase = "running" /\ \A q \in Queues : reader'[q] = "none" <=> reader[q] = "none"
    BY DEF Post, Complete, DescriptorReady, ReaderRuns, Running, buffers, ScopeShape
  <1>2. ScopeShape' /\ OpenExact' /\ UsesOrdered' /\ BuffersPlaced' /\ refused' = {}
    BY <1>1 DEF ScopeShape, OpenExact, UsesOrdered, BuffersPlaced
  <1>3. InOrder' /\ MemoryStays'
    BY <1>1 DEF InOrder, MemoryStays, Begun, Built
  <1>4. Constructing'
    BY <1>1 DEF Constructing
  <1>5. DescriptorsExact' /\ WaitsOwned' /\ OverflowHeld'
    BY <1>1 DEF DescriptorsExact, WaitsOwned, OverflowHeld, ScopeShape
  <1>. QED
    BY <1>2, <1>3, <1>4, <1>5

(* Euclidean division, for one divisor. *)
LEMMA Division ==
    ASSUME NEW m \in Nat, NEW d \in Nat \ {0}
    PROVE  /\ m \div d \in Nat /\ m % d \in 0 .. d - 1
           /\ m = (m \div d) * d + (m % d)
           /\ (m * d) % d = 0
  <1>1. d > 0
    OBVIOUS
  <1>2. m \div d \in Nat
    BY Z3
  <1>3. m % d \in 0 .. d - 1
    BY Z3
  <1>4. (m * d) % d = 0
    BY <1>1
  <1>5. m % d = m - d * (m \div d)
    BY <1>1
  <1>. QED
    BY <1>2, <1>3, <1>4, <1>5

LEMMA Rounding ==
    ASSUME NEW n \in Nat
    PROVE  /\ RoundUp(n) \in Nat
           /\ n <= RoundUp(n)
           /\ RoundUp(n) <= n <=> n % Alignment = 0
           /\ RoundUp(0) = 0
  <1>1. Alignment \in Nat \ {0}
    BY SizesAssumption
  <1>2. PICK q \in Nat, r \in 0 .. Alignment - 1 :
          /\ q = (n + Alignment - 1) \div Alignment
          /\ n + Alignment - 1 = q * Alignment + r
    <2>1. PICK m \in Nat : m = n + Alignment - 1
      BY <1>1
    <2>2. /\ m \div Alignment \in Nat /\ m % Alignment \in 0 .. Alignment - 1
          /\ m = (m \div Alignment) * Alignment + (m % Alignment)
      BY <1>1, <2>1, Division
    <2>. QED
      BY <2>1, <2>2
  <1>3. PICK u \in Nat : u = q * Alignment /\ u = RoundUp(n)
    BY <1>1, <1>2 DEF RoundUp
  <1>4. n <= u /\ u <= n + Alignment - 1
    BY <1>1, <1>2, <1>3
  <1>5. ASSUME u <= n
        PROVE  n % Alignment = 0
    <2>1. n = q * Alignment
      BY <1>3, <1>4, <1>5
    <2>. QED
      BY <1>1, <2>1, Division
  <1>6. ASSUME n % Alignment = 0
        PROVE  u <= n
    <2>1. PICK k \in Nat : n = k * Alignment
      <3>1. /\ n \div Alignment \in Nat
            /\ n = (n \div Alignment) * Alignment + (n % Alignment)
        BY <1>1, Division
      <3>. QED
        BY <1>1, <1>6, <3>1
    <2>2. CASE q <= k
      BY <1>1, <1>3, <2>1, <2>2
    <2>3. CASE q >= k + 1
      <3>1. q * Alignment >= (k + 1) * Alignment
        BY <1>1, <2>3
      <3>2. (k + 1) * Alignment = n + Alignment
        BY <1>1, <2>1
      <3>. QED
        BY <1>1, <1>3, <1>4, <3>1, <3>2
    <2>. QED
      BY <2>2, <2>3
  <1>7. RoundUp(0) = 0
    <2>1. (0 + Alignment - 1) \div Alignment = 0
      BY <1>1
    <2>. QED
      BY <1>1, <2>1 DEF RoundUp
  <1>. QED
    BY <1>3, <1>4, <1>5, <1>6, <1>7

LEMMA PlaceHolds ==
    ASSUME ScopeInv, PlaceBuffers
    PROVE  ScopeInv'
  <1>. USE DEF ScopeInv
  <1>1. /\ size \in Nat /\ ControlSize \in Nat /\ ControlSize > 0 /\ next \in Nat
        /\ RoundUp(next) \in Nat /\ next <= RoundUp(next)
        /\ RoundUp(next) <= next <=> next % Alignment = 0
        /\ RoundUp(0) = 0
    <2>1. size \in Nat /\ ControlSize \in Nat /\ ControlSize > 0 /\ next \in Nat
      BY SizesAssumption DEF ScopeShape
    <2>. QED
      BY <2>1, Rounding
  <1>2. PICK s \in Endpoints, bytes \in Nat :
          /\ Place(s, bytes)
          /\ \/ s = "endpoint" /\ bytes = size
             \/ s = "ctrl_endpoint" /\ bytes = ControlSize /\ placed["endpoint"] # "none"
    BY <1>1 DEF PlaceBuffers, Endpoints
  <1>3. EndOf(bytes) = RoundUp(next) + (IF bytes = 0 THEN 1 ELSE bytes)
    BY DEF EndOf
  <1>4. /\ placed[s] = "none" /\ steps["pmr"] = 4
        /\ UNCHANGED <<steps, building, uses, refused, descriptor, reader, phase, size, posted>>
        /\ \/ /\ EndOf(bytes) <= size + ControlSize
              /\ placed' = [placed EXCEPT ![s] = "region"]
              /\ next' = EndOf(bytes)
              /\ open' = open
           \/ /\ ~ (EndOf(bytes) <= size + ControlSize)
              /\ placed' = [placed EXCEPT ![s] = "upstream"]
              /\ open' = open \cup {Overflow}
              /\ next' = next
    BY <1>2, Ctors DEF Place, Built
  <1>5. /\ \A r : r # Overflow => (r \in open' <=> r \in open)
        /\ open \subseteq open'
    BY <1>4
  <1>6. ScopeShape'
    <2>1. open' \subseteq Slots \X (Kinds \cup {"overflow"})
      BY <1>4, SlotNames DEF ScopeShape, Overflow, Resource
    <2>2. uses' \subseteq open' \X open'
      BY <1>4, <1>5 DEF ScopeShape
    <2>3. next' \in Nat
      BY <1>1, <1>3, <1>4
    <2>4. placed' \in [Endpoints -> {"none", "region", "upstream"}]
      BY <1>4 DEF ScopeShape
    <2>. QED
      BY <1>4, <2>1, <2>2, <2>3, <2>4 DEF ScopeShape
  <1>7. InOrder' /\ Constructing' /\ UsesOrdered' /\ refused' = {}
    BY <1>4 DEF InOrder, Constructing, UsesOrdered, Begun, Built
  <1>8. OpenExact'
    <2>1. \A t \in Slots \ {"pmr"}, kind \in Kinds \cup {"overflow"} :
            Resource(t, kind) \in open' <=> Resource(t, kind) \in open
      BY <1>5 DEF Resource, Overflow
    <2>2. \A kind \in Kinds \cup {"overflow"} : kind # "overflow" =>
            (Resource("pmr", kind) \in open' <=> Resource("pmr", kind) \in open)
      BY <1>5 DEF Resource, Overflow
    <2>3. "mr" \in Kinds /\ "query" \in Kinds /\ "info" \in Slots
      BY KindNames, SlotNames
    <2>4. Mr \in open' <=> Mr \in open
      BY <2>2, <2>3 DEF Mr
    <2>5. Resource("info", "query") \in open' <=> Resource("info", "query") \in open
      BY <2>1, <2>3
    <2>. QED
      BY <1>4, <2>1, <2>2, <2>3, <2>4, <2>5 DEF OpenExact
  <1>9. MemoryStays'
    BY <1>4, <1>5 DEF MemoryStays
  <1>10. DescriptorsExact' /\ WaitsOwned' /\ OverflowHeld'
    <2>1. \A q \in Polled : q \in open' <=> q \in open
      <3>1. \A q \in Polled : q # Overflow
        BY PolledBy DEF Overflow, Resource
      <3>. QED
        BY <1>5, <3>1
    <2>2. OverflowHeld'
      BY <1>4, <1>5 DEF OverflowHeld, ScopeShape
    <2>. QED
      BY <1>4, <2>1, <2>2 DEF DescriptorsExact, WaitsOwned
  <1>11. BuffersPlaced'
    <2>1. CASE s = "endpoint"
      <3>1. /\ next = 0 /\ placed["ctrl_endpoint"] = "none" /\ bytes = size
        BY <1>2, <1>4, <2>1 DEF BuffersPlaced
      <3>2. EndOf(bytes) = (IF size = 0 THEN 1 ELSE size) /\ EndOf(bytes) <= size + ControlSize
        BY <1>1, <1>3, <3>1
      <3>3. placed'["endpoint"] = "region" /\ placed'["ctrl_endpoint"] = "none"
        BY <1>4, <2>1, <3>1, <3>2 DEF ScopeShape, Endpoints
      <3>. QED
        BY <1>4, <3>2, <3>3 DEF BuffersPlaced
    <2>2. CASE s = "ctrl_endpoint"
      <3>1. /\ placed["endpoint"] # "none" /\ placed["endpoint"] # "upstream"
            /\ bytes = ControlSize /\ next = IF size = 0 THEN 1 ELSE size
            /\ next <= size + ControlSize
        BY <1>2, <1>4, <2>2 DEF BuffersPlaced
      <3>2. /\ placed'["endpoint"] = placed["endpoint"]
            /\ placed'["ctrl_endpoint"] = IF EndOf(bytes) <= size + ControlSize
                                            THEN "region" ELSE "upstream"
        BY <1>4, <2>2 DEF ScopeShape, Endpoints
      <3>3. EndOf(bytes) = RoundUp(next) + ControlSize
        BY <1>1, <1>3, <3>1
      <3>4. EndOf(bytes) <= size + ControlSize <=> size # 0 /\ size % Alignment = 0
        <4>1. EndOf(bytes) <= size + ControlSize <=> RoundUp(next) <= size
          BY <1>1, <3>3
        <4>2. CASE size = 0
          BY <1>1, <3>1, <4>1, <4>2
        <4>3. CASE size # 0
          BY <1>1, <3>1, <4>1, <4>3
        <4>. QED
          BY <4>2, <4>3
      <3>5. next' <= size + ControlSize
        BY <1>4, <3>1
      <3>. QED
        BY <1>4, <3>1, <3>2, <3>4, <3>5 DEF BuffersPlaced
    <2>. QED
      BY <2>1, <2>2 DEF Endpoints
  <1>. QED
    BY <1>6, <1>7, <1>8, <1>9, <1>10, <1>11

(* What a step of destruction may give back. *)
LEMMA GivenBackBy ==
    ASSUME ScopeShape, NEW s \in Slots, steps[s] > 0, NEW rs \in GivenBack(s)
    PROVE  /\ s \notin {"info", "pmr", "region"} => rs = Acquired(s, Top(s))
           /\ s = "info" => /\ Top(s) = "query" => rs = {Resource("info", "query")}
                            /\ \A r \in rs : r \in {Resource("info", "query"),
                                                 Resource("info", "base")}
           /\ s = "pmr" => /\ Top(s) \in {"memory", "lock"} => rs = {}
                           /\ Top(s) = "buffer" =>
                                rs = {Resource("pmr", "lock"), Overflow} \cap open
           /\ Top(s) = "mr" \/ s = "region" => rs = IF Shared(s) THEN {} ELSE {Mr}
  <1>1. /\ steps[s] \in 1 .. Len(Ctor[s]) /\ steps[s] \in Nat /\ Top(s) = Ctor[s][steps[s]]
        /\ Top(s) \in Kinds
    BY Counts, CtorTypes DEF Top
  <1>2. /\ Top(s) \in {"base", "query"} => s = "info"
        /\ Top(s) \in {"memory", "lock", "buffer", "mr"} => s = "pmr"
        /\ Top(s) = "copy" => s = "region"
    BY <1>1, Places
  <1>3. CASE s \notin {"info", "pmr", "region"}
    BY <1>2, <1>3 DEF GivenBack
  <1>4. CASE s = "info"
    <2>1. Top(s) \in {"base", "query"}
      <3>1. steps[s] \in {1, 2}
        BY <1>1, <1>4, Ctors
      <3>. QED
        BY <1>1, <1>4, <3>1, Ctors
    <2>2. Acquired(s, "query") = {Resource("info", "query")}
      BY <1>4, AcquiredOne, KindNames DEF Acquiring, Bindings
    <2>3. CASE Top(s) = "base"
      BY <1>4, <2>3 DEF GivenBack
    <2>4. CASE Top(s) = "query"
      BY <1>4, <2>2, <2>4 DEF GivenBack
    <2>. QED
      BY <1>4, <2>1, <2>3, <2>4
  <1>5. CASE s = "pmr"
    <2>1. Top(s) \in {"memory", "lock", "mr", "buffer"}
      <3>1. steps[s] \in {1, 2, 3, 4}
        BY <1>1, <1>5, Ctors
      <3>. QED
        BY <1>1, <1>5, <3>1, Ctors
    <2>. QED
      BY <1>5, <2>1 DEF GivenBack
  <1>6. CASE s = "region"
    <2>1. Top(s) = "copy"
      BY <1>1, <1>6, Ctors
    <2>. QED
      BY <1>6, <2>1 DEF GivenBack
  <1>. QED
    BY <1>2, <1>3, <1>4, <1>5, <1>6

LEMMA GivenBackIs ==
    ASSUME ScopeShape, NEW s \in Slots, steps[s] > 0, NEW rs \in GivenBack(s), NEW r \in rs
    PROVE  \/ s \notin {"info", "pmr", "region"} /\ r = Resource(s, Top(s))
           \/ s = "info" /\ r \in {Resource("info", "query"), Resource("info", "base")}
           \/ s \in {"pmr", "region"} /\ r \in {Resource("pmr", "lock"), Overflow, Mr}
  <1>1. CASE s \notin {"info", "pmr", "region"}
    <2>1. Top(s) \in Kinds
      BY Counts, CtorTypes DEF Top
    <2>2. Acquired(s, Top(s)) = IF Top(s) \in Acquiring THEN {Resource(s, Top(s))} ELSE {}
      BY <2>1, AcquiredOne
    <2>3. r \in Acquired(s, Top(s))
      BY <1>1, GivenBackBy
    <2>4. r = Resource(s, Top(s))
      BY <2>2, <2>3
    <2>. QED
      BY <1>1, <2>4
  <1>2. CASE s = "info"
    BY <1>2, GivenBackBy
  <1>3. CASE s = "pmr"
    <2>1. Top(s) \in {"memory", "lock", "mr", "buffer"}
      <3>1. steps[s] \in Nat /\ steps[s] <= Len(Ctor[s]) /\ Len(Ctor[s]) = 4
        BY <1>3, Counts, Ctors
      <3>2. steps[s] \in {1, 2, 3, 4}
        BY <3>1
      <3>. QED
        BY <1>3, <3>2, Ctors DEF Top
    <2>. QED
      BY <1>3, <2>1, GivenBackBy
  <1>4. CASE s = "region"
    BY <1>4, GivenBackBy
  <1>. QED
    BY <1>1, <1>2, <1>3, <1>4

(* The dying slot is the one whose constructor threw, or no slot declared   *)
(* after it stands.                                                        *)
LEMMA DyingIsLast ==
    ASSUME ScopeInv, phase = "ending", NEW s \in Dying
    PROVE  /\ s \in Slots /\ steps[s] > 0 /\ building # "region"
           /\ \/ s = building
              \/ /\ building = Nobody \/ steps[building] = 0
                 /\ \A t \in Slots : steps[t] > 0 => Position[t] <= Position[s]
  <1>. USE DEF ScopeInv
  <1>1. building # "region"
    BY DEF Constructing
  <1>2. building # Nobody => building \in Slots /\ steps[building] \in Nat
    BY Counts DEF ScopeShape
  <1>3. CASE building # Nobody /\ steps[building] > 0
    BY <1>1, <1>2, <1>3 DEF Dying
  <1>4. CASE ~ (building # Nobody /\ steps[building] > 0)
    <2>1. s \in Last /\ (building = Nobody \/ steps[building] = 0)
      BY <1>2, <1>4 DEF Dying
    <2>. QED
      BY <1>1, <2>1 DEF Last
  <1>. QED
    BY <1>3, <1>4

(* Declarations and members are in the right order. *)
LEMMA NotInUse ==
    ASSUME ScopeInv, phase = "ending", NEW s \in Dying, NEW rs \in GivenBack(s),
           NEW r \in rs, NEW u \in open
    PROVE  <<u, r>> \notin uses
  <1>. SUFFICES ASSUME <<u, r>> \in uses
                PROVE  FALSE
    OBVIOUS
  <1>. USE DEF ScopeInv
  <1>1. /\ s \in Slots /\ steps[s] > 0
        /\ \/ s = building
           \/ \A t \in Slots : steps[t] > 0 => Position[t] <= Position[s]
    BY DyingIsLast
  <1>2. /\ steps[s] \in 1 .. Len(Ctor[s]) /\ steps[s] \in Nat /\ Len(Ctor[s]) \in Nat
        /\ Top(s) = Ctor[s][steps[s]] /\ Top(s) \in Kinds
    BY <1>1, Counts, CtorTypes DEF Top
  <1>3. \/ s \notin {"info", "pmr", "region"} /\ r = Resource(s, Top(s))
        \/ s = "info" /\ r \in {Resource("info", "query"), Resource("info", "base")}
        \/ r \in {Resource("pmr", "lock"), Overflow, Mr}
    BY <1>1, GivenBackIs
  <1>4. Precedes(r, u)
    <2>1. <<u, r>>[1] = u /\ <<u, r>>[2] = r
      OBVIOUS
    <2>. QED
      BY <2>1 DEF UsesOrdered
  <1>5. ASSUME NEW t \in Endpoints \cup {"pep"}, NEW i \in 1 .. Len(Ctor[t]),
               NEW j \in 1 .. Len(Ctor[t]), i < j,
               r = Resource(t, Ctor[t][i]), u = Resource(t, Ctor[t][j])
        PROVE  FALSE
    <2>1. t \in Slots \ {"info", "pmr"}
      BY SlotNames DEF Endpoints
    <2>2. t = s /\ Ctor[s][i] = Ctor[s][steps[s]]
      BY <1>2, <1>3, <1>5, <2>1 DEF Resource, Overflow, Mr
    <2>3. i = steps[s]
      BY <1>1, <1>2, <2>2, CtorInjective
    <2>4. Ctor[t][j] \in Kinds
      BY <2>1, CtorTypes
    <2>5. Taken(t, Ctor[t][j], steps[t])
      BY <1>5, <2>1, <2>4 DEF OpenExact
    <2>6. PICK k \in 1 .. steps[s] : Ctor[s][k] = Ctor[s][j]
      BY <2>2, <2>5 DEF Taken
    <2>7. k = j
      <3>1. k \in 1 .. Len(Ctor[s]) /\ j \in 1 .. Len(Ctor[s])
        BY <1>2, <2>2
      <3>. QED
        BY <1>1, <2>6, <3>1, CtorInjective
    <2>. QED
      BY <1>2, <1>5, <2>3, <2>7
  <1>6. ASSUME r \in {Resource("info", "query"), Fabric, Domain},
               Position[r[1]] < Position[u[1]], u[2] \notin {"memory", "lock", "overflow"}
        PROVE  FALSE
    <2>1. s \in {"info", "fabric", "domain"} /\ r[1] = s
      BY <1>3, <1>6 DEF Resource, Fabric, Domain, Overflow, Mr
    <2>2. u[1] # "info"
      BY <1>6, <2>1, Positions
    <2>3. PICK t \in Slots : steps[t] > 0 /\ Position[s] < Position[t]
      <3>1. CASE steps[u[1]] > 0
        BY <1>6, <2>1, <2>2, <3>1, OpenStands
      <3>2. CASE u[1] = "pmr" /\ steps["region"] > 0
        <4>1. Position[s] < Position["region"] /\ "region" \in Slots
          BY <2>1, Positions, SlotNames
        <4>. QED
          BY <3>2, <4>1
      <3>. QED
        BY <1>6, <2>2, <3>1, <3>2, OpenStands
    <2>4. Position[s] \in Nat /\ Position[t] \in Nat /\ s \notin Pointers
      BY <2>1, Positions, SlotNames DEF Pointers
    <2>5. CASE s = building
      BY <1>1, <2>3, <2>4, <2>5 DEF InOrder, Begun, Built
    <2>6. CASE s # building
      BY <1>1, <2>3, <2>4, <2>6
    <2>. QED
      BY <2>5, <2>6
  <1>. QED
    BY <1>4, <1>5, <1>6 DEF Precedes

LEMMA DestroyHolds ==
    ASSUME ScopeInv, DestroyStep
    PROVE  ScopeInv'
  <1>. USE DEF ScopeInv
  <1>1. PICK s \in Dying :
          /\ \E rs \in GivenBack(s) : Close(rs)
          /\ phase = "ending"
          /\ steps' = [steps EXCEPT ![s] = StepsLeft(s)]
          /\ CloseDescriptors(s) /\ CancelWait(s)
          /\ posted' = IF Top(s) = "ep" THEN posted \ {s} ELSE posted
          /\ building' = IF s = building /\ StepsLeft(s) > 0 THEN s ELSE Nobody
          /\ UNCHANGED <<phase, size, next, placed>>
    BY DEF DestroyStep
  <1>1a. PICK rs \in GivenBack(s) : Close(rs)
    BY <1>1
  <1>2. /\ s \in Slots /\ steps[s] > 0 /\ building # "region"
        /\ \/ s = building
           \/ /\ building = Nobody \/ steps[building] = 0
              /\ \A t \in Slots : steps[t] > 0 => Position[t] <= Position[s]
    BY <1>1, DyingIsLast
  <1>3. /\ steps[s] \in 1 .. Len(Ctor[s]) /\ steps[s] \in Nat /\ Len(Ctor[s]) \in Nat
        /\ Top(s) = Ctor[s][steps[s]] /\ Top(s) \in Kinds /\ s # Nobody
    BY <1>2, Counts, CtorTypes, SizesAssumption DEF Top
  <1>4. /\ open' = open \ rs
        /\ uses' = {p \in uses : p[1] \notin rs}
        /\ refused' = {}
        /\ \A p \in uses' : p[2] \notin rs
    <2>1. \A r \in rs, u \in open : <<u, r>> \notin uses
      BY <1>1, <1>1a, NotInUse
    <2>2. {r \in rs : \E u \in open : <<u, r>> \in uses} = {}
      BY <2>1
    <2>3. open' = open \ rs /\ uses' = {p \in uses : p[1] \notin rs} /\ refused' = {}
      BY <1>1a, <2>2 DEF Close
    <2>4. \A p \in uses : p = <<p[1], p[2]>> /\ p[1] \in open
      BY DEF ScopeShape
    <2>. QED
      BY <2>1, <2>3, <2>4
  <1>5. /\ StepsLeft(s) \in Nat /\ StepsLeft(s) < steps[s]
        /\ s # "info" => StepsLeft(s) = steps[s] - 1
    BY <1>3 DEF StepsLeft
  <1>6. /\ steps'[s] = StepsLeft(s)
        /\ \A t \in Slots \ {s} : steps'[t] = steps[t]
        /\ \A t \in Slots : /\ steps'[t] \in Nat /\ steps'[t] <= steps[t]
                            /\ steps[t] \in Nat /\ steps[t] <= Len(Ctor[t])
                            /\ Len(Ctor[t]) \in Nat
    BY <1>1, <1>2, <1>5, Counts DEF ScopeShape
  <1>7. \A r : r \in open' <=> r \in open /\ r \notin rs
    BY <1>4
  <1>8. ScopeShape'
    <2>1. steps' \in [Slots -> Nat]
      BY <1>1, <1>2, <1>5 DEF ScopeShape
    <2>2. uses' \subseteq open' \X open'
      BY <1>4 DEF ScopeShape
    <2>3. reader' \in [Queues -> {"none", "waiting", "posted"}]
      BY <1>1 DEF ScopeShape, CancelWait
    <2>5. descriptor' \in [Polled -> {"none", "queue", "both", "stale", "closed", "twice"}]
      BY <1>1 DEF ScopeShape, CloseDescriptors
    <2>4. \A t \in Slots : steps'[t] <= Len(Ctor[t])
      BY <1>6
    <2>. QED
      BY <1>1, <1>2, <1>4, <2>1, <2>2, <2>3, <2>4, <2>5 DEF ScopeShape
  <1>9. \A t \in Slots : Begun(t)' => Begun(t)
    BY <1>1, <1>2, <1>6, SizesAssumption DEF Begun
  <1>10. InOrder'
    <2>. SUFFICES ASSUME NEW t \in Slots, NEW r \in Slots \ Pointers,
                         Begun(t)', Position[r] < Position[t]
                  PROVE  Built(r)'
      BY DEF InOrder
    <2>1. Built(r)
      BY <1>9 DEF InOrder
    <2>2. CASE r = s
      <3>1. s # building /\ building' = Nobody
        BY <1>1, <2>1, <2>2 DEF Built
      <3>2. t # s /\ Position[t] \in Nat /\ Position[s] \in Nat
        BY <2>2, Positions, SlotNames
      <3>3. steps[t] > 0
        BY <1>6, <3>1, <3>2, SizesAssumption DEF Begun
      <3>. QED
        BY <1>2, <2>2, <3>1, <3>2, <3>3
    <2>3. CASE r # s
      BY <1>1, <1>6, <2>1, <2>3, SizesAssumption DEF Built
    <2>. QED
      BY <2>2, <2>3
  <1>11. Constructing'
    <2>1. building' # Nobody => building' = s /\ s = building /\ steps'[s] < Len(Ctor[s])
      <3>1. StepsLeft(s) < Len(Ctor[s])
        BY <1>3, <1>5
      <3>. QED
        BY <1>1, <1>6, <3>1
    <2>2. phase' = "ending" /\ building' # "region"
      BY <1>1, <1>2, <2>1, SizesAssumption, SlotNames
    <2>. QED
      BY <2>1, <2>2 DEF Constructing
  <1>12. OpenExact'
    <2>1. ASSUME NEW t \in Slots \ {"info", "pmr"}, NEW k \in Kinds \cup {"overflow"}
          PROVE  Resource(t, k) \in open' <=> k \in Acquiring /\ Taken(t, k, steps'[t])
      <3>1. Resource(t, k) \in open <=> k \in Acquiring /\ Taken(t, k, steps[t])
        BY DEF OpenExact
      <3>2. CASE t = s
        <4>1. PICK m \in 1 .. Len(Ctor[s]) : m = steps[s] /\ Top(s) = Ctor[s][m]
          BY <1>3
        <4>2. /\ Taken(t, k, m) <=> Taken(t, k, m - 1) \/ k = Top(s)
              /\ ~ Taken(t, Top(s), m - 1)
          <5>1. /\ Taken(s, k, m) <=> Taken(s, k, m - 1) \/ k = Ctor[s][m]
                /\ ~ Taken(s, Ctor[s][m], m - 1)
            BY <1>2, TakenStep
          <5>. QED
            BY <3>2, <4>1, <5>1
        <4>3. Resource(t, k) \in rs <=> k \in Acquiring /\ k = Top(s)
          <5>1. CASE s = "region"
            <6>1. Top(s) = "copy" /\ Mr # Resource(t, k)
              BY <1>3, <3>2, <5>1, Ctors DEF Mr, Resource
            <6>2. Resource(t, k) \notin rs
              BY <1>2, <1>1a, <5>1, <6>1, GivenBackBy
            <6>. QED
              BY <6>1, <6>2 DEF Acquiring
          <5>2. CASE s # "region"
            <6>1. rs = IF Top(s) \in Acquiring THEN {Resource(s, Top(s))} ELSE {}
              <7>1. rs = Acquired(s, Top(s))
                BY <1>2, <1>1a, <3>2, <5>2, GivenBackBy
              <7>. QED
                BY <1>2, <1>3, <7>1, AcquiredOne
            <6>. QED
              BY <3>2, <6>1 DEF Resource
          <5>. QED
            BY <5>1, <5>2
        <4>4. steps'[t] = m - 1
          BY <1>5, <1>6, <3>2, <4>1
        <4>. QED
          BY <1>7, <3>1, <3>2, <4>1, <4>2, <4>3, <4>4
      <3>3. CASE t # s
        <4>1. Resource(t, k) \notin rs
          BY <1>2, <1>1a, <3>3, GivenBackIs DEF Resource, Overflow, Mr
        <4>. QED
          BY <1>6, <1>7, <3>1, <3>3, <4>1
      <3>. QED
        BY <3>2, <3>3
    <2>2. ASSUME NEW k \in Kinds \cup {"overflow"}, Resource("info", k) \in open'
          PROVE  k \in {"base", "query"}
      BY <1>7, <2>2 DEF OpenExact
    <2>3. Resource("info", "query") \in open' <=> steps'["info"] = 2
      <3>1. CASE s = "info"
        <4>1. steps'["info"] = 0
          BY <1>6, <3>1 DEF StepsLeft
        <4>2. steps["info"] = 2 => rs = {Resource("info", "query")}
          <5>1. steps["info"] = 2 => Top(s) = "query"
            BY <1>3, <3>1, Ctors
          <5>. QED
            BY <1>2, <1>1a, <3>1, <5>1, GivenBackBy
        <4>. QED
          BY <1>7, <4>1, <4>2 DEF OpenExact
      <3>2. CASE s # "info"
        <4>1. Resource("info", "query") \notin rs
          BY <1>2, <1>1a, <3>2, GivenBackIs DEF Resource, Overflow, Mr
        <4>. QED
          BY <1>6, <1>7, <3>2, <4>1, SlotNames DEF OpenExact
      <3>. QED
        BY <3>1, <3>2
    <2>4. ASSUME NEW k \in Kinds \cup {"overflow"}, Resource("pmr", k) \in open'
          PROVE  k \in {"memory", "lock", "mr", "overflow"}
      BY <1>7, <2>4 DEF OpenExact
    <2>5. Mr \in open' <=> steps'["pmr"] >= 3 \/ steps'["region"] = 1
      <3>1. Mr \in open <=> steps["pmr"] >= 3 \/ steps["region"] = 1
        BY DEF OpenExact
      <3>2. Built("region") <=> steps["region"] = 1
        BY <1>2, Ctors DEF Built
      <3>3. "pmr" \in Slots /\ "region" \in Slots /\ "pmr" # "region"
        BY SlotNames
      <3>4. CASE s = "pmr"
        <4>1. /\ steps[s] \in {1, 2, 3, 4} /\ steps'["pmr"] = steps[s] - 1
              /\ steps'["region"] = steps["region"]
          <5>1. Len(Ctor[s]) = 4
            BY <3>4, Ctors
          <5>. QED
            BY <1>3, <1>5, <1>6, <3>3, <3>4, <5>1
        <4>2. CASE steps[s] = 3
          <5>1. Top(s) = "mr"
            BY <1>3, <3>4, <4>2, Ctors
          <5>2. rs = IF Built("region") THEN {} ELSE {Mr}
            BY <1>2, <1>1a, <3>4, <5>1, GivenBackBy DEF Shared
          <5>. QED
            BY <1>7, <3>1, <3>2, <3>4, <4>1, <4>2, <5>2
        <4>3. CASE steps[s] # 3
          <5>1. Top(s) \in {"memory", "lock", "buffer"}
            BY <1>3, <3>4, <4>1, <4>3, Ctors
          <5>2. Mr \notin rs
            BY <1>2, <1>1a, <3>4, <5>1, GivenBackBy DEF Mr, Overflow, Resource
          <5>. QED
            BY <1>7, <3>1, <3>4, <4>1, <4>3, <5>2
        <4>. QED
          BY <4>2, <4>3
      <3>5. CASE s = "region"
        <4>1. steps[s] = 1
          <5>1. Len(Ctor[s]) = 1
            BY <3>5, Ctors
          <5>. QED
            BY <1>3, <5>1
        <4>2. steps'["region"] = 0 /\ steps'["pmr"] = steps["pmr"]
          BY <1>5, <1>6, <3>3, <3>5, <4>1
        <4>3. rs = IF steps["pmr"] >= 3 THEN {} ELSE {Mr}
          BY <1>2, <1>1a, <3>5, GivenBackBy DEF Shared
        <4>. QED
          BY <1>7, <3>1, <3>5, <4>1, <4>2, <4>3
      <3>6. CASE s \notin {"pmr", "region"}
        <4>1. Mr \notin rs
          BY <1>2, <1>1a, <3>6, GivenBackIs DEF Resource, Mr
        <4>. QED
          BY <1>6, <1>7, <3>1, <3>3, <3>6, <4>1
      <3>. QED
        BY <3>4, <3>5, <3>6
    <2>6. Overflow \in open' => steps'["pmr"] = 4
      <3>. SUFFICES ASSUME Overflow \in open'
                    PROVE  steps'["pmr"] = 4
        OBVIOUS
      <3>1. Overflow \in open /\ steps["pmr"] = 4
        BY <1>7 DEF OpenExact
      <3>2. CASE s = "pmr"
        <4>1. Top(s) = "buffer"
          BY <1>3, <3>1, <3>2, Ctors
        <4>2. Overflow \in rs
          BY <1>2, <1>1a, <3>1, <3>2, <4>1, GivenBackBy
        <4>. QED
          BY <1>7, <4>2
      <3>3. CASE s # "pmr"
        BY <1>6, <3>1, <3>3, SlotNames
      <3>. QED
        BY <3>2, <3>3
    <2>. QED
      BY <2>1, <2>2, <2>3, <2>4, <2>5, <2>6 DEF OpenExact
  <1>13. MemoryStays'
    <2>1. Memory \notin rs
      BY <1>2, <1>1a, GivenBackIs DEF Resource, Memory, Overflow, Mr
    <2>2. Begun("region")' \/ steps'["pmr"] > 0 => Begun("region") \/ steps["pmr"] > 0
      BY <1>6, <1>9, SlotNames
    <2>. QED
      BY <1>1, <1>7, <2>1, <2>2 DEF MemoryStays
  <1>14. UsesOrdered'
    BY <1>1, <1>4 DEF UsesOrdered
  <1>16. /\ \A q \in Described(s, Top(s)) : q \in open /\ open' = open
         /\ \A q \in Polled : q \in open /\ q \notin open' =>
                s \notin {"info", "pmr", "region"} /\ q = Resource(s, Top(s))
    <2>1. ASSUME NEW q \in Described(s, Top(s))
          PROVE  q \in open /\ open' = open
      <3>1. PICK m \in 1 .. Len(Ctor[s]) : m = steps[s] /\ Top(s) = Ctor[s][m]
        BY <1>3
      <3>2. q \in open /\ s \in Endpoints \cup {"pep"}
        BY <1>2, <3>1, DescribedOpen
      <3>3. rs = {}
        BY <1>2, <1>1a, <1>3, <3>2, GivenBackBy, DescribedBy DEF Endpoints
      <3>. QED
        BY <1>4, <3>2, <3>3
    <2>2. ASSUME NEW q \in Polled, q \in open, q \notin open'
          PROVE  s \notin {"info", "pmr", "region"} /\ q = Resource(s, Top(s))
      <3>1. q \in rs
        BY <1>4, <2>2
      <3>. QED
        BY <1>2, <1>1a, <3>1, GivenBackIs, PolledBy DEF Resource, Overflow, Mr
    <2>. QED
      BY <2>1, <2>2
  <1>17. \A q \in Polled :
          /\ q \in Described(s, Top(s)) => descriptor'[q] = "stale"
          /\ q \in open /\ q \notin open' => descriptor'[q] \in {"twice", "closed"}
          /\ q \notin Described(s, Top(s)) /\ ~ (q \in open /\ q \notin open')
                => descriptor'[q] = descriptor[q]
    BY <1>1, <1>16 DEF CloseDescriptors
  <1>18. DescriptorsExact'
    <2>1. ASSUME NEW q \in Polled
          PROVE  q \in open' <=> descriptor'[q] \in {"queue", "both", "stale"}
      BY <1>7, <1>16, <1>17 DEF DescriptorsExact
    <2>2. ASSUME NEW q \in Polled, NEW t \in Slots, NEW k \in Kinds,
                 q \in Described(t, k), descriptor'[q] = "both"
          PROVE  Taken(t, k, steps'[t])
      <3>1. q \notin Described(s, Top(s)) /\ descriptor[q] = "both"
        BY <1>17, <2>2
      <3>2. Taken(t, k, steps[t])
        BY <2>2, <3>1 DEF DescriptorsExact
      <3>3. CASE t = s
        <4>1. k # Top(s) /\ s # "info"
          BY <2>2, <3>1, <3>3, PolledBy, DescribedBy
        <4>2. PICK m \in 1 .. Len(Ctor[s]) :
                m = steps[s] /\ Top(s) = Ctor[s][m] /\ m - 1 = steps'[s]
          BY <1>3, <1>5, <1>6, <4>1
        <4>. QED
          BY <1>2, <3>2, <3>3, <4>1, <4>2, TakenStep
      <3>4. CASE t # s
        BY <1>6, <3>2, <3>4
      <3>. QED
        BY <3>3, <3>4
    <2>. QED
      BY <2>1, <2>2 DEF DescriptorsExact
  <1>19. WaitsOwned'
    <2>. SUFFICES ASSUME NEW q \in Queues
                  PROVE  /\ reader'[q] = "waiting" => descriptor'[q] = "both"
                         /\ descriptor'[q] = "both" => reader'[q] # "none"
      BY <1>1 DEF WaitsOwned
    <2>1. q \in Polled
      BY DEF Polled
    <2>2. reader'[q] = IF q \in Described(s, Top(s)) /\ reader[q] = "waiting"
                         THEN "none" ELSE reader[q]
      BY <1>1 DEF CancelWait
    <2>3. ASSUME descriptor[q] = "both", q \in open, q \notin open'
          PROVE  FALSE
      <3>1. q = Resource(s, Top(s)) /\ q[1] = s /\ q[2] = Top(s)
        BY <1>16, <2>1, <2>3 DEF Resource
      <3>2. PICK k \in {"rx_cq_fd", "tx_cq_fd"} :
              q \in Described(s, k) /\ Top(s) = IF k = "rx_cq_fd" THEN "rx_cq" ELSE "tx_cq"
        BY <3>1 DEF Queues, Resource, Described
      <3>3. Taken(s, k, steps[s])
        BY <1>2, <2>1, <2>3, <3>2, KindNames DEF DescriptorsExact
      <3>4. PICK i \in 1 .. steps[s] : Ctor[s][i] = k
        BY <3>3 DEF Taken
      <3>5. i \in 1 .. Len(Ctor[s]) /\ i \in Nat /\ i <= steps[s]
        BY <1>3
      <3>6. i = IF k = "rx_cq_fd" THEN 4 ELSE 6
        BY <1>2, <3>4, <3>5, Places
      <3>7. steps[s] = IF k = "rx_cq_fd" THEN 3 ELSE 5
        <4>1. PICK m \in 1 .. Len(Ctor[s]) : m = steps[s] /\ Top(s) = Ctor[s][m]
          BY <1>3
        <4>2. Ctor[s][m] = IF k = "rx_cq_fd" THEN "rx_cq" ELSE "tx_cq"
          BY <3>2, <4>1
        <4>3. m = IF k = "rx_cq_fd" THEN 3 ELSE 5
          BY <1>2, <4>2, Places
        <4>. QED
          BY <4>1, <4>3
      <3>. QED
        BY <3>2, <3>5, <3>6, <3>7
    <2>4. descriptor[q] = "both" => q \in open
      BY <2>1 DEF DescriptorsExact
    <2>. QED
      BY <1>17, <2>1, <2>2, <2>3, <2>4 DEF WaitsOwned
  <1>20. OverflowHeld'
    <2>1. steps'["pmr"] = 4 => Overflow \notin rs /\ steps["pmr"] = 4
      <3>. SUFFICES ASSUME steps'["pmr"] = 4
                    PROVE  Overflow \notin rs /\ steps["pmr"] = 4
        OBVIOUS
      <3>1. Len(Ctor["pmr"]) = 4 /\ "pmr" \in Slots
        BY Ctors, SlotNames
      <3>2. s # "pmr"
        BY <1>3, <1>5, <1>6, <3>1
      <3>3. steps["pmr"] = 4
        BY <1>6, <3>1, <3>2
      <3>4. CASE s = "region"
        BY <1>2, <1>1a, <3>3, <3>4, GivenBackBy DEF Overflow, Mr, Resource
      <3>5. CASE s # "region"
        BY <1>2, <1>1a, <3>2, <3>3, <3>5, GivenBackIs DEF Overflow, Resource
      <3>. QED
        BY <3>3, <3>4, <3>5
    <2>. QED
      BY <1>1, <1>7, <2>1 DEF OverflowHeld
  <1>15. BuffersPlaced'
    BY <1>1 DEF BuffersPlaced
  <1>. QED
    BY <1>4, <1>8, <1>10, <1>11, <1>12, <1>13, <1>14, <1>15, <1>18, <1>19, <1>20

(* The last of the slots that stand is declared after all others. *)
LEMMA NothingStands ==
    ASSUME ScopeShape, Last = {}, NEW s \in Slots
    PROVE  steps[s] = 0
  <1>1. \A t \in Slots : steps[t] \in Nat
    BY Counts
  <1>2. \A t \in Slots : steps[t] > 0 =>
            \E r \in Slots : steps[r] > 0 /\ ~ (Position[r] <= Position[t])
    BY DEF Last
  <1>3. \A t \in Slots : Position[t] \in 1 .. 11
    BY Positions, SlotNames
  <1>4. ASSUME NEW i \in 1 .. 11,
               \A t \in Slots : Position[t] > i => steps[t] = 0
        PROVE  \A t \in Slots : Position[t] >= i => steps[t] = 0
    <2>. SUFFICES ASSUME NEW t \in Slots, Position[t] = i, steps[t] > 0
                  PROVE  FALSE
      BY <1>1, <1>3, <1>4
    <2>1. PICK r \in Slots : steps[r] > 0 /\ ~ (Position[r] <= Position[t])
      BY <1>2
    <2>. QED
      BY <1>1, <1>3, <1>4, <2>1
  <1>5. \A t \in Slots : Position[t] \in {1, 2, 3, 4, 5, 6, 7, 8, 9, 10, 11}
    BY <1>3
  <1>6. \A t \in Slots : Position[t] >= 11 => steps[t] = 0
    BY <1>3, <1>4
  <1>7. \A t \in Slots : Position[t] >= 10 => steps[t] = 0
    BY <1>3, <1>4, <1>6
  <1>8. \A t \in Slots : Position[t] >= 9 => steps[t] = 0
    BY <1>3, <1>4, <1>7
  <1>9. \A t \in Slots : Position[t] >= 8 => steps[t] = 0
    BY <1>3, <1>4, <1>8
  <1>10. \A t \in Slots : Position[t] >= 7 => steps[t] = 0
    BY <1>3, <1>4, <1>9
  <1>11. \A t \in Slots : Position[t] >= 6 => steps[t] = 0
    BY <1>3, <1>4, <1>10
  <1>12. \A t \in Slots : Position[t] >= 5 => steps[t] = 0
    BY <1>3, <1>4, <1>11
  <1>13. \A t \in Slots : Position[t] >= 4 => steps[t] = 0
    BY <1>3, <1>4, <1>12
  <1>14. \A t \in Slots : Position[t] >= 3 => steps[t] = 0
    BY <1>3, <1>4, <1>13
  <1>15. \A t \in Slots : Position[t] >= 2 => steps[t] = 0
    BY <1>3, <1>4, <1>14
  <1>16. \A t \in Slots : Position[t] >= 1 => steps[t] = 0
    BY <1>3, <1>4, <1>15
  <1>. QED
    BY <1>3, <1>16

LEMMA ScopeEndsHolds ==
    ASSUME ScopeInv, ScopeEnds
    PROVE  ScopeInv'
  <1>. USE DEF ScopeInv
  <1>1. /\ phase' = "over" /\ building' = Nobody
        /\ reader' = [q \in Queues |-> "none"]
        /\ UNCHANGED <<steps, open, uses, refused, descriptor, size, next, placed, posted>>
    BY DEF ScopeEnds, buffers
  <1>2. \A s \in Slots : steps[s] = 0
    BY NothingStands DEF ScopeEnds
  <1>3. ScopeShape' /\ OpenExact' /\ UsesOrdered' /\ BuffersPlaced' /\ refused' = {}
    BY <1>1 DEF ScopeShape, OpenExact, UsesOrdered, BuffersPlaced
  <1>4. \A s \in Slots : ~ Begun(s)'
    BY <1>1, <1>2, SizesAssumption DEF Begun
  <1>5. InOrder'
    BY <1>4 DEF InOrder
  <1>7. Constructing'
    BY <1>1, <1>2, SizesAssumption, SlotNames DEF Constructing
  <1>8. DescriptorsExact' /\ WaitsOwned' /\ OverflowHeld'
    <2>1. DescriptorsExact' /\ OverflowHeld'
      BY <1>1 DEF DescriptorsExact, OverflowHeld
    <2>2. ASSUME NEW q \in Queues, descriptor[q] = "both"
          PROVE  FALSE
      <3>1. q \in Polled
        BY DEF Polled
      <3>2. PICK s \in Endpoints, kind \in {"rx_cq_fd", "tx_cq_fd"} : q \in Described(s, kind)
        BY DEF Queues, Described
      <3>3. Taken(s, kind, steps[s]) /\ steps[s] = 0
        BY <1>2, <2>2, <3>1, <3>2, SlotNames, KindNames DEF DescriptorsExact, Endpoints
      <3>. QED
        BY <3>3 DEF Taken
    <2>. QED
      BY <1>1, <2>1, <2>2 DEF WaitsOwned
  <1>6. MemoryStays'
    BY <1>1, <1>2, <1>4, SlotNames DEF MemoryStays
  <1>. QED
    BY <1>3, <1>5, <1>6, <1>7, <1>8

LEMMA StutterHolds ==
    ASSUME ScopeInv, UNCHANGED scopeVars
    PROVE  ScopeInv'
  <1>1. UNCHANGED <<steps, building, open, uses, refused, descriptor, reader, phase, size, next,
                    placed, posted>>
    BY DEF scopeVars
  <1>2. ScopeShape' /\ OpenExact' /\ UsesOrdered' /\ BuffersPlaced' /\ refused' = {}
    BY <1>1 DEF ScopeInv, ScopeShape, OpenExact, UsesOrdered, BuffersPlaced
  <1>3. InOrder' /\ Constructing' /\ MemoryStays'
    BY <1>1 DEF ScopeInv, InOrder, Constructing, MemoryStays, Begun, Built
  <1>4. DescriptorsExact' /\ WaitsOwned' /\ OverflowHeld'
    BY <1>1 DEF ScopeInv, DescriptorsExact, WaitsOwned, OverflowHeld
  <1>. QED
    BY <1>2, <1>3, <1>4 DEF ScopeInv

-----------------------------------------------------------------------------
(* The inductive invariant holds in every run of the scope. *)
THEOREM ScopeInvariance ==
    ScopeSpec => []ScopeInv
  <1>1. ScopeInv /\ [ScopeNext]_scopeVars => ScopeInv'
    <2>. SUFFICES ASSUME ScopeInv, [ScopeNext]_scopeVars
                  PROVE  ScopeInv'
      OBVIOUS
    <2>1. ASSUME NEW s \in Slots, Construct(s)
          PROVE  ScopeInv'
      BY <2>1, ConstructHolds
    <2>2. CASE ConstructStep
      BY <2>2, ConstructStepHolds
    <2>3. CASE ConstructThrows \/ Run \/ RunEnds
      BY <2>3, PhaseHolds
    <2>4. CASE PlaceBuffers
      BY <2>4, PlaceHolds
    <2>5. CASE \/ \E s \in Endpoints : Post(s) \/ Complete(s)
               \/ \E q \in Queues : DescriptorReady(q) \/ ReaderRuns(q)
      BY <2>5, RunningHolds
    <2>6. CASE DestroyStep
      BY <2>6, DestroyHolds
    <2>7. CASE ScopeEnds
      BY <2>7, ScopeEndsHolds
    <2>8. CASE UNCHANGED scopeVars
      BY <2>8, StutterHolds
    <2>. QED
      BY <2>1, <2>2, <2>3, <2>4, <2>5, <2>6, <2>7, <2>8 DEF ScopeNext
  <1>. QED
    BY <1>1, InitHolds, PTL DEF ScopeSpec

(***************************************************************************)
(* Type correctness of the scope: nothing but what a step acquires, or the  *)
(* upstream block of the pool of buffers, is ever open, and the buffers do  *)
(* not reach beyond the registered bytes.                                  *)
(***************************************************************************)
THEOREM ScopeTypeCorrect ==
    ScopeSpec => []ScopeTypeOK
  <1>1. ScopeInv => ScopeTypeOK
    <2>. SUFFICES ASSUME ScopeInv
                  PROVE  ScopeTypeOK
      OBVIOUS
    <2>. USE DEF ScopeInv
    <2>. DEFINE resources == {Overflow} \cup
                               (UNION {AcquiredBy[s][Len(Ctor[s])] : s \in Slots})
    <2>1. ASSUME NEW r \in open
          PROVE  r \in resources
      <3>1. PICK s \in Slots, kind \in Kinds \cup {"overflow"} : r = Resource(s, kind)
        BY DEF ScopeShape, Resource
      <3>2. kind \in Acquiring /\ Taken(s, kind, Len(Ctor[s])) => r \in resources
        <4>1. Len(Ctor[s]) \in 0 .. Len(Ctor[s])
          BY CtorTypes
        <4>. QED
          BY <3>1, <4>1, OwnedTaken
      <3>3. CASE s \notin {"info", "pmr"}
        <4>1. kind \in Acquiring /\ Taken(s, kind, steps[s])
          BY <3>1, <3>3 DEF OpenExact
        <4>2. Taken(s, kind, Len(Ctor[s]))
          BY <4>1, Counts DEF Taken
        <4>. QED
          BY <3>2, <4>1, <4>2
      <3>4. CASE s = "info"
        <4>1. kind \in {"base", "query"}
          BY <3>1, <3>4 DEF OpenExact
        <4>2. kind \in Acquiring /\ Taken(s, kind, Len(Ctor[s]))
          BY <3>4, <4>1, Ctors, KindNames DEF Taken, Acquiring, Bindings
        <4>. QED
          BY <3>2, <4>2
      <3>5. CASE s = "pmr"
        <4>1. kind \in {"memory", "lock", "mr", "overflow"}
          BY <3>1, <3>5 DEF OpenExact
        <4>2. CASE kind = "overflow"
          BY <3>1, <3>5, <4>2 DEF Overflow
        <4>3. CASE kind # "overflow"
          <5>1. kind \in Acquiring
            BY <4>1, <4>3, KindNames DEF Acquiring, Bindings
          <5>2. /\ Len(Ctor[s]) = 4 /\ Ctor[s][1] = "memory" /\ Ctor[s][2] = "lock"
                /\ Ctor[s][3] = "mr"
            BY <3>5, Ctors
          <5>3. \E i \in {1, 2, 3} : Ctor[s][i] = kind
            BY <4>1, <4>3, <5>2
          <5>4. Taken(s, kind, Len(Ctor[s]))
            BY <5>2, <5>3 DEF Taken
          <5>. QED
            BY <3>2, <5>1, <5>4
        <4>. QED
          BY <4>2, <4>3
      <3>. QED
        BY <3>3, <3>4, <3>5
    <2>2. open \subseteq resources /\ refused \subseteq resources
      BY <2>1
    <2>3. uses \subseteq open \X (open \cup refused)
      BY DEF ScopeShape
    <2>4. next \in 0 .. size + ControlSize
      BY SizesAssumption DEF ScopeShape, BuffersPlaced
    <2>. QED
      BY <2>2, <2>3, <2>4 DEF ScopeShape, ScopeTypeOK
  <1>. QED
    BY <1>1, ScopeInvariance, PTL

(***************************************************************************)
(* Whichever constructor throws and whenever the program ends, what is open *)
(* belongs to an object that stands, and what such an object acquired is    *)
(* open, except the hints an info overwrites and the memory of the region.  *)
(* A queue's descriptor comes and goes with the queue: it is open, or its   *)
(* number stale, exactly as long as the queue is open.                      *)
(***************************************************************************)
THEOREM OwnedThroughout ==
    ScopeSpec => []OpenIsOwned
  <1>1. ScopeInv => OpenIsOwned
    <2>. SUFFICES ASSUME ScopeInv
                  PROVE  OpenIsOwned
      OBVIOUS
    <2>. USE DEF ScopeInv
    <2>. DEFINE lost == {Resource("info", "base"), Memory, Resource("pmr", "lock")}
                owned == {Overflow} \cup (UNION {AcquiredBy[s][steps[s]] : s \in Slots})
                            \cup (IF Built("region") THEN {Mr} ELSE {})
    <2>1. \A s \in Slots : steps[s] \in 0 .. Len(Ctor[s])
      BY Counts
    <2>2. \A s \in Slots : \A r : r \in AcquiredBy[s][steps[s]] <=>
             \E kind \in Acquiring : r = Resource(s, kind) /\ Taken(s, kind, steps[s])
      BY <2>1, OwnedTaken
    <2>3. Built("region") <=> steps["region"] = 1
      <3>1. Len(Ctor["region"]) = 1
        BY Ctors
      <3>2. building = "region" => steps["region"] < 1 /\ steps["region"] \in Nat
        BY <3>1, Counts, SlotNames, SizesAssumption DEF Constructing
      <3>. QED
        BY <3>1, <3>2 DEF Built
    <2>4. ASSUME NEW r \in open, r \notin lost
          PROVE  r \in owned
      <3>1. PICK s \in Slots, kind \in Kinds \cup {"overflow"} : r = Resource(s, kind)
        BY DEF ScopeShape, Resource
      <3>2. kind \in Acquiring /\ Taken(s, kind, steps[s]) => r \in owned
        BY <2>2, <3>1
      <3>3. CASE s \notin {"info", "pmr"}
        BY <3>1, <3>2, <3>3 DEF OpenExact
      <3>4. CASE s = "info"
        <4>1. kind = "query"
          BY <2>4, <3>1, <3>4 DEF OpenExact
        <4>2. steps["info"] = 2 /\ Ctor["info"][2] = "query"
          BY <3>1, <3>4, <4>1, Ctors DEF OpenExact
        <4>3. kind \in Acquiring /\ Taken(s, kind, steps[s])
          BY <3>4, <4>1, <4>2, KindNames DEF Taken, Acquiring, Bindings
        <4>. QED
          BY <3>2, <4>3
      <3>5. CASE s = "pmr"
        <4>1. kind \in {"mr", "overflow"}
          BY <2>4, <3>1, <3>5 DEF OpenExact, Memory
        <4>2. CASE kind = "overflow"
          BY <3>1, <3>5, <4>2 DEF Overflow
        <4>3. CASE kind = "mr" /\ steps["pmr"] >= 3
          <5>1. Ctor["pmr"][3] = "mr" /\ steps["pmr"] \in Nat
            BY Ctors, Counts, SlotNames
          <5>2. kind \in Acquiring /\ Taken(s, kind, steps[s])
            BY <3>5, <4>3, <5>1, KindNames DEF Taken, Acquiring, Bindings
          <5>. QED
            BY <3>2, <5>2
        <4>4. CASE kind = "mr" /\ steps["region"] = 1
          BY <2>3, <3>1, <3>5, <4>4 DEF Mr
        <4>. QED
          BY <3>1, <3>5, <4>1, <4>2, <4>3, <4>4 DEF OpenExact, Mr
      <3>. QED
        BY <3>3, <3>4, <3>5
    <2>5. ASSUME NEW r \in owned, r # Overflow
          PROVE  r \in open \cup lost
      <3>1. CASE r = Mr /\ Built("region")
        BY <2>3, <3>1 DEF OpenExact
      <3>2. ASSUME NEW s \in Slots, r \in AcquiredBy[s][steps[s]]
            PROVE  r \in open \cup lost
        <4>1. PICK kind \in Acquiring : r = Resource(s, kind) /\ Taken(s, kind, steps[s])
          BY <2>2, <3>2
        <4>2. PICK i \in 1 .. steps[s] : Ctor[s][i] = kind
          BY <4>1 DEF Taken
        <4>3. steps[s] \in Nat /\ i \in 1 .. Len(Ctor[s]) /\ kind \in Kinds
          BY <4>1, Counts DEF Acquiring
        <4>4. CASE s \notin {"info", "pmr"}
          BY <4>1, <4>3, <4>4 DEF OpenExact
        <4>5. CASE s = "info"
          <5>1. (i = 1 /\ kind = "base") \/ (steps["info"] = 2 /\ kind = "query")
            <6>1. Len(Ctor[s]) = 2 /\ Ctor[s][1] = "base" /\ Ctor[s][2] = "query"
              BY <4>5, Ctors
            <6>2. steps[s] <= 2 /\ i \in {1, 2}
              <7>1. steps[s] <= Len(Ctor[s])
                BY Counts
              <7>. QED
                BY <4>3, <6>1, <7>1
            <6>3. CASE i = 1
              <7>1. kind = Ctor[s][1]
                BY <4>2, <6>3
              <7>. QED
                BY <6>1, <6>3, <7>1
            <6>4. CASE i = 2
              <7>1. steps[s] = 2
                BY <4>3, <6>2, <6>4
              <7>. QED
                BY <4>2, <4>5, <6>1, <6>4, <7>1
            <6>. QED
              BY <6>2, <6>3, <6>4
          <5>. QED
            BY <4>1, <4>5, <5>1 DEF OpenExact
        <4>6. CASE s = "pmr"
          <5>1. /\ Len(Ctor[s]) = 4 /\ Ctor[s][1] = "memory" /\ Ctor[s][2] = "lock"
                /\ Ctor[s][3] = "mr" /\ Ctor[s][4] = "buffer"
            BY <4>6, Ctors
          <5>2. i \in {1, 2, 3, 4}
            BY <4>3, <5>1
          <5>3. CASE i \in {1, 2}
            BY <4>1, <4>2, <4>6, <5>1, <5>3 DEF Memory
          <5>4. CASE i = 3
            BY <4>1, <4>2, <4>3, <4>6, <5>1, <5>4 DEF Mr, OpenExact
          <5>5. CASE i = 4
            BY <4>1, <4>2, <5>1, <5>5 DEF Acquiring
          <5>. QED
            BY <5>2, <5>3, <5>4, <5>5
        <4>. QED
          BY <4>4, <4>5, <4>6
      <3>. QED
        BY <2>5, <3>1, <3>2
    <2>6. phase = "over" => Overflow \notin open
      BY SlotNames DEF Constructing, OpenExact
    <2>. QED
      BY <2>4, <2>5, <2>6 DEF OpenIsOwned, DescriptorsExact
  <1>. QED
    BY <1>1, ScopeInvariance, PTL

(***************************************************************************)
(* fi_close is never refused: members and variables are declared in an      *)
(* order in which nothing is closed before what uses it.                   *)
(***************************************************************************)
THEOREM NeverClosedInUse ==
    ScopeSpec => []NothingClosedInUse
  <1>1. ScopeInv => NothingClosedInUse
    BY DEF ScopeInv, NothingClosedInUse
  <1>. QED
    BY <1>1, ScopeInvariance, PTL

(***************************************************************************)
(* However a constructor is unwound and the scope destroyed, nobody waits   *)
(* on a descriptor that was closed or whose queue was, and no completion    *)
(* queue with a stream_descriptor is without reader.                        *)
(***************************************************************************)
THEOREM WaitsAreCancelled ==
    ScopeSpec => []ReaderWhileDescribed
  <1>1. ScopeInv => ReaderWhileDescribed
    BY DEF ScopeInv, WaitsOwned, DescriptorsExact, Polled, ReaderWhileDescribed
  <1>. QED
    BY <1>1, ScopeInvariance, PTL

(***************************************************************************)
(* The region's memory is there as long as the region is registered, and    *)
(* for every outstanding operation whose buffer lies in it; a buffer that   *)
(* does not is there exactly as long as pmr, which the operation may        *)
(* outlive.  For every size and alignment, the second buffer is in the      *)
(* region exactly when the size is a positive multiple of the alignment.    *)
(***************************************************************************)
THEOREM MemoryOutlives ==
    ScopeSpec => []BuffersUsable
  <1>1. ScopeInv => BuffersUsable
    <2>. SUFFICES ASSUME ScopeInv
                  PROVE  BuffersUsable
      OBVIOUS
    <2>. USE DEF ScopeInv
    <2>1. Mr \in open => Memory \in open
      <3>1. steps["pmr"] \in Nat /\ steps["region"] \in Nat
        BY Counts, SlotNames
      <3>. QED
        BY <3>1 DEF OpenExact, MemoryStays, Begun
    <2>2. \A s \in posted : placed[s] = "region" => Memory \in open
      BY DEF ScopeShape, MemoryStays
    <2>3. ASSUME NEW s \in posted, placed[s] = "upstream"
          PROVE  Overflow \in open <=> Built("pmr")
      <3>1. Built("pmr") <=> steps["pmr"] = 4
        <4>1. Len(Ctor["pmr"]) = 4
          BY Ctors
        <4>2. building = "pmr" => steps["pmr"] < 4 /\ steps["pmr"] \in Nat
          BY <4>1, Counts, SlotNames, SizesAssumption DEF Constructing
        <4>. QED
          BY <4>1, <4>2 DEF Built
      <3>. QED
        BY <2>3, <3>1 DEF OverflowHeld, OpenExact, ScopeShape
    <2>. QED
      BY <2>1, <2>2, <2>3 DEF BuffersPlaced, BuffersUsable
  <1>. QED
    BY <1>1, ScopeInvariance, PTL

=============================================================================
