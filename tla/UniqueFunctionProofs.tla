------------------------ MODULE UniqueFunctionProofs ------------------------
(***************************************************************************)
(* Proofs that every callable is owned once, and that a unique_function     *)
(* behaves like the value it holds, for any number of functions, of         *)
(* callables and of heap blocks, whatever the moves and allocations throw.  *)
(***************************************************************************)
EXTENDS UniqueFunction, FiniteSetTheorems, SequenceTheorems, TLAPS

(* The commands and the programs made of them. *)
SetEmptyOf(f) == [op |-> "set_empty", to |-> f]
WeakDestroyOf(f) == [op |-> "weak_destroy", to |-> f]
DestroyOf(f) == [op |-> "destroy", to |-> f]
EndOf(f) == [op |-> "end", to |-> f]
PutIn(f, c) == [op |-> "init", to |-> f, callable |-> c]
MoveTo(f, g) == [op |-> "move", to |-> f, from |-> g]

Closing == <<WeakDestroyOf(Cache), EndOf(Cache)>>
SwapLast(f) == <<MoveTo(f, Cache)>> \o Closing
SwapSecond(f) == MoveAssignment(f, Cache) \o Closing
SwapMiddle(f, g) == <<MoveTo(g, f)>> \o SwapSecond(f)
SwapFirst(f, g) == MoveAssignment(g, f) \o SwapSecond(f)
SwapAll(f, g) == <<MoveTo(Cache, g)>> \o SwapFirst(f, g)

(***************************************************************************)
(* Every box belongs to one function.  Those in V are between the end of    *)
(* their old box and the next one, so that their tables mean nothing.       *)
(***************************************************************************)
Owners(V) == {f \in alive \ broken : ~IsEmpty(f)} \ V

Sound(V) ==
    /\ \A f, g \in Owners(V) : Retrieve(f) = Retrieve(g) => f = g
    /\ {p \in Places : box[p] # Nothing} = {Retrieve(f) : f \in Owners(V)}
    /\ heap \ broken = {Retrieve(f) : f \in Owners(V)} \cap Blocks
    /\ \A p \in running : box[p] # Nothing
    /\ broken \cap Functions \subseteq alive
    /\ broken \cap Blocks \subseteq heap

Vacant ==
    IF todo # <<>> /\ Head(todo).op \in {"init", "move", "end"}
    THEN {Head(todo).to} ELSE {}

(***************************************************************************)
(* How far the operation is, and what the functions hold meanwhile.        *)
(***************************************************************************)
Kept(operands) == \A h \in Clients \ operands : Held(h) = before[h]

Idle == todo = <<>> /\ Cache \notin alive

OneOperand(f) ==
    /\ Cache \notin alive
    /\ f \notin broken
    /\ ~threw
    /\ Kept({f})
    /\ \/ todo = <<SetEmptyOf(f)>> /\ call = <<"drop", f>> /\ f \notin alive
       \/ todo = <<EndOf(f)>> /\ call = <<"drop", f>> /\ f \in alive
       \/ \E c \in Callables : todo = <<PutIn(f, c)>> /\ call = <<"give", f, c>>
       \/ /\ f \in alive
          /\ Quiet(f)
          /\ \/ todo = <<DestroyOf(f)>> /\ call = <<"drop", f>>
             \/ todo = <<WeakDestroyOf(f), EndOf(f)>> /\ call = <<"drop", f>>
             \/ \E c \in Callables : /\ todo = <<WeakDestroyOf(f), PutIn(f, c)>>
                                     /\ call = <<"give", f, c>>

Moving(f, g) ==
    /\ Cache \notin alive
    /\ f \notin broken
    /\ f # g
    /\ Valid(g)
    /\ Movable(g)
    /\ ~threw
    /\ Kept({f})
    /\ call = <<"move", f, g>>
    /\ \/ todo = <<MoveTo(f, g)>>
       \/ todo = MoveAssignment(f, g) /\ f \in alive /\ Quiet(f)

Swapping(f, g) ==
    /\ f # g
    /\ call = <<"swap", f, g>>
    /\ Kept({f, g})
    /\ Valid(f)
    /\ Valid(g)
    /\ ~threw
    /\ \/ /\ todo = SwapAll(f, g)
          /\ Cache \notin alive
          /\ Quiet(f) /\ Quiet(g)
          /\ Held(f) = before[f] /\ Held(g) = before[g]
       \/ /\ todo = SwapFirst(f, g)
          /\ Valid(Cache) /\ Quiet(Cache)
          /\ Quiet(f) /\ IsEmpty(g)
          /\ Held(f) = before[f] /\ Held(Cache) = before[g]
       \/ /\ todo = SwapMiddle(f, g)
          /\ Valid(Cache) /\ Quiet(Cache)
          /\ Quiet(f) /\ IsEmpty(g)
          /\ Held(f) = before[f] /\ Held(Cache) = before[g]
       \/ /\ todo = SwapSecond(f)
          /\ Valid(Cache) /\ Quiet(Cache)
          /\ IsEmpty(f)
          /\ Held(g) = before[f] /\ Held(Cache) = before[g]
       \/ /\ todo = SwapLast(f)
          /\ Valid(Cache) /\ Quiet(Cache)
          /\ IsEmpty(f)
          /\ Held(g) = before[f] /\ Held(Cache) = before[g]

(* The cache of swap is destroyed, at the end or by an exception. *)
Finishing(f, g) ==
    /\ f # g
    /\ call = <<"swap", f, g>>
    /\ Kept({f, g})
    /\ Valid(Cache)
    /\ \/ ~threw /\ Held(f) = before[g] /\ Held(g) = before[f]
       \/ threw /\ {Held(f), Held(g)} \subseteq {before[f], before[g], Nothing}
    /\ \/ todo = Closing /\ Quiet(Cache)
       \/ todo = <<EndOf(Cache)>>

Stage ==
    \/ Idle
    \/ \E f \in Clients : OneOperand(f)
    \/ \E f, g \in Clients : Moving(f, g) \/ Swapping(f, g) \/ Finishing(f, g)

IInv == TypeOK /\ Sound(Vacant) /\ Stage

-----------------------------------------------------------------------------
(* Places and owners. *)

LEMMA Types ==
    ASSUME TypeOK
    PROVE  /\ alive \subseteq Functions
           /\ table \in [Functions -> {"empty", "inplace", "allocated"}]
           /\ pointer \in [Functions -> Blocks \cup {Nothing}]
           /\ box \in [Places -> Callables \cup {Nothing}]
           /\ heap \subseteq Blocks /\ todo \in Seq(Commands)
           /\ running \subseteq Places /\ broken \subseteq Places
           /\ threw \in BOOLEAN
           /\ before \in [Clients -> Callables \cup {Nothing}]
           /\ call = <<>> <=> todo = <<>>
  BY DEF TypeOK

LEMMA PlaceFacts ==
    /\ Functions \subseteq Places /\ Blocks \subseteq Places
    /\ \A p \in Places : p \in Functions \/ p \in Blocks
    /\ \A p \in Functions : p \notin Blocks
    /\ Nothing \notin Places /\ Nothing \notin Callables
    /\ Cache \in Functions /\ Clients \subseteq Functions /\ Cache \notin Clients
    /\ \A f \in Functions : f # Cache => f \in Clients
    /\ Large \subseteq Callables /\ Fragile \subseteq Callables
  BY FunctionAssumption DEF Places, Clients

LEMMA RetrieveFacts ==
    ASSUME TypeOK, NEW f \in Functions
    PROVE  /\ IsEmpty(f) => Retrieve(f) = Nothing
           /\ table[f] = "inplace" => Retrieve(f) = f /\ ~IsEmpty(f)
           /\ table[f] = "allocated" => Retrieve(f) = pointer[f] /\ ~IsEmpty(f)
           /\ IsEmpty(f) \/ table[f] = "inplace" \/ table[f] = "allocated"
  BY Types DEF Retrieve, IsEmpty

LEMMA OwnerFacts ==
    ASSUME TypeOK, NEW V, Sound(V), NEW f \in Owners(V)
    PROVE  /\ f \in alive /\ f \in Functions /\ f \notin broken /\ ~IsEmpty(f)
           /\ Retrieve(f) \in Places /\ box[Retrieve(f)] \in Callables
           /\ table[f] = "allocated" => /\ Retrieve(f) \in Blocks
                                        /\ Retrieve(f) \in heap \ broken
  <1>1. f \in alive /\ f \in Functions /\ f \notin broken /\ ~IsEmpty(f)
    BY Types DEF Owners
  <1>2. Retrieve(f) \in {p \in Places : box[p] # Nothing}
    BY DEF Sound
  <1>3. Retrieve(f) \in Places /\ box[Retrieve(f)] \in Callables
    BY <1>2, Types
  <1>4. table[f] = "allocated" => Retrieve(f) \in Blocks
    BY <1>1, <1>3, Types, RetrieveFacts, PlaceFacts
  <1>5. Retrieve(f) \in Blocks => Retrieve(f) \in heap \ broken
    BY DEF Sound
  <1>. QED
    BY <1>1, <1>3, <1>4, <1>5

(* What a function holds depends on its table, its pointer and its box.     *)
LEMMA SameHeld ==
    ASSUME NEW h, Valid(h)' <=> Valid(h), table'[h] = table[h],
           pointer'[h] = pointer[h],
           Valid(h) /\ ~IsEmpty(h) => box'[Retrieve(h)] = box[Retrieve(h)]
    PROVE  Held(h)' = Held(h) /\ Retrieve(h)' = Retrieve(h) /\ IsEmpty(h)' = IsEmpty(h)
  <1>1. Retrieve(h)' = Retrieve(h) /\ IsEmpty(h)' = IsEmpty(h)
    BY DEF Retrieve, IsEmpty
  <1>2. Held(h)' = IF Valid(h)' /\ ~IsEmpty(h)' THEN box'[Retrieve(h)'] ELSE Nothing
    BY DEF Held
  <1>3. Held(h) = IF Valid(h) /\ ~IsEmpty(h) THEN box[Retrieve(h)] ELSE Nothing
    BY DEF Held
  <1>. QED
    BY <1>1, <1>2, <1>3

(* Nothing that the owners refer to has changed. *)
Unmoved(f) ==
    \A h \in Functions \ {f} :
        /\ table'[h] = table[h] /\ pointer'[h] = pointer[h]
        /\ Retrieve(h)' = Retrieve(h) /\ IsEmpty(h)' = IsEmpty(h)
        /\ Held(h)' = Held(h)

-----------------------------------------------------------------------------
(* The box of f is destroyed. *)

DestroyedBox(f) ==
    /\ IF IsEmpty(f)
       THEN UNCHANGED <<box, heap>>
       ELSE /\ box' = [box EXCEPT ![Retrieve(f)] = Nothing]
            /\ heap' = heap \ {Retrieve(f)}
    /\ table' = table \/ table' = [table EXCEPT ![f] = "empty"]
    /\ UNCHANGED <<alive, pointer, running, broken>>

LEMMA DestroyData ==
    ASSUME TypeOK, Sound({}), NEW f \in Functions, Valid(f), Quiet(f), DestroyedBox(f)
    PROVE  /\ Sound({f})'
           /\ table'[f] = "empty" => Sound({})'
           /\ Unmoved(f)
           /\ box' \in [Places -> Callables \cup {Nothing}] /\ heap' \subseteq Blocks
  <1>. DEFINE O == Owners({f})
  <1>1. /\ UNCHANGED <<alive, pointer, running, broken>>
        /\ \A h \in Functions \ {f} : table'[h] = table[h]
        /\ f \in alive /\ f \notin broken
    BY Types DEF DestroyedBox, Valid
  <1>2. /\ \A h \in O : h \in Owners({}) /\ h # f
        /\ \A h \in Owners({}) : h = f \/ h \in O
        /\ ~IsEmpty(f) => f \in Owners({})
        /\ IsEmpty(f) => f \notin Owners({})
    BY <1>1 DEF Owners
  <1>3. \A h \in Functions \ {f} :
           Retrieve(h)' = Retrieve(h) /\ IsEmpty(h)' = IsEmpty(h) /\ Valid(h)' = Valid(h)
    BY <1>1 DEF Retrieve, IsEmpty, Valid
  <1>4. O' = O
    BY <1>1, <1>3, Types DEF Owners
  <1>5. \A h \in O : ~IsEmpty(f) => Retrieve(h) # Retrieve(f)
    BY <1>2 DEF Sound
  <1>6. /\ \A p \in Places : box'[p] = IF ~IsEmpty(f) /\ p = Retrieve(f)
                                       THEN Nothing ELSE box[p]
        /\ box' \in [Places -> Callables \cup {Nothing}] /\ heap' \subseteq Blocks
        /\ \A p : p \in heap' <=> p \in heap /\ (IsEmpty(f) \/ p # Retrieve(f))
    BY Types DEF DestroyedBox
  <1>7. \A h \in Functions \ {f} : Valid(h) /\ ~IsEmpty(h) =>
           h \in O /\ Retrieve(h) \in Places /\ box'[Retrieve(h)] = box[Retrieve(h)]
    <2>. SUFFICES ASSUME NEW h \in Functions \ {f}, Valid(h), ~IsEmpty(h)
                  PROVE  /\ h \in O /\ Retrieve(h) \in Places
                         /\ box'[Retrieve(h)] = box[Retrieve(h)]
      OBVIOUS
    <2>1. h \in O
      BY DEF Owners, Valid
    <2>2. Retrieve(h) \in Places
      BY <1>2, <2>1, OwnerFacts
    <2>. QED
      BY <1>5, <1>6, <2>1, <2>2
  <1>8. Unmoved(f)
    BY <1>1, <1>3, <1>7, SameHeld DEF Unmoved
  <1>9. \A h \in O : Retrieve(h)' = Retrieve(h) /\ h \in Functions
    BY <1>2, <1>3, OwnerFacts
  <1>10. Sound({f})'
    <2>1. \A g, h \in O' : Retrieve(g)' = Retrieve(h)' => g = h
      BY <1>2, <1>4, <1>9 DEF Sound
    <2>2. {p \in Places : box'[p] # Nothing} = {Retrieve(h)' : h \in O'}
      <3>1. \A p \in Places : box[p] # Nothing <=> \E h \in Owners({}) : p = Retrieve(h)
        BY DEF Sound
      <3>2. \A h \in O : Retrieve(h) \in Places
        BY <1>2, OwnerFacts
      <3>3. \A p \in Places : box'[p] # Nothing <=> \E h \in O : p = Retrieve(h)
        BY <1>2, <1>5, <1>6, <3>1
      <3>. QED
        BY <1>4, <1>9, <3>2, <3>3
    <2>3. heap' \ broken' = {Retrieve(h)' : h \in O'} \cap Blocks
      <3>1. \A p : p \in heap \ broken
                     <=> p \in Blocks /\ \E h \in Owners({}) : p = Retrieve(h)
        BY DEF Sound
      <3>2. \A p : p \in heap' \ broken' <=> p \in Blocks /\ \E h \in O : p = Retrieve(h)
        BY <1>1, <1>2, <1>5, <1>6, <3>1
      <3>. QED
        BY <1>4, <1>9, <3>2
    <2>4. \A p \in running' : box'[p] # Nothing
      BY <1>1, <1>6, Types DEF Sound, Quiet
    <2>5. broken' \cap Functions \subseteq alive' /\ broken' \cap Blocks \subseteq heap'
      <3>1. ~IsEmpty(f) => Retrieve(f) \notin broken \cap Blocks
        BY <1>2 DEF Sound
      <3>. QED
        BY <1>1, <1>6, <3>1 DEF Sound
    <2>. QED
      BY <2>1, <2>2, <2>3, <2>4, <2>5 DEF Sound
  <1>11. ASSUME table'[f] = "empty" PROVE Sound({})'
    <2>1. Owners({})' = Owners({f})'
      BY <1>11 DEF Owners, IsEmpty
    <2>. QED
      BY <1>10, <2>1 DEF Sound
  <1>. QED
    BY <1>6, <1>8, <1>10, <1>11

(* The lifetime of f ends after its box was destroyed. *)
LEMMA EndData ==
    ASSUME TypeOK, NEW f \in Functions, Sound({f}), Valid(f),
           alive' = alive \ {f}, UNCHANGED <<table, pointer, box, heap, running, broken>>
    PROVE  /\ Sound({})'
           /\ Unmoved(f)
           /\ Held(f)' = Nothing
  <1>1. \A h \in Functions \ {f} : Valid(h)' <=> Valid(h)
    BY DEF Valid
  <1>2. Unmoved(f) /\ \A h \in Functions : Retrieve(h)' = Retrieve(h)
    <2>1. Unmoved(f)
      BY <1>1, SameHeld DEF Unmoved
    <2>2. \A h \in Functions : Retrieve(h)' = Retrieve(h)
      BY DEF Retrieve
    <2>. QED
      BY <2>1, <2>2
  <1>3. Owners({})' = Owners({f})
    BY DEF Owners, IsEmpty
  <1>4. \A h \in Owners({f}) : Retrieve(h)' = Retrieve(h)
    BY <1>2, OwnerFacts
  <1>5. Held(f)' = Nothing
    BY DEF Held, Valid
  <1>6. Sound({})'
    <2>1. \A g, h \in Owners({})' : Retrieve(g)' = Retrieve(h)' => g = h
      BY <1>3, <1>4 DEF Sound
    <2>2. {Retrieve(h)' : h \in Owners({})'} = {Retrieve(h) : h \in Owners({f})}
      BY <1>3, <1>4
    <2>3. broken' \cap Functions \subseteq alive' /\ broken' \cap Blocks \subseteq heap'
      BY DEF Sound, Valid
    <2>. QED
      BY <2>1, <2>2, <2>3 DEF Sound
  <1>. QED
    BY <1>2, <1>5, <1>6

(* An exception leaves f without a box, and new blocks without an owner.   *)
LEMMA AbandonData ==
    ASSUME TypeOK, NEW f \in Functions, Sound({f}), f \notin broken,
           \A h \in Functions \ {f} : table'[h] = table[h] /\ pointer'[h] = pointer[h],
           UNCHANGED <<alive, box, running>>,
           heap \subseteq heap', heap' \subseteq Blocks,
           broken' = broken \cup (heap' \ heap)
                       \cup (IF f \in alive /\ table'[f] # "empty" THEN {f} ELSE {})
    PROVE  /\ Sound({})'
           /\ Unmoved(f)
           /\ Held(f)' = Nothing
           /\ \A h \in Functions \ {f} : Valid(h)' <=> Valid(h)
  <1>1. \A h \in Functions \ {f} : h \in broken' <=> h \in broken
    BY PlaceFacts
  <1>2. \A h \in Functions \ {f} : Valid(h)' <=> Valid(h)
    BY <1>1 DEF Valid
  <1>3. \A h \in Functions \ {f} :
           Retrieve(h)' = Retrieve(h) /\ IsEmpty(h)' = IsEmpty(h) /\ Held(h)' = Held(h)
    BY <1>2, SameHeld
  <1>4. Unmoved(f)
    BY <1>3 DEF Unmoved
  <1>5. f \in alive \ broken' => IsEmpty(f)'
    BY DEF IsEmpty
  <1>6. Owners({})' = Owners({f})
    <2>1. \A h \in Functions \ {f} : h \in Owners({})' <=> h \in Owners({f})
      BY <1>2, <1>3 DEF Owners, Valid
    <2>2. f \notin Owners({})' /\ f \notin Owners({f})
      BY <1>5 DEF Owners
    <2>3. Owners({})' \subseteq Functions /\ Owners({f}) \subseteq Functions
      BY Types DEF Owners
    <2>. QED
      BY <2>1, <2>2, <2>3
  <1>7. \A h \in Owners({f}) : Retrieve(h)' = Retrieve(h)
    BY <1>3, OwnerFacts DEF Owners
  <1>8. Held(f)' = Nothing
    BY <1>5 DEF Held, Valid
  <1>9. Sound({})'
    <2>1. \A g, h \in Owners({})' : Retrieve(g)' = Retrieve(h)' => g = h
      <3>1. \A g, h \in Owners({f}) : Retrieve(g) = Retrieve(h) => g = h
        BY DEF Sound
      <3>. QED
        BY <1>6, <1>7, <3>1
    <2>2. {Retrieve(h)' : h \in Owners({})'} = {Retrieve(h) : h \in Owners({f})}
      BY <1>6, <1>7
    <2>3. /\ broken' \cap Functions \subseteq alive'
          /\ broken' \cap Blocks \subseteq heap'
          /\ heap' \ broken' = heap \ broken
      BY PlaceFacts DEF Sound
    <2>. QED
      BY <2>1, <2>2, <2>3 DEF Sound
  <1>. QED
    BY <1>2, <1>4, <1>8, <1>9

(* A callable is put into f. *)
LEMMA InitData ==
    ASSUME TypeOK, NEW f \in Functions, NEW c \in Callables, Sound({f}), f \notin broken,
           Prepare(f, c), box' = [box EXCEPT ![Prepared(f)] = c],
           alive' = alive \cup {f}, UNCHANGED <<running, broken>>
    PROVE  /\ Sound({})'
           /\ Unmoved(f)
           /\ Held(f)' = c
           /\ table' \in [Functions -> {"empty", "inplace", "allocated"}]
           /\ pointer' \in [Functions -> Blocks \cup {Nothing}]
           /\ box' \in [Places -> Callables \cup {Nothing}] /\ heap' \subseteq Blocks
  <1>. DEFINE O == Owners({f})
              place == Prepared(f)
  <1>1. /\ \A h \in Functions \ {f} : table'[h] = table[h] /\ pointer'[h] = pointer[h]
        /\ table' \in [Functions -> {"empty", "inplace", "allocated"}]
        /\ pointer' \in [Functions -> Blocks \cup {Nothing}]
        /\ \/ /\ table'[f] = "inplace" /\ heap' = heap /\ place = f
           \/ /\ table'[f] = "allocated" /\ place = pointer'[f]
              /\ place \in Blocks \ heap /\ heap' = heap \cup {place}
    <2>1. CASE c \in Large
      <3>1. PICK b \in Blocks \ heap : /\ heap' = heap \cup {b}
                                       /\ pointer' = [pointer EXCEPT ![f] = b]
                                       /\ table' = [table EXCEPT ![f] = "allocated"]
        BY <2>1 DEF Prepare
      <3>. QED
        BY <3>1, Types DEF Prepared
    <2>2. CASE c \notin Large
      <3>1. /\ pointer' = [pointer EXCEPT ![f] = Nothing] /\ heap' = heap
            /\ table' = [table EXCEPT ![f] = "inplace"]
        BY <2>2 DEF Prepare
      <3>. QED
        BY <3>1, Types DEF Prepared
    <2>. QED
      BY <2>1, <2>2
  <1>2. /\ place \in Places
        /\ \A p \in Places : box'[p] = IF p = place THEN c ELSE box[p]
        /\ box' \in [Places -> Callables \cup {Nothing}] /\ heap' \subseteq Blocks
        /\ c # Nothing
    BY <1>1, Types, PlaceFacts
  <1>3. \A h \in O : h \in Functions /\ h # f /\ Retrieve(h) # place
    <2>. SUFFICES ASSUME NEW h \in O
                  PROVE  h \in Functions /\ h # f /\ Retrieve(h) # place
      OBVIOUS
    <2>1. h \in Functions /\ h # f
      BY OwnerFacts DEF Owners
    <2>2. \/ table[h] = "inplace" /\ Retrieve(h) = h
          \/ table[h] = "allocated" /\ Retrieve(h) \in heap /\ Retrieve(h) \in Blocks
      BY <2>1, OwnerFacts, RetrieveFacts
    <2>. QED
      BY <1>1, <2>1, <2>2, PlaceFacts
  <1>4. \A h \in Functions \ {f} : Valid(h)' <=> Valid(h)
    BY DEF Valid
  <1>5. \A h \in Functions \ {f} : Valid(h) /\ ~IsEmpty(h) =>
                                      box'[Retrieve(h)] = box[Retrieve(h)]
    <2>1. \A h \in Functions \ {f} : Valid(h) /\ ~IsEmpty(h) => h \in O
      BY DEF Owners, Valid
    <2>. QED
      BY <1>2, <1>3, <2>1, OwnerFacts
  <1>6. \A h \in Functions \ {f} :
           Retrieve(h)' = Retrieve(h) /\ IsEmpty(h)' = IsEmpty(h) /\ Held(h)' = Held(h)
    BY <1>1, <1>4, <1>5, SameHeld
  <1>7. Unmoved(f)
    BY <1>1, <1>6 DEF Unmoved
  <1>8. Retrieve(f)' = place /\ ~IsEmpty(f)' /\ Valid(f)'
    BY <1>1 DEF Retrieve, IsEmpty, Valid
  <1>9. Held(f)' = c
    BY <1>2, <1>8 DEF Held
  <1>10. /\ \A h \in Owners({})' : h = f \/ h \in O
         /\ \A h \in O : h \in Owners({})'
         /\ f \in Owners({})'
    <2>1. \A h \in Functions \ {f} : h \in Owners({})' <=> h \in O
      BY <1>4, <1>6 DEF Owners, Valid
    <2>2. Owners({})' \subseteq Functions
      BY Types DEF Owners
    <2>3. f \in Owners({})'
      BY <1>8 DEF Owners, Valid
    <2>. QED
      BY <1>3, <2>1, <2>2, <2>3
  <1>11. \A h \in O : Retrieve(h)' = Retrieve(h)
    BY <1>3, <1>6
  <1>12. Sound({})'
    <2>. HIDE DEF O, place
    <2>1. \A g, h \in Owners({})' : Retrieve(g)' = Retrieve(h)' => g = h
      <3>1. \A g, h \in O : Retrieve(g) = Retrieve(h) => g = h
        BY DEF Sound, O
      <3>. QED
        BY <1>3, <1>8, <1>10, <1>11, <3>1
    <2>2. {p \in Places : box'[p] # Nothing} = {Retrieve(h)' : h \in Owners({})'}
      <3>1. \A p \in Places : box[p] # Nothing <=> \E h \in O : p = Retrieve(h)
        BY DEF Sound, O
      <3>2. \A h \in Owners({})' : Retrieve(h)' \in Places
        BY <1>2, <1>8, <1>10, <1>11, OwnerFacts DEF O
      <3>3. \A p \in Places : box'[p] # Nothing <=> \E h \in Owners({})' : p = Retrieve(h)'
        <4>1. \A p \in Places : box'[p] # Nothing => \E h \in Owners({})' : p = Retrieve(h)'
          BY <1>2, <1>8, <1>10, <1>11, <3>1
        <4>2. \A h \in Owners({})' : box'[Retrieve(h)'] # Nothing
          <5>. SUFFICES ASSUME NEW h \in Owners({})' PROVE box'[Retrieve(h)'] # Nothing
            OBVIOUS
          <5>1. CASE h = f
            BY <1>2, <1>8, <5>1
          <5>2. CASE h \in O
            BY <1>2, <1>3, <1>11, <3>1, <3>2, <5>2
          <5>. QED
            BY <1>10, <5>1, <5>2
        <4>. QED
          BY <4>1, <4>2
      <3>. QED
        BY <3>2, <3>3
    <2>3. heap' \ broken' = {Retrieve(h)' : h \in Owners({})'} \cap Blocks
      <3>1. \A p : p \in heap \ broken <=> p \in Blocks /\ \E h \in O : p = Retrieve(h)
        BY DEF Sound, O
      <3>2. \A p : p \in heap' <=> p \in heap \/ (p = place /\ place \in Blocks)
        BY <1>1, PlaceFacts DEF place
      <3>3. place \in Blocks => place \notin broken
        BY <1>1, PlaceFacts DEF Sound, place
      <3>4. \A p : p \in heap' \ broken'
                     <=> p \in Blocks /\ \E h \in Owners({})' : p = Retrieve(h)'
        <4>1. \A p : p \in heap' \ broken'
                     <=> p \in heap \ broken \/ (p = place /\ place \in Blocks)
          BY <3>2, <3>3
        <4>2. \A p : (\E h \in Owners({})' : p = Retrieve(h)')
                        <=> p = place \/ \E h \in O : p = Retrieve(h)
          BY <1>8, <1>10, <1>11
        <4>. QED
          BY <3>1, <4>1, <4>2
      <3>. QED
        BY <3>4
    <2>4. \A p \in running' : box'[p] # Nothing
      BY <1>2, Types DEF Sound
    <2>5. broken' \cap Functions \subseteq alive' /\ broken' \cap Blocks \subseteq heap'
      BY <1>1 DEF Sound
    <2>. QED
      BY <2>1, <2>2, <2>3, <2>4, <2>5 DEF Sound
  <1>. QED
    BY <1>1, <1>2, <1>7, <1>9, <1>12

(* The box of g becomes the box of f. *)
MovedBox(f, g) ==
    /\ CASE table[g] = "allocated" ->
                /\ pointer' = [pointer EXCEPT ![f] = pointer[g]]
                /\ UNCHANGED box
         [] table[g] = "inplace" ->
                /\ pointer' = [pointer EXCEPT ![f] = Nothing]
                /\ box' = [box EXCEPT ![f] = box[g], ![g] = Nothing]
         [] OTHER -> UNCHANGED <<pointer, box>>
    /\ table' = [table EXCEPT ![f] = table[g], ![g] = "empty"]
    /\ alive' = alive \cup {f}
    /\ UNCHANGED <<heap, running, broken>>

UnmovedBut(f, g) ==
    \A h \in Functions \ {f, g} :
        /\ table'[h] = table[h] /\ pointer'[h] = pointer[h]
        /\ Retrieve(h)' = Retrieve(h) /\ IsEmpty(h)' = IsEmpty(h)
        /\ Held(h)' = Held(h)

(* What MovedBox does, by where the box of g is. *)
LEMMA MoveCases ==
    ASSUME TypeOK, NEW f \in Functions, NEW g \in Functions, f # g, MovedBox(f, g)
    PROVE  /\ \A h \in Functions \ {f, g} : table'[h] = table[h] /\ pointer'[h] = pointer[h]
           /\ table'[g] = "empty" /\ pointer'[g] = pointer[g]
           /\ table'[f] = table[g]
           /\ table[g] = "allocated" => pointer'[f] = pointer[g] /\ box' = box
           /\ table[g] = "inplace" =>
                /\ \A p \in Places : box'[p] = IF p = g THEN Nothing
                                                ELSE IF p = f THEN box[g] ELSE box[p]
           /\ table[g] = "empty" => pointer' = pointer /\ box' = box
           /\ table' \in [Functions -> {"empty", "inplace", "allocated"}]
           /\ pointer' \in [Functions -> Blocks \cup {Nothing}]
           /\ box' \in [Places -> Callables \cup {Nothing}]
  <1>1. /\ table' = [table EXCEPT ![f] = table[g], ![g] = "empty"]
        /\ table[g] \in {"empty", "inplace", "allocated"}
        /\ f \in Places /\ g \in Places
    BY Types, PlaceFacts DEF MovedBox
  <1>2. CASE table[g] = "allocated"
    <2>1. pointer' = [pointer EXCEPT ![f] = pointer[g]] /\ box' = box
      BY <1>2 DEF MovedBox
    <2>. QED
      BY <1>1, <1>2, <2>1, Types
  <1>3. CASE table[g] = "inplace"
    <2>1. /\ pointer' = [pointer EXCEPT ![f] = Nothing]
          /\ box' = [box EXCEPT ![f] = box[g], ![g] = Nothing]
      BY <1>3 DEF MovedBox
    <2>. QED
      BY <1>1, <1>3, <2>1, Types
  <1>4. CASE table[g] = "empty"
    <2>1. pointer' = pointer /\ box' = box
      BY <1>4 DEF MovedBox
    <2>. QED
      BY <1>1, <1>4, <2>1, Types
  <1>. QED
    BY <1>1, <1>2, <1>3, <1>4

LEMMA MoveData ==
    ASSUME TypeOK, NEW f \in Functions, NEW g \in Functions, f # g, Sound({f}),
           f \notin broken, Valid(g), Movable(g), MovedBox(f, g)
    PROVE  /\ Sound({})'
           /\ UnmovedBut(f, g)
           /\ Held(f)' = Held(g) /\ Held(g)' = Nothing /\ IsEmpty(g)'
           /\ Quiet(g) => Quiet(f)'
           /\ table' \in [Functions -> {"empty", "inplace", "allocated"}]
           /\ pointer' \in [Functions -> Blocks \cup {Nothing}]
           /\ box' \in [Places -> Callables \cup {Nothing}]
  <1>. DEFINE O == Owners({f})
  <1>1. /\ alive' = alive \cup {f}
        /\ heap' = heap /\ running' = running /\ broken' = broken
        /\ f \in Places /\ g \in Places /\ f \notin Blocks /\ g \notin Blocks
    BY PlaceFacts DEF MovedBox
  <1>2. /\ IsEmpty(g) => g \notin O
        /\ ~IsEmpty(g) => g \in O
        /\ f \notin O
    BY DEF Owners, Valid
  <1>3. \A h \in O : /\ h \in Functions /\ h # f /\ Retrieve(h) # f
                     /\ Retrieve(h) \in Places
                     /\ Retrieve(h) = g => h = g
    <2>. SUFFICES ASSUME NEW h \in O
                  PROVE  /\ h \in Functions /\ h # f /\ Retrieve(h) # f
                         /\ Retrieve(h) \in Places
                         /\ Retrieve(h) = g => h = g
      OBVIOUS
    <2>1. h \in Functions /\ h # f /\ Retrieve(h) \in Places
      BY OwnerFacts DEF Owners
    <2>2. \/ table[h] = "inplace" /\ Retrieve(h) = h
          \/ table[h] = "allocated" /\ Retrieve(h) \in Blocks
      BY <2>1, OwnerFacts, RetrieveFacts
    <2>. QED
      BY <1>1, <2>1, <2>2
  <1>4. \A h \in Functions \ {f} : Valid(h)' <=> Valid(h)
    BY <1>1 DEF Valid
  <1>5. Valid(f)' /\ Valid(g)' /\ IsEmpty(g)' /\ Held(g)' = Nothing
    BY <1>1, <1>4, MoveCases DEF Valid, IsEmpty, Held
  <1>6. \A h \in Functions \ {f, g} :
           Valid(h) /\ ~IsEmpty(h) => box'[Retrieve(h)] = box[Retrieve(h)]
    <2>. SUFFICES ASSUME NEW h \in Functions \ {f, g}, Valid(h), ~IsEmpty(h)
                  PROVE  box'[Retrieve(h)] = box[Retrieve(h)]
      OBVIOUS
    <2>1. h \in O
      BY DEF Owners, Valid
    <2>2. Retrieve(h) # f /\ Retrieve(h) # g /\ Retrieve(h) \in Places
      BY <1>3, <2>1
    <2>. QED
      BY <2>2, MoveCases, RetrieveFacts DEF IsEmpty
  <1>7. UnmovedBut(f, g)
    BY <1>4, <1>6, MoveCases, SameHeld DEF UnmovedBut
  <1>8. /\ table[g] = "inplace" => Retrieve(f)' = f /\ Retrieve(g) = g
        /\ table[g] = "allocated" => Retrieve(f)' = Retrieve(g)
        /\ IsEmpty(g) => Retrieve(f)' = Nothing /\ Retrieve(g) = Nothing
        /\ IsEmpty(f)' = IsEmpty(g)
        /\ table[g] \in {"inplace", "allocated"} \/ IsEmpty(g)
    BY MoveCases, RetrieveFacts DEF Retrieve, IsEmpty
  <1>9. Held(f)' = Held(g)
    <2>1. Held(f)' = IF IsEmpty(f)' THEN Nothing ELSE box'[Retrieve(f)']
      BY <1>5 DEF Held
    <2>2. Held(g) = IF IsEmpty(g) THEN Nothing ELSE box[Retrieve(g)]
      BY DEF Held
    <2>. QED
      BY <1>1, <1>8, <2>1, <2>2, MoveCases
  <1>10. \A p \in running : p # f /\ p # g /\ p \in Places /\ box[p] # Nothing
    <2>1. \A p \in running : p \in Places /\ box[p] # Nothing
      BY Types DEF Sound
    <2>2. \A p \in Places : box[p] # Nothing => p # f
      <3>1. \A p \in Places : box[p] # Nothing <=> \E h \in O : p = Retrieve(h)
        BY DEF Sound
      <3>. QED
        BY <1>3, <3>1
    <2>. QED
      BY <2>1, <2>2 DEF Movable
  <1>11. Quiet(g) => Quiet(f)'
    BY <1>1, <1>8, <1>10, PlaceFacts DEF Quiet
  <1>12. \A h : h \in Owners({})' <=> (h = f /\ ~IsEmpty(g)) \/ (h \in O /\ h # g)
    <2>1. \A h \in Functions \ {f, g} : h \in Owners({})' <=> h \in O
      BY <1>4, <1>7 DEF Owners, Valid, UnmovedBut
    <2>2. Owners({})' \subseteq Functions
      BY <1>1, Types DEF Owners
    <2>3. g \notin Owners({})' /\ (f \in Owners({})' <=> ~IsEmpty(g))
      BY <1>5, <1>8 DEF Owners, Valid
    <2>. QED
      BY <1>2, <1>3, <2>1, <2>2, <2>3
  <1>13. \A h \in O : h # g => Retrieve(h)' = Retrieve(h)
    BY <1>3, <1>7 DEF UnmovedBut
  <1>14. Sound({})'
    <2>. HIDE DEF O
    <2>0. \A a, b \in O : Retrieve(a) = Retrieve(b) => a = b
      BY DEF Sound, O
    <2>1. \A a, b \in Owners({})' : Retrieve(a)' = Retrieve(b)' => a = b
      <3>1. \A a \in O : a # g => Retrieve(a)' # Retrieve(f)' \/ IsEmpty(g)
        BY <1>2, <1>3, <1>8, <1>13, <2>0
      <3>. QED
        BY <1>12, <1>13, <2>0, <3>1
    <2>2. {p \in Places : box'[p] # Nothing} = {Retrieve(h)' : h \in Owners({})'}
      <3>1. \A p \in Places : box[p] # Nothing <=> \E h \in O : p = Retrieve(h)
        BY DEF Sound, O
      <3>2. \A h \in Owners({})' : Retrieve(h)' \in Places
        BY <1>1, <1>2, <1>3, <1>8, <1>12, <1>13
      <3>3. \A p : (\E h \in Owners({})' : p = Retrieve(h)')
                     <=> \/ p = Retrieve(f)' /\ ~IsEmpty(g)
                         \/ \E h \in O : h # g /\ p = Retrieve(h)
        BY <1>12, <1>13
      <3>4. CASE IsEmpty(g)
        BY <1>2, <3>1, <3>2, <3>3, <3>4, MoveCases, RetrieveFacts DEF IsEmpty
      <3>5. CASE table[g] = "allocated"
        <4>1. \A p \in Places : box'[p] # Nothing <=> \E h \in O : p = Retrieve(h)
          BY <3>1, <3>5, MoveCases
        <4>2. Retrieve(f)' = Retrieve(g) /\ g \in O /\ ~IsEmpty(g)
          BY <1>2, <1>8, <3>5, RetrieveFacts
        <4>3. \A p : (\E h \in O : p = Retrieve(h))
                       <=> p = Retrieve(g) \/ \E h \in O : h # g /\ p = Retrieve(h)
          BY <4>2
        <4>. QED
          BY <3>2, <3>3, <4>1, <4>2, <4>3
      <3>6. CASE table[g] = "inplace"
        <4>1. /\ Retrieve(f)' = f /\ Retrieve(g) = g /\ g \in O /\ ~IsEmpty(g)
              /\ box[g] # Nothing
          BY <1>1, <1>2, <1>8, <3>1, <3>6, RetrieveFacts
        <4>2. \A p \in Places : box'[p] # Nothing
                                  <=> p = f \/ (p # g /\ box[p] # Nothing)
          BY <3>6, <4>1, MoveCases
        <4>3. \A p \in Places : p # g /\ box[p] # Nothing
                                  <=> \E h \in O : h # g /\ p = Retrieve(h)
          BY <1>3, <3>1, <4>1
        <4>. QED
          BY <3>2, <3>3, <4>1, <4>2, <4>3
      <3>. QED
        BY <1>8, <3>4, <3>5, <3>6
    <2>3. heap' \ broken' = {Retrieve(h)' : h \in Owners({})'} \cap Blocks
      <3>1. \A p : p \in heap \ broken <=> p \in Blocks /\ \E h \in O : p = Retrieve(h)
        BY DEF Sound, O
      <3>2. \A p \in Blocks : (\E h \in Owners({})' : p = Retrieve(h)')
                                 <=> \E h \in O : p = Retrieve(h)
        <4>1. \A p : (\E h \in Owners({})' : p = Retrieve(h)')
                       <=> \/ p = Retrieve(f)' /\ ~IsEmpty(g)
                           \/ \E h \in O : h # g /\ p = Retrieve(h)
          BY <1>12, <1>13
        <4>2. \A p : (\E h \in O : p = Retrieve(h))
                       <=> \/ p = Retrieve(g) /\ ~IsEmpty(g)
                           \/ \E h \in O : h # g /\ p = Retrieve(h)
          BY <1>2
        <4>. QED
          BY <1>1, <1>8, <4>1, <4>2
      <3>. QED
        BY <1>1, <3>1, <3>2
    <2>4. \A p \in running' : box'[p] # Nothing
      BY <1>1, <1>8, <1>10, MoveCases, RetrieveFacts DEF IsEmpty
    <2>5. broken' \cap Functions \subseteq alive' /\ broken' \cap Blocks \subseteq heap'
      BY <1>1 DEF Sound
    <2>. QED
      BY <2>1, <2>2, <2>3, <2>4, <2>5 DEF Sound
  <1>. QED
    BY <1>5, <1>7, <1>9, <1>11, <1>14, MoveCases

-----------------------------------------------------------------------------
(* The programs. *)

LEMMA Fields ==
    ASSUME NEW f, NEW g, NEW c
    PROVE  /\ SetEmptyOf(f).op = "set_empty" /\ SetEmptyOf(f).to = f
           /\ WeakDestroyOf(f).op = "weak_destroy" /\ WeakDestroyOf(f).to = f
           /\ DestroyOf(f).op = "destroy" /\ DestroyOf(f).to = f
           /\ EndOf(f).op = "end" /\ EndOf(f).to = f
           /\ PutIn(f, c).op = "init" /\ PutIn(f, c).to = f /\ PutIn(f, c).callable = c
           /\ MoveTo(f, g).op = "move" /\ MoveTo(f, g).to = f /\ MoveTo(f, g).from = g
  BY DEF SetEmptyOf, WeakDestroyOf, DestroyOf, EndOf, PutIn, MoveTo

LEMMA AreCommands ==
    ASSUME NEW f \in Functions, NEW g \in Functions, NEW c \in Callables
    PROVE  /\ SetEmptyOf(f) \in Commands /\ WeakDestroyOf(f) \in Commands
           /\ DestroyOf(f) \in Commands /\ EndOf(f) \in Commands
           /\ PutIn(f, c) \in Commands /\ MoveTo(f, g) \in Commands
  BY DEF SetEmptyOf, WeakDestroyOf, DestroyOf, EndOf, PutIn, MoveTo, Commands

LEMMA ShortPrograms ==
    ASSUME NEW S, NEW x \in S, NEW y \in S
    PROVE  /\ <<x>> # <<>> /\ <<x>> \in Seq(S) /\ Head(<<x>>) = x /\ Tail(<<x>>) = <<>>
           /\ <<x, y>> # <<>> /\ <<x, y>> \in Seq(S)
           /\ Head(<<x, y>>) = x /\ Tail(<<x, y>>) = <<y>>
  <1>1. <<x, y>> \in Seq(S) /\ Len(<<x, y>>) = 2
    OBVIOUS
  <1>2. Tail(<<x, y>>) = <<y>>
    <2>1. Tail(<<x, y>>) \in Seq(S) /\ <<y>> \in Seq(S)
      BY <1>1
    <2>2. Len(Tail(<<x, y>>)) = 1 /\ Len(<<y>>) = 1
      BY <1>1
    <2>3. Tail(<<x, y>>)[1] = y /\ <<y>>[1] = y
      BY <1>1
    <2>. QED
      BY <2>1, <2>2, <2>3, SeqEqual
  <1>3. Tail(<<x>>) = <<>>
    <2>1. Tail(<<x>>) \in Seq(S) /\ Len(Tail(<<x>>)) = 0
      OBVIOUS
    <2>. QED
      BY <2>1, EmptySeq
  <1>. QED
    BY <1>1, <1>2, <1>3

LEMMA LongPrograms ==
    ASSUME NEW S, NEW x \in S, NEW y \in S, NEW s \in Seq(S)
    PROVE  /\ <<x>> \o s \in Seq(S) /\ <<x>> \o s # <<>>
           /\ Head(<<x>> \o s) = x /\ Tail(<<x>> \o s) = s
           /\ <<x, y>> \o s = <<x>> \o (<<y>> \o s)
  <1>1. /\ <<x>> \o s \in Seq(S) /\ Len(<<x>> \o s) = 1 + Len(s)
        /\ \A i \in 1 .. 1 + Len(s) : (<<x>> \o s)[i] = IF i = 1 THEN x ELSE s[i - 1]
    OBVIOUS
  <1>2. Tail(<<x>> \o s) = s
    <2>1. Tail(<<x>> \o s) \in Seq(S) /\ Len(Tail(<<x>> \o s)) = Len(s)
      BY <1>1
    <2>2. \A i \in 1 .. Len(s) : Tail(<<x>> \o s)[i] = s[i]
      BY <1>1
    <2>. QED
      BY <2>1, <2>2, SeqEqual
  <1>3. <<x, y>> \o s = <<x>> \o (<<y>> \o s)
    <2>1. /\ <<y>> \o s \in Seq(S) /\ Len(<<y>> \o s) = 1 + Len(s)
          /\ \A i \in 1 .. 1 + Len(s) : (<<y>> \o s)[i] = IF i = 1 THEN y ELSE s[i - 1]
      OBVIOUS
    <2>2. /\ <<x>> \o (<<y>> \o s) \in Seq(S)
          /\ Len(<<x>> \o (<<y>> \o s)) = 2 + Len(s)
          /\ \A i \in 1 .. 2 + Len(s) :
                (<<x>> \o (<<y>> \o s))[i] = IF i = 1 THEN x ELSE (<<y>> \o s)[i - 1]
      <3>. DEFINE t == <<y>> \o s
      <3>1. t \in Seq(S) /\ Len(t) = 1 + Len(s)
        BY <2>1
      <3>. HIDE DEF t
      <3>2. /\ <<x>> \o t \in Seq(S) /\ Len(<<x>> \o t) = 1 + Len(t)
            /\ \A i \in 1 .. 1 + Len(t) : (<<x>> \o t)[i] = IF i = 1 THEN x ELSE t[i - 1]
        BY <3>1
      <3>3. Len(s) \in Nat /\ 1 + Len(t) = 2 + Len(s)
        BY <3>1
      <3>4. /\ <<x>> \o t \in Seq(S) /\ Len(<<x>> \o t) = 2 + Len(s)
            /\ \A i \in 1 .. 2 + Len(s) : (<<x>> \o t)[i] = IF i = 1 THEN x ELSE t[i - 1]
        BY <3>2, <3>3
      <3>. QED
        BY <3>4 DEF t
    <2>3. /\ <<x, y>> \o s \in Seq(S) /\ Len(<<x, y>> \o s) = 2 + Len(s)
          /\ \A i \in 1 .. 2 + Len(s) :
                (<<x, y>> \o s)[i] = IF i = 1 THEN x ELSE IF i = 2 THEN y ELSE s[i - 2]
      OBVIOUS
    <2>4. \A i \in 1 .. 2 + Len(s) :
             (<<x>> \o (<<y>> \o s))[i] = IF i = 1 THEN x ELSE IF i = 2 THEN y ELSE s[i - 2]
      <3>. SUFFICES ASSUME NEW i \in 1 .. 2 + Len(s), i # 1
                    PROVE  (<<y>> \o s)[i - 1] = IF i = 2 THEN y ELSE s[i - 2]
        BY <2>2
      <3>. QED
        BY <2>1
    <2>. QED
      BY <2>2, <2>3, <2>4, SeqEqual
  <1>. QED
    BY <1>1, <1>2, <1>3

LEMMA SwapPrograms ==
    ASSUME NEW f \in Functions, NEW g \in Functions
    PROVE  /\ \A p \in {SwapAll(f, g), SwapFirst(f, g), SwapMiddle(f, g),
                        SwapSecond(f), SwapLast(f), Closing} :
                p \in Seq(Commands) /\ p # <<>>
           /\ Head(SwapAll(f, g)) = MoveTo(Cache, g) /\ Tail(SwapAll(f, g)) = SwapFirst(f, g)
           /\ Head(SwapFirst(f, g)) = WeakDestroyOf(g)
           /\ Tail(SwapFirst(f, g)) = SwapMiddle(f, g)
           /\ Head(SwapMiddle(f, g)) = MoveTo(g, f)
           /\ Tail(SwapMiddle(f, g)) = SwapSecond(f)
           /\ Head(SwapSecond(f)) = WeakDestroyOf(f) /\ Tail(SwapSecond(f)) = SwapLast(f)
           /\ Head(SwapLast(f)) = MoveTo(f, Cache) /\ Tail(SwapLast(f)) = Closing
           /\ Head(Closing) = WeakDestroyOf(Cache) /\ Tail(Closing) = <<EndOf(Cache)>>
           /\ Head(MoveAssignment(f, g)) = WeakDestroyOf(f)
           /\ Tail(MoveAssignment(f, g)) = <<MoveTo(f, g)>>
           /\ MoveAssignment(f, g) \in Seq(Commands) /\ MoveAssignment(f, g) # <<>>
  <1>0. Cache \in Functions
    BY PlaceFacts
  <1>1. /\ \A h, k \in Functions : WeakDestroyOf(h) \in Commands /\ EndOf(h) \in Commands
                                   /\ MoveTo(h, k) \in Commands
    BY DEF WeakDestroyOf, EndOf, MoveTo, Commands
  <1>2. \A h, k : MoveAssignment(h, k) = <<WeakDestroyOf(h), MoveTo(h, k)>>
    BY DEF MoveAssignment, WeakDestroyOf, MoveTo
  <1>3. /\ Closing \in Seq(Commands) /\ Closing # <<>> /\ Head(Closing) = WeakDestroyOf(Cache)
        /\ Tail(Closing) = <<EndOf(Cache)>>
    BY <1>0, <1>1, ShortPrograms DEF Closing
  <1>4. /\ SwapLast(f) \in Seq(Commands) /\ SwapLast(f) # <<>>
        /\ Head(SwapLast(f)) = MoveTo(f, Cache) /\ Tail(SwapLast(f)) = Closing
    BY <1>0, <1>1, <1>3, LongPrograms DEF SwapLast
  <1>5. /\ SwapSecond(f) \in Seq(Commands) /\ SwapSecond(f) # <<>>
        /\ Head(SwapSecond(f)) = WeakDestroyOf(f) /\ Tail(SwapSecond(f)) = SwapLast(f)
    <2>1. WeakDestroyOf(f) \in Commands /\ MoveTo(f, Cache) \in Commands
      BY <1>0, <1>1
    <2>2. <<WeakDestroyOf(f), MoveTo(f, Cache)>> \o Closing
             = <<WeakDestroyOf(f)>> \o (<<MoveTo(f, Cache)>> \o Closing)
      BY <1>3, <2>1, LongPrograms
    <2>3. SwapSecond(f) = <<WeakDestroyOf(f)>> \o SwapLast(f)
      BY <1>2, <2>2 DEF SwapSecond, SwapLast
    <2>. QED
      BY <1>4, <2>1, <2>3, LongPrograms
  <1>6. /\ SwapMiddle(f, g) \in Seq(Commands) /\ SwapMiddle(f, g) # <<>>
        /\ Head(SwapMiddle(f, g)) = MoveTo(g, f) /\ Tail(SwapMiddle(f, g)) = SwapSecond(f)
    BY <1>1, <1>5, LongPrograms DEF SwapMiddle
  <1>7. /\ SwapFirst(f, g) \in Seq(Commands) /\ SwapFirst(f, g) # <<>>
        /\ Head(SwapFirst(f, g)) = WeakDestroyOf(g) /\ Tail(SwapFirst(f, g)) = SwapMiddle(f, g)
    <2>1. WeakDestroyOf(g) \in Commands /\ MoveTo(g, f) \in Commands
      BY <1>1
    <2>2. <<WeakDestroyOf(g), MoveTo(g, f)>> \o SwapSecond(f)
             = <<WeakDestroyOf(g)>> \o (<<MoveTo(g, f)>> \o SwapSecond(f))
      BY <1>5, <2>1, LongPrograms
    <2>3. SwapFirst(f, g) = <<WeakDestroyOf(g)>> \o SwapMiddle(f, g)
      BY <1>2, <2>2 DEF SwapFirst, SwapMiddle
    <2>. QED
      BY <1>6, <2>1, <2>3, LongPrograms
  <1>8. /\ SwapAll(f, g) \in Seq(Commands) /\ SwapAll(f, g) # <<>>
        /\ Head(SwapAll(f, g)) = MoveTo(Cache, g) /\ Tail(SwapAll(f, g)) = SwapFirst(f, g)
    BY <1>0, <1>1, <1>7, LongPrograms DEF SwapAll
  <1>9. /\ Head(MoveAssignment(f, g)) = WeakDestroyOf(f)
        /\ Tail(MoveAssignment(f, g)) = <<MoveTo(f, g)>>
        /\ MoveAssignment(f, g) \in Seq(Commands) /\ MoveAssignment(f, g) # <<>>
    BY <1>1, <1>2, ShortPrograms
  <1>. QED
    BY <1>3, <1>4, <1>5, <1>6, <1>7, <1>8, <1>9

(* Programs concatenate associatively. *)
LEMMA ProgramsAssociative ==
    \A p, q, r \in Seq(Commands) : (p \o q) \o r = p \o (q \o r)
  <1>. SUFFICES ASSUME NEW p \in Seq(Commands), NEW q \in Seq(Commands),
                       NEW r \in Seq(Commands)
                PROVE  (p \o q) \o r = p \o (q \o r)
    OBVIOUS
  <1>. HIDE DEF Commands
  <1>. QED
    BY ConcatAssociative

(* What swap runs is SwapAll. *)
LEMMA SwapIsSwapAll ==
    ASSUME NEW f \in Functions, NEW g \in Functions
    PROVE  <<[op |-> "move", to |-> Cache, from |-> g]>>
                \o MoveAssignment(g, f) \o MoveAssignment(f, Cache)
                \o <<[op |-> "weak_destroy", to |-> Cache],
                     [op |-> "end", to |-> Cache]>>
           = SwapAll(f, g)
  <1>. DEFINE first == <<MoveTo(Cache, g)>>
              second == MoveAssignment(g, f)
              third == MoveAssignment(f, Cache)
              last == Closing
  <1>1. /\ first \in Seq(Commands) /\ second \in Seq(Commands)
        /\ third \in Seq(Commands) /\ last \in Seq(Commands)
    <2>1. Cache \in Functions /\ MoveTo(Cache, g) \in Commands
      BY PlaceFacts DEF MoveTo, Commands
    <2>2. first \in Seq(Commands)
      BY <2>1
    <2>3. second \in Seq(Commands) /\ third \in Seq(Commands) /\ last \in Seq(Commands)
      BY <2>1, SwapPrograms
    <2>. QED
      BY <2>2, <2>3
  <1>2. ((first \o second) \o third) \o last = first \o (second \o (third \o last))
    <2>. HIDE DEF first, second, third, last
    <2>1. PICK p \in Seq(Commands) : p = first
      BY <1>1
    <2>2. PICK q \in Seq(Commands) : q = second
      BY <1>1
    <2>3. PICK r \in Seq(Commands) : r = third
      BY <1>1
    <2>4. PICK t \in Seq(Commands) : t = last
      BY <1>1
    <2>5. ((p \o q) \o r) \o t = p \o (q \o (r \o t))
      <3>1. q \o r \in Seq(Commands)
        OBVIOUS
      <3>2. (p \o q) \o r = p \o (q \o r)
        BY ProgramsAssociative, Zenon
      <3>3. (q \o r) \o t = q \o (r \o t)
        BY ProgramsAssociative, Zenon
      <3>4. (p \o (q \o r)) \o t = p \o ((q \o r) \o t)
        BY <3>1, ProgramsAssociative, Zenon
      <3>. QED
        BY <3>2, <3>3, <3>4, Zenon
    <2>. QED
      BY <2>1, <2>2, <2>3, <2>4, <2>5, Zenon
  <1>. QED
    BY <1>2 DEF SwapAll, SwapFirst, SwapSecond, Closing, MoveTo, WeakDestroyOf, EndOf

-----------------------------------------------------------------------------
(* The commands, as steps of the whole state. *)

LEMMA VacantSound ==
    ASSUME NEW V
    PROVE  /\ Vacant = V /\ Sound(Vacant) => Sound(V)
           /\ Vacant' = V /\ Sound(V)' => Sound(Vacant)'
  BY DEF Sound, Owners

(* Which command runs is written in the program. *)
LEMMA Dispatch ==
    ASSUME Command
    PROVE  /\ todo # <<>> /\ UNCHANGED <<running, before>>
           /\ \/ Head(todo).op = "set_empty" /\ SetEmpty
              \/ Head(todo).op = "weak_destroy" /\ WeakDestroy
              \/ Head(todo).op = "destroy" /\ Destroy
              \/ Head(todo).op = "end" /\ End
              \/ /\ Head(todo).op = "init"
                 /\ InitFunction \/ InitThrowsEarly \/ InitThrowsLate
              \/ Head(todo).op = "move" /\ (MoveFunction \/ MoveThrows)
  BY DEF Command, SetEmpty, WeakDestroy, Destroy, End, InitFunction, InitThrowsEarly,
         InitThrowsLate, MoveFunction, MoveThrows, Step

Goes(program) ==
    /\ todo' = program
    /\ call' = IF program = <<>> THEN <<>> ELSE call

Frame(f) ==
    /\ running' = running /\ before' = before
    /\ Unmoved(f)
    /\ \A h \in Functions \ {f} : (Valid(h)' <=> Valid(h)) /\ (h \in alive' <=> h \in alive)
    /\ \A h \in Functions \ {f} : Quiet(h)' <=> Quiet(h)

LEMMA KeepsTypes ==
    ASSUME TypeOK, todo # <<>>, NEW program \in Seq(Commands), Goes(program),
           UNCHANGED <<running, before>>,
           alive' \subseteq Functions, heap' \subseteq Blocks, broken' \subseteq Places,
           threw' \in BOOLEAN,
           table' \in [Functions -> {"empty", "inplace", "allocated"}],
           pointer' \in [Functions -> Blocks \cup {Nothing}],
           box' \in [Places -> Callables \cup {Nothing}]
    PROVE  TypeOK'
  <1>1. todo' \in Seq(Commands) /\ (call' = <<>> <=> todo' = <<>>)
    BY Types DEF Goes
  <1>2. running' \subseteq Places /\ before' \in [Clients -> Callables \cup {Nothing}]
    BY Types
  <1>. QED
    BY <1>1, <1>2 DEF TypeOK

LEMMA MakeFrame ==
    ASSUME NEW f, Unmoved(f), UNCHANGED <<running, before>>,
           \A h \in Functions \ {f} : (h \in alive' <=> h \in alive)
                                      /\ (h \in broken' <=> h \in broken)
    PROVE  Frame(f)
  BY DEF Frame, Unmoved, Valid, Quiet

LEMMA SetEmptyStep ==
    ASSUME TypeOK, NEW f \in Functions, Sound({}), f \notin alive,
           todo # <<>>, Head(todo) = SetEmptyOf(f), Command
    PROVE  /\ TypeOK' /\ Sound({})' /\ Frame(f) /\ Goes(Tail(todo)) /\ threw' = threw
           /\ Held(f)' = Nothing
  <1>1. SetEmpty /\ Target = f
    BY Dispatch, Fields DEF Target
  <1>2. /\ table' = [table EXCEPT ![f] = "empty"] /\ alive' = alive \cup {f}
        /\ UNCHANGED <<pointer, box, heap, running, before, broken, threw>>
        /\ Goes(Tail(todo))
    BY <1>1 DEF SetEmpty, Step, Done, Continue, Goes
  <1>3. Tail(todo) \in Seq(Commands)
    BY Types
  <1>4. TypeOK'
    BY <1>2, <1>3, KeepsTypes, Types
  <1>5. \A h \in Functions \ {f} : Valid(h)' <=> Valid(h)
    BY <1>2 DEF Valid
  <1>6. \A h \in Functions \ {f} : table'[h] = table[h] /\ pointer'[h] = pointer[h]
    BY <1>2, Types
  <1>7. Unmoved(f)
    BY <1>2, <1>5, <1>6, SameHeld DEF Unmoved
  <1>8. Frame(f)
    BY <1>2, <1>7, MakeFrame
  <1>9. IsEmpty(f)' /\ Held(f)' = Nothing
    BY <1>2, Types DEF IsEmpty, Held
  <1>10. \A h : h \in Owners({})' <=> h \in Owners({})
    <2>1. \A h \in Functions \ {f} : h \in Owners({})' <=> h \in Owners({})
      BY <1>5, <1>7 DEF Owners, Valid, Unmoved
    <2>2. Owners({})' \subseteq Functions /\ Owners({}) \subseteq Functions
      BY <1>2, Types DEF Owners
    <2>3. f \notin Owners({})' /\ f \notin Owners({})
      BY <1>9 DEF Owners
    <2>. QED
      BY <2>1, <2>2, <2>3
  <1>11. \A h \in Owners({}) : Retrieve(h)' = Retrieve(h)
    BY <1>7, OwnerFacts DEF Unmoved
  <1>12. Sound({})'
    <2>1. \A g, h \in Owners({})' : Retrieve(g)' = Retrieve(h)' => g = h
      <3>1. \A g, h \in Owners({}) : Retrieve(g) = Retrieve(h) => g = h
        BY DEF Sound
      <3>. QED
        BY <1>10, <1>11, <3>1
    <2>2. {Retrieve(h)' : h \in Owners({})'} = {Retrieve(h) : h \in Owners({})}
      BY <1>10, <1>11
    <2>3. broken' \cap Functions \subseteq alive' /\ broken' \cap Blocks \subseteq heap'
      BY <1>2 DEF Sound
    <2>. QED
      BY <1>2, <2>1, <2>2, <2>3 DEF Sound
  <1>. QED
    BY <1>2, <1>4, <1>8, <1>9, <1>12

LEMMA WeakDestroyStep ==
    ASSUME TypeOK, NEW f \in Functions, Sound({}), Valid(f), Quiet(f),
           todo # <<>>, Head(todo) = WeakDestroyOf(f), Command
    PROVE  /\ TypeOK' /\ Sound({f})' /\ Frame(f) /\ Goes(Tail(todo)) /\ threw' = threw
           /\ Valid(f)' /\ f \in alive' /\ f \notin broken'
           /\ IsEmpty(f)' = IsEmpty(f)
  <1>1. WeakDestroy /\ Target = f
    BY Dispatch, Fields DEF Target
  <1>2. /\ DestroyedBox(f) /\ table' = table
        /\ UNCHANGED <<alive, pointer, running, before, broken, threw>>
        /\ Goes(Tail(todo))
    BY <1>1 DEF WeakDestroy, DestroyBox, DestroyedBox, Step, Done, Continue, Goes
  <1>3. /\ Sound({f})' /\ Unmoved(f)
        /\ box' \in [Places -> Callables \cup {Nothing}] /\ heap' \subseteq Blocks
    BY <1>2, DestroyData
  <1>4. TypeOK'
    <2>1. Tail(todo) \in Seq(Commands)
      BY Types
    <2>. QED
      BY <1>2, <1>3, <2>1, KeepsTypes, Types
  <1>5. Frame(f)
    BY <1>2, <1>3, MakeFrame
  <1>6. Valid(f)' /\ f \in alive' /\ f \notin broken' /\ IsEmpty(f)' = IsEmpty(f)
    BY <1>2 DEF Valid, IsEmpty
  <1>. QED
    BY <1>2, <1>3, <1>4, <1>5, <1>6

LEMMA DestroyStep ==
    ASSUME TypeOK, NEW f \in Functions, Sound({}), Valid(f), Quiet(f),
           todo # <<>>, Head(todo) = DestroyOf(f), Command
    PROVE  /\ TypeOK' /\ Sound({})' /\ Frame(f) /\ Goes(Tail(todo)) /\ threw' = threw
           /\ Held(f)' = Nothing
  <1>1. Destroy /\ Target = f
    BY Dispatch, Fields DEF Target
  <1>2. /\ DestroyedBox(f) /\ table' = [table EXCEPT ![f] = "empty"]
        /\ UNCHANGED <<alive, pointer, running, before, broken, threw>>
        /\ Goes(Tail(todo))
    BY <1>1 DEF Destroy, DestroyBox, DestroyedBox, Step, Done, Continue, Goes
  <1>3. /\ table'[f] = "empty"
        /\ table' \in [Functions -> {"empty", "inplace", "allocated"}]
    BY <1>2, Types
  <1>4. /\ Sound({})' /\ Unmoved(f)
        /\ box' \in [Places -> Callables \cup {Nothing}] /\ heap' \subseteq Blocks
    BY <1>2, <1>3, DestroyData
  <1>5. TypeOK'
    <2>1. Tail(todo) \in Seq(Commands)
      BY Types
    <2>. QED
      BY <1>2, <1>3, <1>4, <2>1, KeepsTypes, Types
  <1>6. Frame(f)
    BY <1>2, <1>4, MakeFrame
  <1>7. Held(f)' = Nothing
    BY <1>3 DEF Held, IsEmpty
  <1>. QED
    BY <1>2, <1>4, <1>5, <1>6, <1>7

LEMMA EndStep ==
    ASSUME TypeOK, NEW f \in Functions, Sound({f}), Valid(f),
           todo # <<>>, Head(todo) = EndOf(f), Command
    PROVE  /\ TypeOK' /\ Sound({})' /\ Frame(f) /\ Goes(Tail(todo)) /\ threw' = threw
           /\ f \notin alive' /\ Held(f)' = Nothing
  <1>1. End /\ Target = f
    BY Dispatch, Fields DEF Target
  <1>2. /\ alive' = alive \ {f}
        /\ UNCHANGED <<table, pointer, box, heap, running, before, broken, threw>>
        /\ Goes(Tail(todo))
    BY <1>1 DEF End, Step, Done, Continue, Goes
  <1>3. Sound({})' /\ Unmoved(f) /\ Held(f)' = Nothing
    BY <1>2, EndData
  <1>4. TypeOK'
    <2>1. Tail(todo) \in Seq(Commands)
      BY Types
    <2>. QED
      BY <1>2, <2>1, KeepsTypes, Types
  <1>5. Frame(f)
    BY <1>2, <1>3, MakeFrame
  <1>. QED
    BY <1>2, <1>3, <1>4, <1>5

LEMMA InitStep ==
    ASSUME TypeOK, NEW f \in Functions, NEW c \in Callables, Sound({f}), f \notin broken,
           todo # <<>>, Head(todo) = PutIn(f, c), InitFunction
    PROVE  /\ TypeOK' /\ Sound({})' /\ Frame(f) /\ Goes(Tail(todo)) /\ threw' = threw
           /\ Held(f)' = c
  <1>1. Target = f /\ Head(todo).callable = c
    BY Fields DEF Target
  <1>2. /\ Prepare(f, c) /\ box' = [box EXCEPT ![Prepared(f)] = c]
        /\ alive' = alive \cup {f}
        /\ UNCHANGED <<running, before, broken, threw>>
        /\ Goes(Tail(todo))
    BY <1>1 DEF InitFunction, Step, Done, Continue, Goes
  <1>3. /\ Sound({})' /\ Unmoved(f) /\ Held(f)' = c
        /\ table' \in [Functions -> {"empty", "inplace", "allocated"}]
        /\ pointer' \in [Functions -> Blocks \cup {Nothing}]
        /\ box' \in [Places -> Callables \cup {Nothing}] /\ heap' \subseteq Blocks
    BY <1>2, InitData
  <1>4. TypeOK'
    <2>1. Tail(todo) \in Seq(Commands)
      BY Types
    <2>. QED
      BY <1>2, <1>3, <2>1, KeepsTypes, Types
  <1>5. Frame(f)
    BY <1>2, <1>3, MakeFrame
  <1>. QED
    BY <1>2, <1>3, <1>4, <1>5

Unwound == IF Cache \in alive THEN Closing ELSE <<>>

LEMMA UnwoundType == Unwound \in Seq(Commands)
  BY SwapPrograms, PlaceFacts DEF Unwound

LEMMA InitThrowsStep ==
    ASSUME TypeOK, NEW f \in Functions, NEW c \in Callables, Sound({f}), f \notin broken,
           todo # <<>>, Head(todo) = PutIn(f, c), InitThrowsEarly \/ InitThrowsLate
    PROVE  /\ TypeOK' /\ Sound({})' /\ Frame(f) /\ Goes(Unwound) /\ threw' = TRUE
           /\ Held(f)' = Nothing /\ alive' = alive
  <1>1. Target = f /\ Head(todo).callable = c
    BY Fields DEF Target
  <1>2. /\ UNCHANGED <<alive, box, running, before>> /\ threw' = TRUE
        /\ Goes(Unwound)
        /\ heap \subseteq heap' /\ heap' \subseteq Blocks
        /\ \A h \in Functions \ {f} : table'[h] = table[h] /\ pointer'[h] = pointer[h]
        /\ broken' = broken \cup (heap' \ heap)
                       \cup (IF f \in alive /\ table'[f] # "empty" THEN {f} ELSE {})
        /\ table' \in [Functions -> {"empty", "inplace", "allocated"}]
        /\ pointer' \in [Functions -> Blocks \cup {Nothing}]
    <2>1. CASE InitThrowsEarly
      <3>1. /\ UNCHANGED <<alive, table, pointer, box, heap, running, before>>
            /\ Unwind(f, {})
        BY <1>1, <2>1 DEF InitThrowsEarly, Step
      <3>2. threw' = TRUE /\ Goes(Unwound)
        BY <3>1 DEF Unwind, Continue, Goes, Unwound, Closing, WeakDestroyOf, EndOf
      <3>3. broken' = broken \cup {}
                        \cup (IF f \in alive /\ table'[f] # "empty" THEN {f} ELSE {})
        BY <3>1 DEF Unwind
      <3>4. heap' \ heap = {}
        BY <3>1
      <3>. QED
        BY <3>1, <3>2, <3>3, <3>4, Types
    <2>2. CASE InitThrowsLate
      <3>1. /\ UNCHANGED <<alive, box, running, before>>
            /\ Prepare(f, c) /\ Unwind(f, heap' \ heap)
        BY <1>1, <2>2 DEF InitThrowsLate, Step
      <3>2. threw' = TRUE /\ Goes(Unwound)
        BY <3>1 DEF Unwind, Continue, Goes, Unwound, Closing, WeakDestroyOf, EndOf
      <3>3. broken' = broken \cup (heap' \ heap)
                        \cup (IF f \in alive /\ table'[f] # "empty" THEN {f} ELSE {})
        BY <3>1 DEF Unwind
      <3>4. /\ heap \subseteq heap' /\ heap' \subseteq Blocks
            /\ \A h \in Functions \ {f} : table'[h] = table[h] /\ pointer'[h] = pointer[h]
            /\ table' \in [Functions -> {"empty", "inplace", "allocated"}]
            /\ pointer' \in [Functions -> Blocks \cup {Nothing}]
        <4>1. CASE c \in Large
          BY <3>1, <4>1, Types DEF Prepare
        <4>2. CASE c \notin Large
          BY <3>1, <4>2, Types DEF Prepare
        <4>. QED
          BY <4>1, <4>2
      <3>. QED
        BY <3>1, <3>2, <3>3, <3>4
    <2>. QED
      BY <2>1, <2>2
  <1>3. Sound({})' /\ Unmoved(f) /\ Held(f)' = Nothing
    BY <1>2, AbandonData
  <1>4. TypeOK'
    <2>1. broken' \subseteq Places /\ box' \in [Places -> Callables \cup {Nothing}]
      BY <1>2, Types, PlaceFacts
    <2>. QED
      BY <1>2, <2>1, UnwoundType, KeepsTypes, Types
  <1>5. Frame(f)
    BY <1>2, <1>3, MakeFrame, PlaceFacts
  <1>. QED
    BY <1>2, <1>3, <1>4, <1>5

Frame2(f, g) ==
    /\ running' = running /\ before' = before
    /\ UnmovedBut(f, g)
    /\ \A h \in Functions \ {f, g} :
         /\ Valid(h)' <=> Valid(h)
         /\ h \in alive' <=> h \in alive
         /\ Quiet(h)' <=> Quiet(h)

LEMMA MoveStep ==
    ASSUME TypeOK, NEW f \in Functions, NEW g \in Functions, f # g, Sound({f}),
           f \notin broken, Valid(g), Movable(g),
           todo # <<>>, Head(todo) = MoveTo(f, g), MoveFunction
    PROVE  /\ TypeOK' /\ Sound({})' /\ Frame2(f, g) /\ Goes(Tail(todo)) /\ threw' = threw
           /\ Held(f)' = Held(g) /\ Held(g)' = Nothing /\ IsEmpty(g)'
           /\ Valid(f)' /\ Valid(g)' /\ (Quiet(g) => Quiet(f)')
  <1>1. Target = f /\ Head(todo).from = g
    BY Fields DEF Target
  <1>2. MovedBox(f, g) /\ UNCHANGED <<before, threw>> /\ Goes(Tail(todo))
    BY <1>1 DEF MoveFunction, MovedBox, Step, Done, Continue, Goes
  <1>3. /\ alive' = alive \cup {f} /\ UNCHANGED <<heap, running, broken>>
    BY <1>2 DEF MovedBox
  <1>4. /\ Sound({})' /\ UnmovedBut(f, g)
        /\ Held(f)' = Held(g) /\ Held(g)' = Nothing /\ IsEmpty(g)'
        /\ Quiet(g) => Quiet(f)'
        /\ table' \in [Functions -> {"empty", "inplace", "allocated"}]
        /\ pointer' \in [Functions -> Blocks \cup {Nothing}]
        /\ box' \in [Places -> Callables \cup {Nothing}]
    BY <1>2, MoveData
  <1>5. TypeOK'
    <2>1. Tail(todo) \in Seq(Commands)
      BY Types
    <2>2. alive' \subseteq Functions /\ heap' \subseteq Blocks /\ broken' \subseteq Places
      BY <1>3, Types
    <2>. QED
      BY <1>2, <1>3, <1>4, <2>1, <2>2, KeepsTypes, Types
  <1>6. Frame2(f, g)
    BY <1>2, <1>3, <1>4 DEF Frame2, UnmovedBut, Valid, Quiet
  <1>7. Valid(f)' /\ Valid(g)'
    BY <1>3 DEF Valid
  <1>. QED
    BY <1>2, <1>4, <1>5, <1>6, <1>7

LEMMA MoveThrowsStep ==
    ASSUME TypeOK, NEW f \in Functions, NEW g \in Functions, f # g, Sound({f}),
           f \notin broken,
           todo # <<>>, Head(todo) = MoveTo(f, g), MoveThrows
    PROVE  /\ TypeOK' /\ Sound({})' /\ Frame(f) /\ Goes(Unwound) /\ threw' = TRUE
           /\ Held(f)' = Nothing /\ alive' = alive
  <1>1. Target = f /\ Head(todo).from = g
    BY Fields DEF Target
  <1>2. /\ pointer' = [pointer EXCEPT ![f] = Nothing]
        /\ table' = [table EXCEPT ![f] = "inplace"]
        /\ Unwind(f, {})
        /\ UNCHANGED <<alive, box, heap, running, before>>
    BY <1>1 DEF MoveThrows, Step
  <1>3. threw' = TRUE /\ Goes(Unwound)
    BY <1>2 DEF Unwind, Continue, Goes, Unwound, Closing, WeakDestroyOf, EndOf
  <1>4. /\ broken' = broken \cup (heap' \ heap)
                       \cup (IF f \in alive /\ table'[f] # "empty" THEN {f} ELSE {})
        /\ heap \subseteq heap' /\ heap' \subseteq Blocks
        /\ \A h \in Functions \ {f} : table'[h] = table[h] /\ pointer'[h] = pointer[h]
        /\ table' \in [Functions -> {"empty", "inplace", "allocated"}]
        /\ pointer' \in [Functions -> Blocks \cup {Nothing}]
    <2>1. heap' \ heap = {}
      BY <1>2
    <2>. QED
      BY <1>2, <2>1, Types DEF Unwind
  <1>5. Sound({})' /\ Unmoved(f) /\ Held(f)' = Nothing
    BY <1>2, <1>4, AbandonData
  <1>6. TypeOK'
    <2>1. broken' \subseteq Places /\ box' \in [Places -> Callables \cup {Nothing}]
      BY <1>2, <1>4, Types, PlaceFacts
    <2>. QED
      BY <1>2, <1>3, <1>4, <2>1, UnwoundType, KeepsTypes, Types
  <1>7. Frame(f)
    BY <1>2, <1>4, <1>5, MakeFrame, PlaceFacts
  <1>. QED
    BY <1>2, <1>3, <1>5, <1>6, <1>7

-----------------------------------------------------------------------------
(* The operations, command by command. *)

OneReturns(f) ==
    /\ Kept({f})'
    /\ \/ call = <<"drop", f>> /\ ~threw' /\ Held(f)' = Nothing
       \/ \E c \in Callables : /\ call = <<"give", f, c>>
                               /\ \/ ~threw' /\ Held(f)' = c
                                  \/ threw' /\ Held(f)' = Nothing

MoveReturns(f, g) ==
    /\ f # g
    /\ call = <<"move", f, g>>
    /\ \/ ~threw' /\ Held(f)' = before[g] /\ Held(g)' = Nothing /\ Kept({f, g})'
       \/ threw' /\ Held(f)' = Nothing /\ Kept({f})'

SwapReturns(f, g) ==
    /\ f # g
    /\ call = <<"swap", f, g>>
    /\ Kept({f, g})'
    /\ \/ ~threw' /\ Held(f)' = before[g] /\ Held(g)' = before[f]
       \/ threw' /\ {Held(f)', Held(g)'} \subseteq {before[f], before[g], Nothing}

(* What an operation has done when its last command is over. *)
Returned ==
    \/ \E f \in Clients : OneReturns(f)
    \/ \E f, g \in Clients : MoveReturns(f, g) \/ SwapReturns(f, g)

Advances == IInv' /\ before' = before /\ (todo' = <<>> => call' = <<>> /\ Returned)

LEMMA SoundAt ==
    ASSUME NEW f, NEW g, NEW c
    PROVE  /\ Sound(Vacant) =>
                /\ todo = <<>> => Sound({})
                /\ /\ todo # <<>>
                   /\ Head(todo) \in {SetEmptyOf(f), WeakDestroyOf(f), DestroyOf(f)}
                   => Sound({})
                /\ /\ todo # <<>>
                   /\ Head(todo) \in {EndOf(f), PutIn(f, c), MoveTo(f, g)}
                   => Sound({f})
           /\ todo' = <<>> /\ Sound({})' => Sound(Vacant)'
           /\ /\ todo' # <<>> /\ Sound({})'
              /\ Head(todo') \in {SetEmptyOf(f), WeakDestroyOf(f), DestroyOf(f)}
              => Sound(Vacant)'
           /\ /\ todo' # <<>> /\ Sound({f})'
              /\ Head(todo') \in {EndOf(f), PutIn(f, c), MoveTo(f, g)}
              => Sound(Vacant)'
  <1>1. /\ todo = <<>> => Vacant = {}
        /\ todo # <<>> /\ Head(todo).op \notin {"init", "move", "end"} => Vacant = {}
        /\ /\ todo # <<>> /\ Head(todo).op \in {"init", "move", "end"}
           => Vacant = {Head(todo).to}
    BY DEF Vacant
  <1>2. /\ todo' = <<>> => Vacant' = {}
        /\ todo' # <<>> /\ Head(todo').op \notin {"init", "move", "end"} => Vacant' = {}
        /\ /\ todo' # <<>> /\ Head(todo').op \in {"init", "move", "end"}
           => Vacant' = {Head(todo').to}
    BY DEF Vacant
  <1>3. \A x \in {SetEmptyOf(f), WeakDestroyOf(f), DestroyOf(f)} :
           x.op \notin {"init", "move", "end"}
    BY Fields
  <1>4. \A x \in {EndOf(f), PutIn(f, c), MoveTo(f, g)} :
           x.op \in {"init", "move", "end"} /\ x.to = f
    BY Fields
  <1>5. /\ Vacant = {} /\ Sound(Vacant) => Sound({})
        /\ Vacant' = {} /\ Sound({})' => Sound(Vacant)'
    BY VacantSound
  <1>6. /\ Vacant = {f} /\ Sound(Vacant) => Sound({f})
        /\ Vacant' = {f} /\ Sound({f})' => Sound(Vacant)'
    BY VacantSound
  <1>7. /\ todo # <<>> /\ Head(todo) \in {SetEmptyOf(f), WeakDestroyOf(f), DestroyOf(f)}
           => Vacant = {}
        /\ todo' # <<>> /\ Head(todo') \in {SetEmptyOf(f), WeakDestroyOf(f), DestroyOf(f)}
           => Vacant' = {}
    BY <1>1, <1>2, <1>3
  <1>8. /\ todo # <<>> /\ Head(todo) \in {EndOf(f), PutIn(f, c), MoveTo(f, g)}
           => Vacant = {f}
        /\ todo' # <<>> /\ Head(todo') \in {EndOf(f), PutIn(f, c), MoveTo(f, g)}
           => Vacant' = {f}
    BY <1>1, <1>2, <1>4
  <1>. QED
    BY <1>1, <1>2, <1>5, <1>6, <1>7, <1>8

LEMMA KeptStep ==
    ASSUME NEW f \in Functions, NEW S, Frame(f), Kept(S), f \in S \/ f \notin Clients
    PROVE  Kept(S)'
  BY PlaceFacts DEF Kept, Frame, Unmoved

LEMMA Ending ==
    ASSUME TypeOK', Sound({})', Goes(<<>>), before' = before, Cache \notin alive', Returned
    PROVE  Advances
  <1>1. todo' = <<>> /\ call' = <<>>
    BY DEF Goes
  <1>2. Sound(Vacant)'
    BY <1>1, SoundAt
  <1>3. Stage'
    BY <1>1 DEF Stage, Idle
  <1>. QED
    BY <1>1, <1>2, <1>3 DEF Advances, IInv

LEMMA OneOperandStep ==
    ASSUME IInv, NEW f \in Clients, OneOperand(f), Command
    PROVE  Advances
  <1>1. /\ TypeOK /\ Sound(Vacant) /\ f \in Functions /\ f # Cache
        /\ Cache \notin alive /\ f \notin broken /\ ~threw /\ Kept({f})
    BY PlaceFacts DEF IInv, OneOperand
  <1>2. /\ SetEmptyOf(f) \in Commands /\ WeakDestroyOf(f) \in Commands
        /\ DestroyOf(f) \in Commands /\ EndOf(f) \in Commands
        /\ \A c \in Callables : PutIn(f, c) \in Commands
    BY <1>1 DEF SetEmptyOf, WeakDestroyOf, DestroyOf, EndOf, PutIn, Commands
  <1>3. CASE todo = <<SetEmptyOf(f)>> /\ call = <<"drop", f>> /\ f \notin alive
    <2>1. todo # <<>> /\ Head(todo) = SetEmptyOf(f) /\ Tail(todo) = <<>>
      BY <1>2, <1>3, ShortPrograms
    <2>2. Sound({})
      BY <1>1, <2>1, SoundAt
    <2>3. /\ TypeOK' /\ Sound({})' /\ Frame(f) /\ Goes(<<>>) /\ threw' = threw
          /\ Held(f)' = Nothing
      BY <1>1, <1>3, <2>1, <2>2, SetEmptyStep
    <2>4. Kept({f})' /\ Cache \notin alive' /\ before' = before
      BY <1>1, <2>3, KeptStep, PlaceFacts DEF Frame
    <2>5. Returned
      BY <1>1, <1>3, <2>3, <2>4 DEF Returned, OneReturns
    <2>. QED
      BY <2>3, <2>4, <2>5, Ending
  <1>4. CASE todo = <<EndOf(f)>> /\ call = <<"drop", f>> /\ f \in alive
    <2>1. todo # <<>> /\ Head(todo) = EndOf(f) /\ Tail(todo) = <<>>
      BY <1>2, <1>4, ShortPrograms
    <2>2. Sound({f})
      BY <1>1, <2>1, SoundAt
    <2>3. /\ TypeOK' /\ Sound({})' /\ Frame(f) /\ Goes(<<>>) /\ threw' = threw
          /\ Held(f)' = Nothing
      BY <1>1, <1>4, <2>1, <2>2, EndStep DEF Valid
    <2>4. Kept({f})' /\ Cache \notin alive' /\ before' = before
      BY <1>1, <2>3, KeptStep, PlaceFacts DEF Frame
    <2>5. Returned
      BY <1>1, <1>4, <2>3, <2>4 DEF Returned, OneReturns
    <2>. QED
      BY <2>3, <2>4, <2>5, Ending
  <1>5. CASE \E c \in Callables : todo = <<PutIn(f, c)>> /\ call = <<"give", f, c>>
    <2>1. PICK c \in Callables : todo = <<PutIn(f, c)>> /\ call = <<"give", f, c>>
      BY <1>5
    <2>2. todo # <<>> /\ Head(todo) = PutIn(f, c) /\ Tail(todo) = <<>>
      BY <1>2, <2>1, ShortPrograms
    <2>3. Sound({f})
      BY <1>1, <2>2, SoundAt
    <2>4. InitFunction \/ InitThrowsEarly \/ InitThrowsLate
      BY <2>2, Dispatch, Fields
    <2>5. /\ TypeOK' /\ Sound({})' /\ Frame(f) /\ Goes(<<>>)
          /\ \/ threw' = threw /\ Held(f)' = c
             \/ threw' = TRUE /\ Held(f)' = Nothing
      <3>1. CASE InitFunction
        BY <1>1, <2>2, <2>3, <3>1, InitStep
      <3>2. CASE InitThrowsEarly \/ InitThrowsLate
        BY <1>1, <2>2, <2>3, <3>2, InitThrowsStep DEF Unwound
      <3>. QED
        BY <2>4, <3>1, <3>2
    <2>6. Kept({f})' /\ Cache \notin alive' /\ before' = before
      BY <1>1, <2>5, KeptStep, PlaceFacts DEF Frame
    <2>7. OneReturns(f)
      <3>1. (~threw' /\ Held(f)' = c) \/ (threw' /\ Held(f)' = Nothing)
        <4>1. CASE threw' = threw /\ Held(f)' = c
          BY <1>1, <4>1, Zenon
        <4>2. CASE threw' = TRUE /\ Held(f)' = Nothing
          BY <4>2, Zenon
        <4>. QED
          BY <2>5, <4>1, <4>2
      <3>. QED
        BY <2>1, <2>6, <3>1 DEF OneReturns
    <2>8. Returned
      BY <2>7 DEF Returned
    <2>. QED
      BY <2>5, <2>6, <2>8, Ending
  <1>6. CASE f \in alive /\ Quiet(f) /\ todo = <<DestroyOf(f)>> /\ call = <<"drop", f>>
    <2>1. todo # <<>> /\ Head(todo) = DestroyOf(f) /\ Tail(todo) = <<>>
      BY <1>2, <1>6, ShortPrograms
    <2>2. Sound({})
      BY <1>1, <2>1, SoundAt
    <2>3. /\ TypeOK' /\ Sound({})' /\ Frame(f) /\ Goes(<<>>) /\ threw' = threw
          /\ Held(f)' = Nothing
      BY <1>1, <1>6, <2>1, <2>2, DestroyStep DEF Valid
    <2>4. Kept({f})' /\ Cache \notin alive' /\ before' = before
      BY <1>1, <2>3, KeptStep, PlaceFacts DEF Frame
    <2>5. Returned
      BY <1>1, <1>6, <2>3, <2>4 DEF Returned, OneReturns
    <2>. QED
      BY <2>3, <2>4, <2>5, Ending
  <1>7. ASSUME f \in alive, Quiet(f), NEW x \in Commands, todo = <<WeakDestroyOf(f), x>>,
               \/ x = EndOf(f) /\ call = <<"drop", f>>
               \/ \E c \in Callables : x = PutIn(f, c) /\ call = <<"give", f, c>>
        PROVE  Advances
    <2>1. /\ todo # <<>> /\ Head(todo) = WeakDestroyOf(f) /\ Tail(todo) = <<x>>
          /\ <<x>> # <<>> /\ Head(<<x>>) = x
      BY <1>2, <1>7, ShortPrograms
    <2>2. Sound({})
      BY <1>1, <2>1, SoundAt
    <2>3. /\ TypeOK' /\ Sound({f})' /\ Frame(f) /\ Goes(<<x>>) /\ threw' = threw
          /\ f \in alive' /\ f \notin broken'
      BY <1>1, <1>7, <2>1, <2>2, WeakDestroyStep DEF Valid
    <2>4. Kept({f})' /\ Cache \notin alive' /\ before' = before
      BY <1>1, <2>3, KeptStep, PlaceFacts DEF Frame
    <2>5. todo' = <<x>> /\ call' = call /\ todo' # <<>> /\ Head(todo') = x
      BY <2>1, <2>3 DEF Goes
    <2>6. Sound(Vacant)'
      BY <1>7, <2>3, <2>5, SoundAt
    <2>7. OneOperand(f)'
      BY <1>1, <1>7, <2>3, <2>4, <2>5 DEF OneOperand
    <2>. QED
      BY <2>3, <2>4, <2>5, <2>6, <2>7 DEF Advances, IInv, Stage
  <1>. QED
    BY <1>2, <1>3, <1>4, <1>5, <1>6, <1>7 DEF OneOperand

LEMMA MovingStep ==
    ASSUME IInv, NEW f \in Clients, NEW g \in Clients, Moving(f, g), Command
    PROVE  Advances
  <1>1. /\ TypeOK /\ Sound(Vacant) /\ f \in Functions /\ g \in Functions
        /\ f # Cache /\ g # Cache /\ f # g
        /\ Cache \notin alive /\ f \notin broken /\ ~threw /\ Kept({f})
        /\ Valid(g) /\ Movable(g) /\ call = <<"move", f, g>>
    BY PlaceFacts DEF IInv, Moving
  <1>2. WeakDestroyOf(f) \in Commands /\ MoveTo(f, g) \in Commands
    BY <1>1 DEF WeakDestroyOf, MoveTo, Commands
  <1>3. CASE todo = <<MoveTo(f, g)>>
    <2>1. todo # <<>> /\ Head(todo) = MoveTo(f, g) /\ Tail(todo) = <<>>
      BY <1>2, <1>3, ShortPrograms
    <2>2. Sound({f})
      BY <1>1, <2>1, SoundAt
    <2>3. MoveFunction \/ MoveThrows
      BY <2>1, Dispatch, Fields
    <2>4. CASE MoveFunction
      <3>1. /\ TypeOK' /\ Sound({})' /\ Frame2(f, g) /\ Goes(<<>>) /\ threw' = threw
            /\ Held(f)' = Held(g) /\ Held(g)' = Nothing
        BY <1>1, <2>1, <2>2, <2>4, MoveStep
      <3>2. Cache \notin alive' /\ before' = before
        BY <1>1, <3>1, PlaceFacts DEF Frame2
      <3>3. Kept({f, g})' /\ Held(g) = before[g]
        BY <1>1, <3>1, PlaceFacts DEF Kept, Frame2, UnmovedBut
      <3>4. MoveReturns(f, g)
        BY <1>1, <3>1, <3>3 DEF MoveReturns
      <3>5. Returned
        BY <3>4 DEF Returned
      <3>. QED
        BY <3>1, <3>2, <3>5, Ending
    <2>5. CASE MoveThrows
      <3>1. /\ TypeOK' /\ Sound({})' /\ Frame(f) /\ Goes(<<>>) /\ threw' = TRUE
            /\ Held(f)' = Nothing
        BY <1>1, <2>1, <2>2, <2>5, MoveThrowsStep DEF Unwound
      <3>2. Kept({f})' /\ Cache \notin alive' /\ before' = before
        BY <1>1, <3>1, KeptStep, PlaceFacts DEF Frame
      <3>3. MoveReturns(f, g)
        BY <1>1, <3>1, <3>2 DEF MoveReturns
      <3>4. Returned
        BY <3>3 DEF Returned
      <3>. QED
        BY <3>1, <3>2, <3>4, Ending
    <2>. QED
      BY <2>3, <2>4, <2>5
  <1>4. CASE todo = MoveAssignment(f, g) /\ f \in alive /\ Quiet(f)
    <2>1. /\ todo # <<>> /\ Head(todo) = WeakDestroyOf(f) /\ Tail(todo) = <<MoveTo(f, g)>>
          /\ <<MoveTo(f, g)>> # <<>> /\ Head(<<MoveTo(f, g)>>) = MoveTo(f, g)
      BY <1>1, <1>2, <1>4, SwapPrograms, ShortPrograms
    <2>2. Sound({})
      BY <1>1, <2>1, SoundAt
    <2>3. /\ TypeOK' /\ Sound({f})' /\ Frame(f) /\ Goes(<<MoveTo(f, g)>>) /\ threw' = threw
          /\ f \in alive' /\ f \notin broken'
      BY <1>1, <1>4, <2>1, <2>2, WeakDestroyStep DEF Valid
    <2>4. Kept({f})' /\ Cache \notin alive' /\ before' = before
      BY <1>1, <2>3, KeptStep, PlaceFacts DEF Frame
    <2>5. /\ todo' = <<MoveTo(f, g)>> /\ call' = call
          /\ todo' # <<>> /\ Head(todo') = MoveTo(f, g)
      BY <2>1, <2>3 DEF Goes
    <2>6. Sound(Vacant)'
      BY <2>3, <2>5, SoundAt
    <2>7. Valid(g)' /\ Movable(g)'
      BY <1>1, <2>3 DEF Frame, Movable
    <2>8. Moving(f, g)'
      BY <1>1, <2>3, <2>4, <2>5, <2>7 DEF Moving
    <2>. QED
      BY <2>3, <2>4, <2>5, <2>6, <2>8 DEF Advances, IInv, Stage
  <1>. QED
    BY <1>3, <1>4 DEF Moving

LEMMA FinishingStep ==
    ASSUME IInv, NEW f \in Clients, NEW g \in Clients, Finishing(f, g), Command
    PROVE  Advances
  <1>1. /\ TypeOK /\ Sound(Vacant) /\ f \in Functions /\ g \in Functions
        /\ f # Cache /\ g # Cache /\ f # g /\ Cache \in Functions /\ Cache \notin Clients
        /\ Kept({f, g}) /\ Valid(Cache) /\ call = <<"swap", f, g>>
        /\ \/ ~threw /\ Held(f) = before[g] /\ Held(g) = before[f]
           \/ threw /\ {Held(f), Held(g)} \subseteq {before[f], before[g], Nothing}
    BY PlaceFacts DEF IInv, Finishing
  <1>2. EndOf(Cache) \in Commands
    BY <1>1 DEF EndOf, Commands
  <1>3. CASE todo = Closing /\ Quiet(Cache)
    <2>1. /\ todo # <<>> /\ Head(todo) = WeakDestroyOf(Cache) /\ Tail(todo) = <<EndOf(Cache)>>
          /\ <<EndOf(Cache)>> # <<>> /\ Head(<<EndOf(Cache)>>) = EndOf(Cache)
      BY <1>1, <1>2, <1>3, SwapPrograms, ShortPrograms
    <2>2. Sound({})
      BY <1>1, <2>1, SoundAt
    <2>3. /\ TypeOK' /\ Sound({Cache})' /\ Frame(Cache) /\ Goes(<<EndOf(Cache)>>)
          /\ threw' = threw /\ Valid(Cache)'
      BY <1>1, <1>3, <2>1, <2>2, WeakDestroyStep
    <2>4. Kept({f, g})' /\ before' = before /\ Held(f)' = Held(f) /\ Held(g)' = Held(g)
      BY <1>1, <2>3, KeptStep DEF Frame, Unmoved
    <2>5. /\ todo' = <<EndOf(Cache)>> /\ call' = call
          /\ todo' # <<>> /\ Head(todo') = EndOf(Cache)
      BY <2>1, <2>3 DEF Goes
    <2>6. Sound(Vacant)'
      BY <2>3, <2>5, SoundAt
    <2>7. Finishing(f, g)'
      BY <1>1, <2>3, <2>4, <2>5 DEF Finishing
    <2>. QED
      BY <2>3, <2>4, <2>5, <2>6, <2>7 DEF Advances, IInv, Stage
  <1>4. CASE todo = <<EndOf(Cache)>>
    <2>1. todo # <<>> /\ Head(todo) = EndOf(Cache) /\ Tail(todo) = <<>>
      BY <1>2, <1>4, ShortPrograms
    <2>2. Sound({Cache})
      BY <1>1, <2>1, SoundAt
    <2>3. /\ TypeOK' /\ Sound({})' /\ Frame(Cache) /\ Goes(<<>>) /\ threw' = threw
          /\ Cache \notin alive'
      BY <1>1, <2>1, <2>2, EndStep
    <2>4. Kept({f, g})' /\ before' = before /\ Held(f)' = Held(f) /\ Held(g)' = Held(g)
      BY <1>1, <2>3, KeptStep DEF Frame, Unmoved
    <2>5. SwapReturns(f, g)
      BY <1>1, <2>3, <2>4 DEF SwapReturns
    <2>6. Returned
      BY <2>5 DEF Returned
    <2>. QED
      BY <2>3, <2>4, <2>6, Ending
  <1>. QED
    BY <1>3, <1>4 DEF Finishing

LEMMA QuietMovable ==
    ASSUME TypeOK, NEW V, Sound(V), NEW g \in Functions, g \notin V, Quiet(g)
    PROVE  Movable(g)
  <1>. SUFFICES ASSUME g \in running PROVE FALSE
    BY DEF Movable
  <1>1. g \in {p \in Places : box[p] # Nothing}
    BY Types DEF Sound
  <1>2. PICK h \in Owners(V) : g = Retrieve(h)
    BY <1>1 DEF Sound
  <1>3. h = g
    BY <1>2, OwnerFacts, RetrieveFacts, PlaceFacts
  <1>. QED
    BY <1>2, <1>3 DEF Quiet

LEMMA EmptyQuiet ==
    ASSUME TypeOK, NEW g \in Functions, IsEmpty(g)
    PROVE  Quiet(g)
  BY RetrieveFacts, Types, PlaceFacts DEF Quiet

LEMMA KeptStep2 ==
    ASSUME NEW f \in Functions, NEW g \in Functions, NEW S, Frame2(f, g), Kept(S),
           f \in S \/ f \notin Clients, g \in S \/ g \notin Clients
    PROVE  Kept(S)'
  BY PlaceFacts DEF Kept, Frame2, UnmovedBut

LEMMA FrameFacts ==
    ASSUME NEW f, Frame(f), NEW h \in Functions \ {f}
    PROVE  /\ Held(h)' = Held(h) /\ IsEmpty(h)' = IsEmpty(h)
           /\ Valid(h)' <=> Valid(h)
           /\ h \in alive' <=> h \in alive
           /\ Quiet(h)' <=> Quiet(h)
           /\ before' = before
  BY DEF Frame, Unmoved

LEMMA Frame2Facts ==
    ASSUME NEW f, NEW g, Frame2(f, g), NEW h \in Functions \ {f, g}
    PROVE  /\ Held(h)' = Held(h) /\ IsEmpty(h)' = IsEmpty(h)
           /\ Valid(h)' <=> Valid(h)
           /\ h \in alive' <=> h \in alive
           /\ Quiet(h)' <=> Quiet(h)
           /\ before' = before
  BY DEF Frame2, UnmovedBut

(* A move of swap throws while the cache holds a callable. *)
LEMMA SwapFails ==
    ASSUME IInv, NEW f \in Clients, NEW g \in Clients, f # g, NEW h \in {f, g},
           call = <<"swap", f, g>>, Kept({f, g}), Valid(Cache), Quiet(Cache),
           {Held(f), Held(g)} \subseteq {before[f], before[g], Nothing},
           todo # <<>>, Head(todo) = MoveTo(h, IF h = f THEN Cache ELSE f), MoveThrows,
           h \notin broken
    PROVE  Advances
  <1>. DEFINE k == IF h = f THEN Cache ELSE f
  <1>1. /\ TypeOK /\ Sound(Vacant) /\ f \in Functions /\ g \in Functions
        /\ f # Cache /\ g # Cache /\ Cache \in Functions /\ Cache \notin Clients
        /\ h \in Functions /\ h # Cache /\ k \in Functions /\ h # k /\ Head(todo) = MoveTo(h, k)
    BY PlaceFacts DEF IInv
  <1>. HIDE DEF k
  <1>2. Sound({h})
    BY <1>1, SoundAt
  <1>3. /\ TypeOK' /\ Sound({})' /\ Frame(h) /\ Goes(Closing) /\ threw' = TRUE
        /\ Held(h)' = Nothing
    BY <1>1, <1>2, MoveThrowsStep DEF Unwound, Valid
  <1>4. /\ todo' = Closing /\ call' = call /\ todo' # <<>> /\ Head(todo') = WeakDestroyOf(Cache)
    BY <1>1, <1>3, SwapPrograms DEF Goes
  <1>5. /\ Kept({f, g})' /\ Valid(Cache)' /\ Quiet(Cache)' /\ before' = before
    BY <1>1, <1>3, KeptStep, FrameFacts
  <1>6. {Held(f)', Held(g)'} \subseteq {before[f], before[g], Nothing}
    <2>1. CASE h = f
      <3>1. Held(g)' = Held(g) /\ Held(f)' = Nothing
        BY <1>1, <1>3, <2>1, FrameFacts
      <3>. QED
        BY <3>1
    <2>2. CASE h = g
      <3>1. Held(f)' = Held(f) /\ Held(g)' = Nothing
        BY <1>1, <1>3, <2>2, FrameFacts
      <3>. QED
        BY <3>1
    <2>. QED
      BY <2>1, <2>2
  <1>7. Sound(Vacant)'
    BY <1>3, <1>4, SoundAt
  <1>8. Finishing(f, g)'
    BY <1>3, <1>4, <1>5, <1>6 DEF Finishing
  <1>. QED
    BY <1>3, <1>4, <1>5, <1>7, <1>8 DEF Advances, IInv, Stage

LEMMA SwappingStep ==
    ASSUME IInv, NEW f \in Clients, NEW g \in Clients, Swapping(f, g), Command
    PROVE  Advances
  <1>1. /\ TypeOK /\ Sound(Vacant) /\ f \in Functions /\ g \in Functions
        /\ f # Cache /\ g # Cache /\ f # g /\ Cache \in Functions /\ Cache \notin Clients
        /\ Kept({f, g}) /\ call = <<"swap", f, g>> /\ Valid(f) /\ Valid(g) /\ ~threw
        /\ f \notin broken /\ g \notin broken
    BY PlaceFacts DEF IInv, Swapping, Valid
  <1>2. ASSUME NEW p \in {SwapFirst(f, g), SwapMiddle(f, g), SwapSecond(f), SwapLast(f), Closing},
               TypeOK', before' = before, Goes(p),
               \/ /\ Sound({})'
                  /\ Head(p) \in {WeakDestroyOf(g), WeakDestroyOf(f), WeakDestroyOf(Cache)}
               \/ Sound({g})' /\ Head(p) = MoveTo(g, f)
               \/ Sound({f})' /\ Head(p) = MoveTo(f, Cache),
               Swapping(f, g)' \/ Finishing(f, g)'
        PROVE  Advances
    <2>1. todo' = p /\ todo' # <<>> /\ Head(todo') = Head(p)
      BY <1>1, <1>2, SwapPrograms DEF Goes
    <2>2. Sound(Vacant)'
      <3>1. CASE Sound({})' /\ Head(p) = WeakDestroyOf(g)
        BY <2>1, <3>1, SoundAt
      <3>2. CASE Sound({})' /\ Head(p) = WeakDestroyOf(f)
        BY <2>1, <3>2, SoundAt
      <3>3. CASE Sound({})' /\ Head(p) = WeakDestroyOf(Cache)
        BY <2>1, <3>3, SoundAt
      <3>4. CASE Sound({g})' /\ Head(p) = MoveTo(g, f)
        BY <2>1, <3>4, SoundAt
      <3>5. CASE Sound({f})' /\ Head(p) = MoveTo(f, Cache)
        BY <2>1, <3>5, SoundAt
      <3>. QED
        BY <1>2, <3>1, <3>2, <3>3, <3>4, <3>5
    <2>3. Stage'
      BY <1>2 DEF Stage
    <2>. QED
      BY <1>2, <2>1, <2>2, <2>3 DEF Advances, IInv
  <1>3. CASE /\ todo = SwapAll(f, g) /\ Cache \notin alive /\ Quiet(f) /\ Quiet(g)
             /\ Held(f) = before[f] /\ Held(g) = before[g]
    <2>1. todo # <<>> /\ Head(todo) = MoveTo(Cache, g) /\ Tail(todo) = SwapFirst(f, g)
      BY <1>1, <1>3, SwapPrograms
    <2>2. Sound({Cache}) /\ Cache \notin broken
      <3>1. Sound({Cache})
        BY <1>1, <2>1, SoundAt
      <3>. QED
        BY <1>1, <1>3, <3>1 DEF Sound
    <2>3. Movable(g)
      BY <1>1, <1>3, <2>2, QuietMovable
    <2>4. MoveFunction \/ MoveThrows
      BY <2>1, Dispatch, Fields
    <2>5. CASE MoveFunction
      <3>1. /\ TypeOK' /\ Sound({})' /\ Frame2(Cache, g) /\ Goes(SwapFirst(f, g))
            /\ threw' = threw /\ Held(Cache)' = Held(g) /\ IsEmpty(g)'
            /\ Valid(Cache)' /\ Valid(g)' /\ Quiet(Cache)'
        BY <1>1, <1>3, <2>1, <2>2, <2>3, <2>5, MoveStep
      <3>2. /\ Kept({f, g})' /\ before' = before
            /\ Held(f)' = Held(f) /\ Valid(f)' /\ Quiet(f)'
        BY <1>1, <1>3, <3>1, KeptStep2, Frame2Facts
      <3>3. /\ todo' = SwapFirst(f, g) /\ call' = call /\ Head(SwapFirst(f, g)) = WeakDestroyOf(g)
        BY <1>1, <3>1, SwapPrograms DEF Goes
      <3>4. Swapping(f, g)'
        BY <1>1, <1>3, <3>1, <3>2, <3>3 DEF Swapping
      <3>. QED
        BY <1>2, <3>1, <3>2, <3>3, <3>4
    <2>6. CASE MoveThrows
      <3>1. /\ TypeOK' /\ Sound({})' /\ Frame(Cache) /\ Goes(<<>>) /\ threw' = TRUE
            /\ Cache \notin alive'
        BY <1>1, <1>3, <2>1, <2>2, <2>6, MoveThrowsStep DEF Unwound
      <3>2. /\ Kept({f, g})' /\ before' = before /\ Held(f)' = Held(f) /\ Held(g)' = Held(g)
        BY <1>1, <3>1, KeptStep, FrameFacts
      <3>3. SwapReturns(f, g)
        BY <1>1, <1>3, <3>1, <3>2 DEF SwapReturns
      <3>4. Returned
        BY <3>3 DEF Returned
      <3>. QED
        BY <3>1, <3>2, <3>4, Ending
    <2>. QED
      BY <2>4, <2>5, <2>6
  <1>4. CASE /\ todo = SwapFirst(f, g) /\ Valid(Cache) /\ Quiet(Cache) /\ Quiet(f) /\ IsEmpty(g)
             /\ Held(f) = before[f] /\ Held(Cache) = before[g]
    <2>1. /\ todo # <<>> /\ Head(todo) = WeakDestroyOf(g) /\ Tail(todo) = SwapMiddle(f, g)
          /\ Head(SwapMiddle(f, g)) = MoveTo(g, f) /\ SwapMiddle(f, g) # <<>>
      BY <1>1, <1>4, SwapPrograms
    <2>2. Sound({}) /\ Quiet(g)
      BY <1>1, <1>4, <2>1, SoundAt, EmptyQuiet
    <2>3. /\ TypeOK' /\ Sound({g})' /\ Frame(g) /\ Goes(SwapMiddle(f, g)) /\ threw' = threw
          /\ Valid(g)' /\ IsEmpty(g)'
      BY <1>1, <1>4, <2>1, <2>2, WeakDestroyStep
    <2>4. /\ Kept({f, g})' /\ before' = before
          /\ Held(f)' = Held(f) /\ Valid(f)' /\ Quiet(f)'
          /\ Held(Cache)' = Held(Cache) /\ Valid(Cache)' /\ Quiet(Cache)'
      BY <1>1, <1>4, <2>3, KeptStep, FrameFacts
    <2>5. todo' = SwapMiddle(f, g) /\ call' = call
      BY <2>1, <2>3 DEF Goes
    <2>6. Swapping(f, g)'
      BY <1>1, <1>4, <2>3, <2>4, <2>5 DEF Swapping
    <2>. QED
      BY <1>2, <2>1, <2>3, <2>4, <2>6
  <1>5. CASE /\ todo = SwapMiddle(f, g) /\ Valid(Cache) /\ Quiet(Cache) /\ Quiet(f) /\ IsEmpty(g)
             /\ Held(f) = before[f] /\ Held(Cache) = before[g]
    <2>1. /\ todo # <<>> /\ Head(todo) = MoveTo(g, f) /\ Tail(todo) = SwapSecond(f)
          /\ Head(SwapSecond(f)) = WeakDestroyOf(f) /\ SwapSecond(f) # <<>>
      BY <1>1, <1>5, SwapPrograms
    <2>2. Sound({g})
      BY <1>1, <2>1, SoundAt
    <2>3. Movable(f)
      BY <1>1, <1>5, <2>2, QuietMovable
    <2>4. MoveFunction \/ MoveThrows
      BY <2>1, Dispatch, Fields
    <2>5. CASE MoveFunction
      <3>1. /\ TypeOK' /\ Sound({})' /\ Frame2(g, f) /\ Goes(SwapSecond(f))
            /\ threw' = threw /\ Held(g)' = Held(f) /\ IsEmpty(f)' /\ Valid(f)' /\ Valid(g)'
        BY <1>1, <1>5, <2>1, <2>2, <2>3, <2>5, MoveStep
      <3>2. /\ Kept({f, g})' /\ before' = before
            /\ Held(Cache)' = Held(Cache) /\ Valid(Cache)' /\ Quiet(Cache)'
        BY <1>1, <1>5, <3>1, KeptStep2, Frame2Facts
      <3>3. todo' = SwapSecond(f) /\ call' = call
        BY <2>1, <3>1 DEF Goes
      <3>4. Swapping(f, g)'
        BY <1>1, <1>5, <3>1, <3>2, <3>3 DEF Swapping
      <3>. QED
        BY <1>2, <2>1, <3>1, <3>2, <3>4
    <2>6. CASE MoveThrows
      <3>1. {Held(f), Held(g)} \subseteq {before[f], before[g], Nothing}
        BY <1>5 DEF Held
      <3>. QED
        BY <1>1, <1>5, <2>1, <2>6, <3>1, SwapFails
    <2>. QED
      BY <2>4, <2>5, <2>6
  <1>6. CASE /\ todo = SwapSecond(f) /\ Valid(Cache) /\ Quiet(Cache) /\ IsEmpty(f)
             /\ Held(g) = before[f] /\ Held(Cache) = before[g]
    <2>1. /\ todo # <<>> /\ Head(todo) = WeakDestroyOf(f) /\ Tail(todo) = SwapLast(f)
          /\ Head(SwapLast(f)) = MoveTo(f, Cache) /\ SwapLast(f) # <<>>
      BY <1>1, <1>6, SwapPrograms
    <2>2. Sound({}) /\ Quiet(f)
      BY <1>1, <1>6, <2>1, SoundAt, EmptyQuiet
    <2>3. /\ TypeOK' /\ Sound({f})' /\ Frame(f) /\ Goes(SwapLast(f)) /\ threw' = threw
          /\ Valid(f)' /\ IsEmpty(f)'
      BY <1>1, <1>6, <2>1, <2>2, WeakDestroyStep
    <2>4. /\ Kept({f, g})' /\ before' = before
          /\ Held(g)' = Held(g) /\ Valid(g)'
          /\ Held(Cache)' = Held(Cache) /\ Valid(Cache)' /\ Quiet(Cache)'
      BY <1>1, <1>6, <2>3, KeptStep, FrameFacts
    <2>5. todo' = SwapLast(f) /\ call' = call
      BY <2>1, <2>3 DEF Goes
    <2>6. Swapping(f, g)'
      BY <1>1, <1>6, <2>3, <2>4, <2>5 DEF Swapping
    <2>. QED
      BY <1>2, <2>1, <2>3, <2>4, <2>6
  <1>7. CASE /\ todo = SwapLast(f) /\ Valid(Cache) /\ Quiet(Cache) /\ IsEmpty(f)
             /\ Held(g) = before[f] /\ Held(Cache) = before[g]
    <2>1. /\ todo # <<>> /\ Head(todo) = MoveTo(f, Cache) /\ Tail(todo) = Closing
          /\ Head(Closing) = WeakDestroyOf(Cache) /\ Closing # <<>>
      BY <1>1, <1>7, SwapPrograms
    <2>2. Sound({f})
      BY <1>1, <2>1, SoundAt
    <2>3. Movable(Cache)
      BY <1>1, <1>7, <2>2, QuietMovable
    <2>4. MoveFunction \/ MoveThrows
      BY <2>1, Dispatch, Fields
    <2>5. CASE MoveFunction
      <3>1. /\ TypeOK' /\ Sound({})' /\ Frame2(f, Cache) /\ Goes(Closing)
            /\ threw' = threw /\ Held(f)' = Held(Cache) /\ IsEmpty(Cache)' /\ Valid(Cache)'
        BY <1>1, <1>7, <2>1, <2>2, <2>3, <2>5, MoveStep
      <3>2. Kept({f, g})' /\ before' = before /\ Held(g)' = Held(g)
        BY <1>1, <3>1, KeptStep2, Frame2Facts
      <3>3. todo' = Closing /\ call' = call
        BY <2>1, <3>1 DEF Goes
      <3>4. Quiet(Cache)'
        BY <1>1, <3>1, PlaceFacts DEF Quiet, Retrieve, IsEmpty, TypeOK
      <3>5. Finishing(f, g)'
        BY <1>1, <1>7, <3>1, <3>2, <3>3, <3>4 DEF Finishing
      <3>. QED
        BY <1>2, <2>1, <3>1, <3>2, <3>5
    <2>6. CASE MoveThrows
      <3>1. {Held(f), Held(g)} \subseteq {before[f], before[g], Nothing}
        BY <1>7 DEF Held
      <3>. QED
        BY <1>1, <1>7, <2>1, <2>6, <3>1, SwapFails
    <2>. QED
      BY <2>4, <2>5, <2>6
  <1>. QED
    BY <1>3, <1>4, <1>5, <1>6, <1>7 DEF Swapping

(* A command always belongs to an operation. *)
LEMMA CommandStep ==
    ASSUME IInv, Command
    PROVE  Advances
  <1>1. todo # <<>>
    BY Dispatch
  <1>. QED
    BY <1>1, OneOperandStep, MovingStep, SwappingStep, FinishingStep DEF IInv, Stage, Idle

-----------------------------------------------------------------------------
(* Between the operations. *)

LEMMA Between ==
    ASSUME IInv, todo = <<>>
    PROVE  TypeOK /\ Sound({}) /\ Cache \notin alive /\ Cache \notin broken /\ call = <<>>
  <1>1. TypeOK /\ Sound(Vacant) /\ Stage
    BY DEF IInv
  <1>2. Sound({})
    BY <1>1, SoundAt
  <1>3. \A f \in Clients : ~OneOperand(f)
    <2>. SUFFICES ASSUME NEW f \in Clients, OneOperand(f) PROVE FALSE
      OBVIOUS
    <2>1. call # <<>>
      BY DEF OneOperand
    <2>. QED
      BY <1>1, <2>1, Types
  <1>4. \A f, g \in Clients : ~Moving(f, g) /\ ~Swapping(f, g) /\ ~Finishing(f, g)
    <2>. SUFFICES ASSUME NEW f \in Clients, NEW g \in Clients,
                         Moving(f, g) \/ Swapping(f, g) \/ Finishing(f, g)
                  PROVE  FALSE
      OBVIOUS
    <2>1. call # <<>>
      BY DEF Moving, Swapping, Finishing
    <2>. QED
      BY <1>1, <2>1, Types
  <1>5. Idle
    BY <1>1, <1>3, <1>4 DEF Stage
  <1>6. call = <<>>
    BY <1>1, Types
  <1>. QED
    BY <1>1, <1>2, <1>5, <1>6, PlaceFacts DEF Idle, Sound

LEMMA HeldType ==
    ASSUME TypeOK, NEW V, Sound(V), NEW f \in Functions, f \notin V
    PROVE  Held(f) \in Callables \cup {Nothing}
  <1>1. CASE Valid(f) /\ ~IsEmpty(f)
    <2>1. f \in Owners(V)
      BY <1>1 DEF Owners, Valid
    <2>. QED
      BY <1>1, <2>1, OwnerFacts DEF Held
  <1>2. CASE ~(Valid(f) /\ ~IsEmpty(f))
    BY <1>2 DEF Held
  <1>. QED
    BY <1>1, <1>2

LEMMA StoresKept ==
    ASSUME UNCHANGED stores
    PROVE  /\ \A h : /\ Held(h)' = Held(h) /\ Retrieve(h)' = Retrieve(h)
                     /\ IsEmpty(h)' = IsEmpty(h) /\ (Valid(h)' <=> Valid(h))
                     /\ Quiet(h)' <=> Quiet(h)
                     /\ Movable(h)' <=> Movable(h)
           /\ \A V : Sound(V) => Sound(V)'
  <1>1. UNCHANGED <<alive, table, pointer, box, heap, running, broken>>
    BY DEF stores
  <1>2. \A h : Retrieve(h)' = Retrieve(h)
    BY <1>1 DEF Retrieve
  <1>3. \A h : IsEmpty(h)' = IsEmpty(h)
    BY <1>1 DEF IsEmpty
  <1>4. \A h : (Valid(h)' <=> Valid(h)) /\ (Movable(h)' <=> Movable(h))
    BY <1>1 DEF Valid, Movable
  <1>5. \A h : Quiet(h)' <=> Quiet(h)
    BY <1>1, <1>2 DEF Quiet
  <1>6. \A h : Held(h)' = Held(h)
    BY <1>1 DEF Held, Valid, IsEmpty, Retrieve
  <1>7. \A V : Sound(V) => Sound(V)'
    BY <1>1 DEF Sound, Owners, Retrieve, IsEmpty
  <1>. QED
    BY <1>2, <1>3, <1>4, <1>5, <1>6, <1>7

LEMMA BeginStep ==
    ASSUME IInv, NEW operation, NEW program \in Seq(Commands), program # <<>>,
           operation # <<>>, Begin(operation, program)
    PROVE  /\ todo = <<>> /\ TypeOK' /\ todo' = program /\ call' = operation /\ ~threw'
           /\ \A S : Kept(S)'
           /\ \A h \in Clients : Held(h)' = before'[h]
           /\ Sound({})' /\ \A h : h \notin alive => Sound({h})'
           /\ alive' = alive /\ broken' = broken /\ Cache \notin alive'
           /\ broken' \cap Functions \subseteq alive'
           /\ before' = [f \in Clients |-> Held(f)]
  <1>1. /\ todo = <<>> /\ todo' = program /\ call' = operation /\ threw' = FALSE
        /\ before' = [f \in Clients |-> Held(f)] /\ UNCHANGED stores
    BY DEF Begin
  <1>2. TypeOK /\ Sound({}) /\ Cache \notin alive
    BY <1>1, Between
  <1>3. before' \in [Clients -> Callables \cup {Nothing}]
    BY <1>1, <1>2, HeldType, PlaceFacts
  <1>4. TypeOK'
    BY <1>1, <1>2, <1>3, Types DEF TypeOK, stores
  <1>5. \A h \in Clients : Held(h)' = before'[h]
    BY <1>1, StoresKept
  <1>6. \A S : Kept(S)'
    BY <1>5 DEF Kept
  <1>7. Sound({})'
    BY <1>1, <1>2, StoresKept
  <1>8. ASSUME NEW h, h \notin alive PROVE Sound({h})'
    <2>1. Owners({h}) = Owners({})
      BY <1>8 DEF Owners
    <2>2. Sound({h})
      BY <1>2, <2>1 DEF Sound
    <2>. QED
      BY <1>1, <2>2, StoresKept
  <1>9. alive' = alive /\ broken' = broken /\ broken \cap Functions \subseteq alive
    BY <1>1, <1>2 DEF stores, Sound
  <1>. QED
    BY <1>1, <1>2, <1>4, <1>5, <1>6, <1>7, <1>8, <1>9

(* An operation begins. *)
IsOperation(c) ==
    \/ \E f \in Clients : \/ c = <<"drop", f>>
                          \/ \E d \in Callables : c = <<"give", f, d>>
    \/ \E f, g \in Clients : f # g /\ c \in {<<"move", f, g>>, <<"swap", f, g>>}

Begins ==
    /\ IInv' /\ todo = <<>> /\ todo' # <<>> /\ ~threw'
    /\ before' = [f \in Clients |-> Held(f)]
    /\ IsOperation(call')

LEMMA Beginning ==
    ASSUME IInv, NEW operation, NEW program \in Seq(Commands), program # <<>>,
           operation # <<>>, Begin(operation, program),
           IsOperation(operation), Sound(Vacant)', Stage'
    PROVE  Begins
  <1>1. /\ todo = <<>> /\ TypeOK' /\ todo' = program /\ call' = operation /\ ~threw'
        /\ before' = [f \in Clients |-> Held(f)]
    BY BeginStep
  <1>2. IsOperation(call')
    BY <1>1
  <1>. QED
    BY <1>1, <1>2 DEF Begins, IInv

LEMMA ConstructStep ==
    ASSUME IInv, NEW f \in Clients, NEW c \in Callables \cup {Nothing}, Construct(f, c)
    PROVE  Begins
  <1>1. f \in Functions /\ f # Cache /\ f \notin alive /\ c # Nothing => c \in Callables
    BY PlaceFacts DEF Construct
  <1>2. CASE c = Nothing
    <2>1. f \in Functions /\ f \notin alive /\ SetEmptyOf(f) \in Commands
      BY <1>2, PlaceFacts DEF Construct, SetEmptyOf, Commands
    <2>2. Begin(<<"drop", f>>, <<SetEmptyOf(f)>>)
      BY <1>2 DEF Construct, Give, SetEmptyOf
    <2>3. <<SetEmptyOf(f)>> \in Seq(Commands) /\ <<SetEmptyOf(f)>> # <<>>
          /\ Head(<<SetEmptyOf(f)>>) = SetEmptyOf(f) /\ <<"drop", f>> # <<>>
      BY <2>1, ShortPrograms
    <2>4. Sound(Vacant)'
      BY <2>2, <2>3, BeginStep, SoundAt
    <2>5. OneOperand(f)'
      BY <2>1, <2>2, <2>3, BeginStep DEF OneOperand
    <2>6. IsOperation(<<"drop", f>>) /\ Stage'
      BY <2>2, <2>3, <2>4, <2>5, PlaceFacts DEF IsOperation, Stage
    <2>. QED
      BY <2>2, <2>3, <2>4, <2>5, <2>6, Beginning
  <1>3. CASE c # Nothing
    <2>1. f \in Functions /\ f \notin alive /\ c \in Callables /\ PutIn(f, c) \in Commands
      BY <1>3, PlaceFacts DEF Construct, PutIn, Commands
    <2>2. Begin(<<"give", f, c>>, <<PutIn(f, c)>>)
      BY <1>3 DEF Construct, Give, PutIn
    <2>3. <<PutIn(f, c)>> \in Seq(Commands) /\ <<PutIn(f, c)>> # <<>>
          /\ Head(<<PutIn(f, c)>>) = PutIn(f, c) /\ <<"give", f, c>> # <<>>
      BY <2>1, ShortPrograms
    <2>4. Sound(Vacant)'
      BY <2>1, <2>2, <2>3, BeginStep, SoundAt
    <2>5. OneOperand(f)'
      BY <2>1, <2>2, <2>3, BeginStep DEF OneOperand
    <2>6. IsOperation(<<"give", f, c>>) /\ Stage'
      BY <2>1, <2>2, <2>3, <2>4, <2>5, PlaceFacts DEF IsOperation, Stage
    <2>. QED
      BY <2>1, <2>2, <2>3, <2>4, <2>5, <2>6, Beginning
  <1>. QED
    BY <1>2, <1>3

LEMMA AssignStep ==
    ASSUME IInv, NEW f \in Clients, NEW c \in Callables \cup {Nothing}, Assign(f, c)
    PROVE  Begins
  <1>1. /\ f \in Functions /\ Valid(f) /\ Quiet(f) /\ f \in alive /\ f \notin broken
        /\ WeakDestroyOf(f) \in Commands /\ DestroyOf(f) \in Commands
    BY PlaceFacts DEF Assign, Valid, WeakDestroyOf, DestroyOf, Commands
  <1>2. Quiet(f)'
    BY <1>1, StoresKept DEF Assign, Begin
  <1>3. CASE c = Nothing
    <2>1. Begin(<<"drop", f>>, <<DestroyOf(f)>>)
      BY <1>3 DEF Assign, Give, DestroyOf
    <2>2. <<DestroyOf(f)>> \in Seq(Commands) /\ <<DestroyOf(f)>> # <<>>
          /\ Head(<<DestroyOf(f)>>) = DestroyOf(f) /\ <<"drop", f>> # <<>>
      BY <1>1, ShortPrograms
    <2>3. Sound(Vacant)'
      BY <2>1, <2>2, BeginStep, SoundAt
    <2>4. OneOperand(f)'
      BY <1>1, <1>2, <2>1, <2>2, BeginStep DEF OneOperand
    <2>5. IsOperation(<<"drop", f>>) /\ Stage'
      BY <2>1, <2>2, <2>3, <2>4, PlaceFacts DEF IsOperation, Stage
    <2>. QED
      BY <2>1, <2>2, <2>3, <2>4, <2>5, Beginning
  <1>4. CASE c # Nothing
    <2>1. c \in Callables /\ PutIn(f, c) \in Commands
      BY <1>1, <1>4 DEF PutIn, Commands
    <2>2. Begin(<<"give", f, c>>, <<WeakDestroyOf(f), PutIn(f, c)>>)
      BY <1>4 DEF Assign, Give, WeakDestroyOf, PutIn
    <2>3. /\ <<WeakDestroyOf(f), PutIn(f, c)>> \in Seq(Commands)
          /\ <<WeakDestroyOf(f), PutIn(f, c)>> # <<>>
          /\ Head(<<WeakDestroyOf(f), PutIn(f, c)>>) = WeakDestroyOf(f)
          /\ <<"give", f, c>> # <<>>
      BY <1>1, <2>1, ShortPrograms
    <2>4. Sound(Vacant)'
      BY <2>2, <2>3, BeginStep, SoundAt
    <2>5. OneOperand(f)'
      BY <1>1, <1>2, <2>1, <2>2, <2>3, BeginStep DEF OneOperand
    <2>6. IsOperation(<<"give", f, c>>) /\ Stage'
      BY <2>1, <2>2, <2>3, <2>4, <2>5, PlaceFacts DEF IsOperation, Stage
    <2>. QED
      BY <2>1, <2>2, <2>3, <2>4, <2>5, <2>6, Beginning
  <1>. QED
    BY <1>3, <1>4

LEMMA DestructStep ==
    ASSUME IInv, NEW f \in Clients, Destruct(f)
    PROVE  Begins
  <1>1. /\ f \in Functions /\ Valid(f) /\ Quiet(f) /\ f \in alive /\ f \notin broken
        /\ WeakDestroyOf(f) \in Commands /\ EndOf(f) \in Commands
    BY PlaceFacts DEF Destruct, Valid, WeakDestroyOf, EndOf, Commands
  <1>2. Quiet(f)'
    BY <1>1, StoresKept DEF Destruct, Begin
  <1>3. Begin(<<"drop", f>>, <<WeakDestroyOf(f), EndOf(f)>>)
    BY DEF Destruct, WeakDestroyOf, EndOf
  <1>4. /\ <<WeakDestroyOf(f), EndOf(f)>> \in Seq(Commands)
        /\ <<WeakDestroyOf(f), EndOf(f)>> # <<>>
        /\ Head(<<WeakDestroyOf(f), EndOf(f)>>) = WeakDestroyOf(f)
        /\ <<"drop", f>> # <<>>
    BY <1>1, ShortPrograms
  <1>5. Sound(Vacant)'
    BY <1>3, <1>4, BeginStep, SoundAt
  <1>6. OneOperand(f)'
    BY <1>1, <1>2, <1>3, <1>4, BeginStep DEF OneOperand
  <1>7. IsOperation(<<"drop", f>>) /\ Stage'
    BY <1>3, <1>4, <1>5, <1>6, PlaceFacts DEF IsOperation, Stage
  <1>. QED
    BY <1>3, <1>4, <1>5, <1>6, <1>7, Beginning

LEMMA MoveConstructStep ==
    ASSUME IInv, NEW f \in Clients, NEW g \in Clients, MoveConstruct(f, g)
    PROVE  Begins
  <1>1. /\ f \in Functions /\ f \notin alive /\ Valid(g) /\ Movable(g) /\ f # g
        /\ g \in Functions
    BY PlaceFacts DEF MoveConstruct, Valid
  <1>2. MoveTo(f, g) \in Commands
    BY <1>1 DEF MoveTo, Commands
  <1>3. Begin(<<"move", f, g>>, <<MoveTo(f, g)>>)
    BY DEF MoveConstruct, MoveTo
  <1>4. /\ <<MoveTo(f, g)>> \in Seq(Commands) /\ <<MoveTo(f, g)>> # <<>>
        /\ Head(<<MoveTo(f, g)>>) = MoveTo(f, g) /\ <<"move", f, g>> # <<>>
    BY <1>2, ShortPrograms
  <1>5. Valid(g)' /\ Movable(g)'
    BY <1>1, <1>3, StoresKept DEF Begin
  <1>6. Sound(Vacant)'
    BY <1>1, <1>3, <1>4, BeginStep, SoundAt
  <1>7. Moving(f, g)'
    BY <1>1, <1>3, <1>4, <1>5, BeginStep DEF Moving
  <1>8. IsOperation(<<"move", f, g>>) /\ Stage'
    BY <1>1, <1>3, <1>4, <1>6, <1>7, PlaceFacts DEF IsOperation, Stage
  <1>. QED
    BY <1>1, <1>3, <1>4, <1>6, <1>7, <1>8, Beginning

LEMMA MoveAssignStep ==
    ASSUME IInv, NEW f \in Clients, NEW g \in Clients, MoveAssign(f, g)
    PROVE  Begins
  <1>1. /\ f \in Functions /\ f \in alive /\ f \notin broken /\ Valid(g) /\ Movable(g)
        /\ f # g /\ g \in Functions /\ Quiet(f)
    BY PlaceFacts DEF MoveAssign, Valid
  <1>2. Begin(<<"move", f, g>>, MoveAssignment(f, g))
    BY DEF MoveAssign
  <1>3. /\ MoveAssignment(f, g) \in Seq(Commands) /\ MoveAssignment(f, g) # <<>>
        /\ Head(MoveAssignment(f, g)) = WeakDestroyOf(f) /\ <<"move", f, g>> # <<>>
    BY <1>1, SwapPrograms
  <1>4. Valid(g)' /\ Movable(g)' /\ Quiet(f)'
    BY <1>1, <1>2, StoresKept DEF Begin
  <1>5. Sound(Vacant)'
    BY <1>2, <1>3, BeginStep, SoundAt
  <1>6. Moving(f, g)'
    BY <1>1, <1>2, <1>3, <1>4, BeginStep DEF Moving
  <1>7. IsOperation(<<"move", f, g>>) /\ Stage'
    BY <1>1, <1>2, <1>3, <1>5, <1>6, PlaceFacts DEF IsOperation, Stage
  <1>. QED
    BY <1>1, <1>2, <1>3, <1>5, <1>6, <1>7, Beginning

LEMMA SwapStep ==
    ASSUME IInv, NEW f \in Clients, NEW g \in Clients, Swap(f, g)
    PROVE  Begins
  <1>1. /\ f \in Functions /\ g \in Functions /\ Valid(f) /\ Valid(g) /\ f # g
        /\ Quiet(f) /\ Quiet(g)
    BY PlaceFacts DEF Swap
  <1>2. Begin(<<"swap", f, g>>, SwapAll(f, g))
    BY <1>1, SwapIsSwapAll DEF Swap
  <1>3. /\ SwapAll(f, g) \in Seq(Commands) /\ SwapAll(f, g) # <<>>
        /\ Head(SwapAll(f, g)) = MoveTo(Cache, g) /\ <<"swap", f, g>> # <<>>
    BY <1>1, SwapPrograms
  <1>4. Valid(f)' /\ Valid(g)' /\ Quiet(f)' /\ Quiet(g)'
    BY <1>1, <1>2, StoresKept DEF Begin
  <1>5. Sound({Cache})'
    BY <1>2, <1>3, BeginStep, Between DEF Begin
  <1>6. Sound(Vacant)'
    BY <1>2, <1>3, <1>5, BeginStep, SoundAt
  <1>7. Swapping(f, g)'
    BY <1>1, <1>2, <1>3, <1>4, BeginStep DEF Swapping
  <1>8. IsOperation(<<"swap", f, g>>) /\ Stage'
    BY <1>1, <1>2, <1>3, <1>6, <1>7, PlaceFacts DEF IsOperation, Stage
  <1>. QED
    BY <1>1, <1>2, <1>3, <1>6, <1>7, <1>8, Beginning

(* A callable is called, or returns: nothing but running changes. *)
CallsOnly == IInv' /\ UNCHANGED <<alive, table, pointer, box, heap, todo, broken, call, threw, before>>

LEMMA InvokeSteps ==
    ASSUME IInv, (\E f \in Clients : Invoke(f)) \/ (\E p \in Places : InvokeReturns(p))
    PROVE  CallsOnly
  <1>1. /\ todo = <<>>
        /\ UNCHANGED <<alive, table, pointer, box, heap, todo, broken, call, threw, before>>
    BY DEF Invoke, InvokeReturns
  <1>2. TypeOK /\ Sound({}) /\ Cache \notin alive
    BY <1>1, Between
  <1>3. \A q \in running' : q \in Places /\ box[q] # Nothing
    <2>1. \A q \in running : q \in Places /\ box[q] # Nothing
      BY <1>2, Types DEF Sound
    <2>2. ASSUME NEW f \in Clients, Invoke(f)
          PROVE  \A q \in running' : q \in Places /\ box[q] # Nothing
      <3>1. f \in Owners({}) /\ running' = running \cup {Retrieve(f)}
        BY <2>2 DEF Invoke, Owners, Valid
      <3>2. Retrieve(f) \in Places /\ box[Retrieve(f)] # Nothing
        BY <1>2, <3>1, OwnerFacts, PlaceFacts
      <3>. QED
        BY <2>1, <3>1, <3>2
    <2>3. ASSUME NEW p \in Places, InvokeReturns(p)
          PROVE  \A q \in running' : q \in Places /\ box[q] # Nothing
      BY <2>1, <2>3 DEF InvokeReturns
    <2>. QED
      BY <2>2, <2>3
  <1>4. TypeOK'
    BY <1>1, <1>2, <1>3 DEF TypeOK
  <1>5. Sound({})'
    BY <1>1, <1>2, <1>3 DEF Sound, Owners, Retrieve, IsEmpty
  <1>6. Sound(Vacant)'
    BY <1>1, <1>5, SoundAt
  <1>7. Stage'
    BY <1>1, <1>2 DEF Stage, Idle
  <1>. QED
    BY <1>1, <1>4, <1>6, <1>7 DEF CallsOnly, IInv

(* Every step: an operation begins, goes on or ends, or a callable is called. *)
LEMMA Steps ==
    ASSUME IInv, Next
    PROVE  \/ Begins
           \/ CallsOnly
           \/ todo # <<>> /\ Advances /\ (todo' # <<>> => call' = call)
  <1>1. CASE Command
    <2>1. todo' # <<>> => call' = call
      BY <1>1 DEF Command, SetEmpty, WeakDestroy, Destroy, End, InitFunction,
              InitThrowsEarly, InitThrowsLate, MoveFunction, MoveThrows, Done, Unwind, Continue
    <2>. QED
      BY <1>1, <2>1, CommandStep, Dispatch
  <1>2. CASE Operation
    <2>1. ASSUME NEW f \in Clients, NEW c \in Callables \cup {Nothing},
                 Construct(f, c) \/ Assign(f, c)
          PROVE  Begins
      BY <2>1, ConstructStep, AssignStep
    <2>2. ASSUME NEW f \in Clients, NEW g \in Clients,
                 MoveConstruct(f, g) \/ MoveAssign(f, g) \/ Swap(f, g)
          PROVE  Begins
      BY <2>2, MoveConstructStep, MoveAssignStep, SwapStep
    <2>3. ASSUME NEW f \in Clients, Destruct(f)
          PROVE  Begins
      BY <2>3, DestructStep
    <2>4. ASSUME NEW f \in Clients, Invoke(f)
          PROVE  CallsOnly
      BY <2>4, InvokeSteps
    <2>5. ASSUME NEW p \in Places, InvokeReturns(p)
          PROVE  CallsOnly
      BY <2>5, InvokeSteps
    <2>. QED
      BY <1>2, <2>1, <2>2, <2>3, <2>4, <2>5 DEF Operation
  <1>. QED
    BY <1>1, <1>2 DEF Next

LEMMA Start ==
    ASSUME Init
    PROVE  IInv
  <1>1. /\ alive = {} /\ heap = {} /\ running = {} /\ broken = {}
        /\ todo = <<>> /\ call = <<>> /\ threw = FALSE
        /\ table = [f \in Functions |-> "empty"]
        /\ pointer = [f \in Functions |-> Nothing]
        /\ box = [p \in Places |-> Nothing]
        /\ before = [f \in Clients |-> Nothing]
    BY DEF Init
  <1>2. todo \in Seq(Commands)
    BY <1>1
  <1>3. TypeOK
    BY <1>1, <1>2 DEF TypeOK
  <1>4. Sound({})
    <2>1. Owners({}) = {}
      BY <1>1 DEF Owners
    <2>. QED
      BY <1>1, <2>1 DEF Sound
  <1>5. Sound(Vacant)
    BY <1>1, <1>4 DEF Vacant
  <1>6. Stage
    BY <1>1 DEF Stage, Idle
  <1>. QED
    BY <1>3, <1>5, <1>6 DEF IInv

LEMMA Stutter ==
    ASSUME IInv, UNCHANGED vars
    PROVE  IInv'
  <1>1. UNCHANGED stores /\ UNCHANGED <<todo, call, threw, before>>
    BY DEF vars
  <1>2. TypeOK'
    BY <1>1 DEF IInv, TypeOK, stores
  <1>3. Sound(Vacant)'
    BY <1>1 DEF IInv, Sound, Vacant, Owners, Retrieve, IsEmpty, stores
  <1>4. Stage'
    <2>1. \A S : Kept(S) => Kept(S)'
      BY <1>1, StoresKept DEF Kept
    <2>2. UNCHANGED <<alive, broken>>
      BY <1>1 DEF stores
    <2>3. Idle => Idle'
      BY <1>1, <2>2 DEF Idle
    <2>4. \A f \in Clients : OneOperand(f) => OneOperand(f)'
      BY <1>1, <2>1, <2>2, StoresKept DEF OneOperand
    <2>5. \A f, g \in Clients : Moving(f, g) => Moving(f, g)'
      BY <1>1, <2>1, <2>2, StoresKept DEF Moving
    <2>6. \A f, g \in Clients : Swapping(f, g) => Swapping(f, g)'
      BY <1>1, <2>1, <2>2, StoresKept DEF Swapping
    <2>7. \A f, g \in Clients : Finishing(f, g) => Finishing(f, g)'
      BY <1>1, <2>1, <2>2, StoresKept DEF Finishing
    <2>. QED
      BY <2>3, <2>4, <2>5, <2>6, <2>7 DEF IInv, Stage
  <1>. QED
    BY <1>2, <1>3, <1>4 DEF IInv

-----------------------------------------------------------------------------
(* The inductive invariant: the types, the boxes and the progress of the    *)
(* operation of every reachable state.                                     *)
THEOREM Invariance == Spec => []IInv
  <1>1. Init => IInv
    BY Start
  <1>2. IInv /\ [Next]_vars => IInv'
    <2>1. ASSUME IInv, Next PROVE IInv'
      BY <2>1, Steps DEF Begins, CallsOnly, Advances
    <2>. QED
      BY <2>1, Stutter
  <1>. QED
    BY <1>1, <1>2, PTL DEF Spec

(* The variables of a unique_function and its vtable programs have their    *)
(* types: no command is ever one that erasure does not have.               *)
THEOREM TypeCorrect == Spec => []TypeOK
  <1>1. IInv => TypeOK
    BY DEF IInv
  <1>. QED
    BY <1>1, Invariance, PTL

(* Between the operations of fu2::unique_function every callable has one    *)
(* owner, whatever moves and allocations threw: no double destruction, no   *)
(* call of a destroyed callable, no forgotten box.                         *)
THEOREM CallablesOwnedOnce == Spec => []BoxesOwned
  <1>1. IInv => BoxesOwned
    <2>. SUFFICES ASSUME IInv, todo = <<>>
                  PROVE  LET owners == {f \in alive \ broken : ~IsEmpty(f)}
                         IN  /\ \A f, g \in owners : Retrieve(f) = Retrieve(g) => f = g
                             /\ {p \in Places : box[p] # Nothing} = {Retrieve(f) : f \in owners}
                             /\ heap \ broken = {Retrieve(f) : f \in owners} \cap Blocks
                             /\ \A p \in running : box[p] # Nothing
      BY DEF BoxesOwned
    <2>1. Sound({})
      BY Between
    <2>2. Owners({}) = {f \in alive \ broken : ~IsEmpty(f)}
      BY DEF Owners
    <2>. QED
      BY <2>1, <2>2 DEF Sound
  <1>. QED
    BY <1>1, Invariance, PTL

-----------------------------------------------------------------------------
(* The values of the functions. *)

Value == IF todo = <<>> THEN [f \in Clients |-> Held(f)] ELSE before
Threw == todo = <<>> /\ threw

HeldTypes == todo = <<>> => \A f \in Clients : Held(f) \in Callables \cup {Nothing}

LEMMA HeldHasType ==
    ASSUME IInv
    PROVE  HeldTypes
  BY Between, HeldType, PlaceFacts DEF HeldTypes

LEMMA AbstractInit ==
    ASSUME Init
    PROVE  Promise!Init
  <1>1. todo = <<>> /\ call = <<>> /\ threw = FALSE /\ \A f : Held(f) = Nothing
    BY DEF Init, Held, Valid
  <1>2. Value = [f \in Clients |-> Nothing]
    BY <1>1 DEF Value
  <1>. QED
    BY <1>1, <1>2 DEF Promise!Init, Value

LEMMA AbstractCall ==
    ASSUME IInv, Begins
    PROVE  Promise!Call
  <1>1. todo = <<>> /\ call = <<>> /\ todo' # <<>>
    BY Between DEF Begins
  <1>2. Value' = Value
    BY <1>1 DEF Begins, Value
  <1>3. call' \in Promise!Calls
    <2>1. \A f \in Clients : <<"drop", f>> \in Promise!Calls
      BY DEF Promise!Calls
    <2>2. \A f \in Clients, c \in Callables : <<"give", f, c>> \in Promise!Calls
      BY DEF Promise!Calls
    <2>3. \A f, g \in Clients :
             f # g => <<"move", f, g>> \in Promise!Calls /\ <<"swap", f, g>> \in Promise!Calls
      BY DEF Promise!Calls
    <2>. QED
      BY <2>1, <2>2, <2>3 DEF Begins, IsOperation
  <1>4. Threw' = FALSE
    BY <1>1 DEF Threw
  <1>. QED
    BY <1>1, <1>2, <1>3, <1>4 DEF Promise!Call, Value, Threw

LEMMA AbstractFail ==
    ASSUME NEW S \in SUBSET Clients, S \subseteq Promise!Operands, IInv,
           HeldTypes', todo # <<>>, todo' = <<>>, Kept(S)', before' = before,
           \A f \in S : Held(f)' \in {before[g] : g \in S} \cup {Nothing}
    PROVE  Promise!Fail
  <1>1. /\ Value = before
        /\ Value' = [f \in Clients |-> Held(f)']
        /\ Value' \in [Clients -> Callables \cup {Nothing}]
    BY DEF Value, HeldTypes
  <1>2. \A f \in Clients :
           Value'[f] \in IF f \in Promise!Operands
                           THEN {Value[g] : g \in Promise!Operands} \cup {Nothing}
                           ELSE {Value[f]}
    <2>. SUFFICES ASSUME NEW f \in Clients
                  PROVE  Value'[f] \in IF f \in Promise!Operands
                                         THEN {Value[g] : g \in Promise!Operands} \cup {Nothing}
                                         ELSE {Value[f]}
      OBVIOUS
    <2>1. CASE f \in S
      BY <1>1, <2>1
    <2>2. CASE f \notin S
      BY <1>1, <2>2 DEF Kept
    <2>. QED
      BY <2>1, <2>2
  <1>. QED
    BY <1>1, <1>2 DEF Promise!Fail, Value

LEMMA AbstractReturn ==
    ASSUME IInv, HeldTypes', todo # <<>>, todo' = <<>>, call' = <<>>,
           before' = before, Returned
    PROVE  Promise!Return
  <1>1. /\ Value = before /\ Value' = [f \in Clients |-> Held(f)']
        /\ before \in [Clients -> Callables \cup {Nothing}]
        /\ call # <<>> /\ (Threw' <=> threw')
    BY Types DEF Value, Threw, IInv
  <1>2. ASSUME NEW f \in Clients, OneReturns(f)
        PROVE  \/ ~threw' /\ (Promise!Give \/ Promise!Drop)
               \/ threw' /\ Promise!Fail
    <2>0. \A h \in Clients \ {f} : Held(h)' = before[h]
      BY <1>2 DEF OneReturns, Kept
    <2>1. CASE call = <<"drop", f>> /\ ~threw' /\ Held(f)' = Nothing
      <3>1. call[1] = "drop" /\ call[2] = f
        BY <2>1
      <3>2. Value' = [Value EXCEPT ![call[2]] = Nothing]
        BY <1>1, <2>0, <2>1, <3>1
      <3>. QED
        BY <2>1, <3>1, <3>2 DEF Promise!Drop, Value
    <2>2. ASSUME NEW c \in Callables, call = <<"give", f, c>>, ~threw', Held(f)' = c
          PROVE  ~threw' /\ Promise!Give
      <3>1. call[1] = "give" /\ call[2] = f /\ call[3] = c
        BY <2>2
      <3>2. Value' = [Value EXCEPT ![call[2]] = call[3]]
        BY <1>1, <2>0, <2>2, <3>1
      <3>. QED
        BY <2>2, <3>1, <3>2 DEF Promise!Give, Value
    <2>3. ASSUME NEW c \in Callables, call = <<"give", f, c>>, threw', Held(f)' = Nothing
          PROVE  Promise!Fail
      <3>1. f \in Promise!Operands
        <4>1. 2 \in 2 .. Len(call) /\ call[2] = f
          BY <2>3
        <4>. QED
          BY <4>1 DEF Promise!Operands
      <3>2. {f} \subseteq Promise!Operands /\ {f} \in SUBSET Clients
        BY <3>1
      <3>3. Kept({f})' /\ \A h \in {f} : Held(h)' \in {before[g] : g \in {f}} \cup {Nothing}
        BY <1>2, <2>3 DEF OneReturns
      <3>. QED
        BY <3>2, <3>3, AbstractFail
    <2>. QED
      BY <1>2, <2>1, <2>2, <2>3 DEF OneReturns
  <1>3. ASSUME NEW f \in Clients, NEW g \in Clients, call = <<"move", f, g>> \/ call = <<"swap", f, g>>
        PROVE  {f, g} \subseteq Promise!Operands
    <2>1. 2 \in 2 .. Len(call) /\ 3 \in 2 .. Len(call) /\ call[2] = f /\ call[3] = g
      BY <1>3
    <2>. QED
      BY <2>1 DEF Promise!Operands
  <1>4. ASSUME NEW f \in Clients, NEW g \in Clients, MoveReturns(f, g)
        PROVE  \/ ~threw' /\ Promise!Move
               \/ threw' /\ Promise!Fail
    <2>1. f # g /\ call = <<"move", f, g>> /\ call[1] = "move" /\ call[2] = f /\ call[3] = g
      BY <1>4 DEF MoveReturns
    <2>2. CASE ~threw' /\ Held(f)' = before[g] /\ Held(g)' = Nothing /\ Kept({f, g})'
      <3>1. \A h \in Clients \ {f, g} : Held(h)' = before[h]
        BY <2>2 DEF Kept
      <3>2. Value' = [Value EXCEPT ![call[2]] = Value[call[3]], ![call[3]] = Nothing]
        BY <1>1, <2>1, <2>2, <3>1
      <3>. QED
        BY <2>1, <2>2, <3>2 DEF Promise!Move, Value
    <2>3. CASE threw' /\ Held(f)' = Nothing /\ Kept({f})'
      <3>1. {f} \subseteq Promise!Operands /\ {f} \in SUBSET Clients
        BY <1>3, <2>1
      <3>2. \A h \in {f} : Held(h)' \in {before[k] : k \in {f}} \cup {Nothing}
        BY <2>3
      <3>. QED
        BY <2>3, <3>1, <3>2, AbstractFail
    <2>. QED
      BY <1>4, <2>2, <2>3 DEF MoveReturns
  <1>5. ASSUME NEW f \in Clients, NEW g \in Clients, SwapReturns(f, g)
        PROVE  \/ ~threw' /\ Promise!Swap
               \/ threw' /\ Promise!Fail
    <2>1. /\ f # g /\ call = <<"swap", f, g>> /\ call[1] = "swap"
          /\ call[2] = f /\ call[3] = g /\ Kept({f, g})'
      BY <1>5 DEF SwapReturns
    <2>2. CASE ~threw' /\ Held(f)' = before[g] /\ Held(g)' = before[f]
      <3>1. \A h \in Clients \ {f, g} : Held(h)' = before[h]
        BY <2>1 DEF Kept
      <3>2. Value' = [Value EXCEPT ![call[2]] = Value[call[3]], ![call[3]] = Value[call[2]]]
        BY <1>1, <2>1, <2>2, <3>1
      <3>. QED
        BY <2>1, <2>2, <3>2 DEF Promise!Swap, Value
    <2>3. CASE threw' /\ {Held(f)', Held(g)'} \subseteq {before[f], before[g], Nothing}
      <3>1. {f, g} \subseteq Promise!Operands /\ {f, g} \in SUBSET Clients
        BY <1>3, <2>1
      <3>2. \A h \in {f, g} : Held(h)' \in {before[k] : k \in {f, g}} \cup {Nothing}
        BY <2>3
      <3>. QED
        BY <2>1, <2>3, <3>1, <3>2, AbstractFail
    <2>. QED
      BY <1>5, <2>2, <2>3 DEF SwapReturns
  <1>6. \/ ~threw' /\ (Promise!Give \/ Promise!Drop \/ Promise!Move \/ Promise!Swap)
        \/ threw' /\ Promise!Fail
    BY <1>2, <1>4, <1>5 DEF Returned
  <1>7. CASE ~threw' /\ (Promise!Give \/ Promise!Drop \/ Promise!Move \/ Promise!Swap)
    <2>1. Threw' = FALSE
      BY <1>7 DEF Threw
    <2>. QED
      BY <1>1, <1>7, <2>1 DEF Promise!Return, Threw
  <1>8. CASE threw' /\ Promise!Fail
    <2>1. Threw' = TRUE
      BY <1>1, <1>8 DEF Threw
    <2>. QED
      BY <1>1, <1>8, <2>1 DEF Promise!Return, Threw
  <1>. QED
    BY <1>6, <1>7, <1>8

LEMMA AbstractStep ==
    ASSUME IInv, HeldTypes', [Next]_vars
    PROVE  Promise!Next \/ UNCHANGED <<Value, call, Threw>>
  <1>1. CASE Begins
    BY <1>1, AbstractCall DEF Promise!Next
  <1>2. CASE CallsOnly
    <2>1. UNCHANGED <<alive, table, pointer, box, broken, todo, call, threw, before>>
      BY <1>2 DEF CallsOnly
    <2>2. \A f : Held(f)' = Held(f)
      BY <2>1 DEF Held, Valid, IsEmpty, Retrieve
    <2>3. Value' = Value
      BY <2>1, <2>2 DEF Value
    <2>4. Threw' = Threw
      BY <2>1 DEF Threw
    <2>. QED
      BY <2>1, <2>3, <2>4
  <1>3. CASE todo # <<>> /\ Advances /\ todo' = <<>>
    BY <1>3, AbstractReturn DEF Advances, Promise!Next
  <1>4. CASE todo # <<>> /\ Advances /\ todo' # <<>> /\ call' = call
    <2>1. Value' = Value
      BY <1>4 DEF Advances, Value
    <2>2. Threw' = Threw
      BY <1>4 DEF Threw
    <2>. QED
      BY <1>4, <2>1, <2>2
  <1>5. CASE UNCHANGED vars
    <2>1. UNCHANGED <<alive, table, pointer, box, broken, todo, call, threw, before>>
      BY <1>5 DEF vars, stores
    <2>2. \A f : Held(f)' = Held(f)
      BY <2>1 DEF Held, Valid, IsEmpty, Retrieve
    <2>3. Value' = Value
      BY <2>1, <2>2 DEF Value
    <2>4. Threw' = Threw
      BY <2>1 DEF Threw
    <2>. QED
      BY <2>1, <2>3, <2>4
  <1>. QED
    BY <1>1, <1>2, <1>3, <1>4, <1>5, Steps

(* A unique_function behaves like the value it holds (FunctionValues): an   *)
(* operation of fu2::unique_function takes effect as a whole, or throws and *)
(* then touches no function but its operands.                              *)
THEOREM Refinement == Spec => ImplementsFunctionValues
  <1>1. Init => Promise!Init
    BY AbstractInit
  <1>2. IInv /\ HeldTypes' /\ [Next]_vars => Promise!Next \/ UNCHANGED <<Value, call, Threw>>
    BY AbstractStep
  <1>3. IInv => HeldTypes
    BY HeldHasType
  <1>4. Promise!Next \/ UNCHANGED <<Value, call, Threw>>
          => [Promise!Next]_<<Value, call, Threw>>
    OBVIOUS
  <1>. QED
    BY <1>1, <1>2, <1>3, <1>4, Invariance, PTL
    DEF Spec, ImplementsFunctionValues, Promise!Spec, Value, Threw

=============================================================================
