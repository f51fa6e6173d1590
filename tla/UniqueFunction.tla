--------------------------- MODULE UniqueFunction ---------------------------
(***************************************************************************)
(* fu2::unique_function (include/asiofi/detail/function2.hpp), in which the *)
(* semaphores keep their stored handler.  A function is a word of storage   *)
(* and a vtable.  A callable is wrapped in a box, which lives in the        *)
(* storage itself when it fits, else in a heap block the storage points to; *)
(* only the vtable tells which.  Every operation is a short program of      *)
(* vtable commands; a command runs the callable's move constructor or the   *)
(* allocator, either of which may throw, and then the rest of the program   *)
(* is replaced by the unwinding.                                           *)
(*                                                                         *)
(* The client follows the language's rules only: it does not touch a        *)
(* function before its construction or after its destruction, does not      *)
(* move a function to itself, does not destroy or overwrite a callable that *)
(* is being called, and leaves alone a function an exception has broken.    *)
(***************************************************************************)
EXTENDS Naturals, Sequences, FiniteSets

CONSTANTS
    Functions,
    Cache,        \* the local variable of swap
    Blocks,       \* of the heap
    Callables,
    Large,        \* callables that do not fit into the storage
    Fragile,      \* callables with a move constructor that may throw
    Nothing       \* no callable, no block

ASSUME FunctionAssumption ==
    /\ Cache \in Functions
    /\ Large \subseteq Callables
    /\ Fragile \subseteq Callables
    /\ Functions \cap Blocks = {}
    /\ Nothing \notin Functions \cup Blocks \cup Callables

VARIABLES
    alive,        \* functions whose construction completed
    table,        \* which command and invocation table vtable_ refers to
    pointer,      \* data_accessor::ptr_
    box,          \* the callable at a place: a function's storage or a block
    heap,         \* allocated blocks
    todo,         \* vtable commands of the operation in progress
    running,      \* places of the callables being called
    broken,       \* history: functions an exception left without their box
                  \* and blocks it left without an owner
    call,         \* history: the operation in progress
    threw,        \* history: it, or the last one, threw
    before        \* history: what the functions held before it

stores == <<alive, table, pointer, box, heap, running, broken>>
vars == <<stores, todo, call, threw, before>>

Places == Functions \cup Blocks
Clients == Functions \ {Cache}
Commands ==
    [op : {"set_empty", "weak_destroy", "destroy", "end"}, to : Functions]
        \cup [op : {"init"}, to : Functions, callable : Callables]
        \cup [op : {"move"}, to : Functions, from : Functions]

TypeOK ==
    /\ alive \subseteq Functions
    /\ table \in [Functions -> {"empty", "inplace", "allocated"}]
    /\ pointer \in [Functions -> Blocks \cup {Nothing}]
    /\ box \in [Places -> Callables \cup {Nothing}]
    /\ heap \subseteq Blocks
    /\ todo \in Seq(Commands)
    /\ running \subseteq Places
    /\ broken \subseteq Places
    /\ threw \in BOOLEAN
    /\ before \in [Clients -> Callables \cup {Nothing}]
    /\ (call = <<>>) = (todo = <<>>)

Init ==
    /\ alive = {}
    /\ table = [f \in Functions |-> "empty"]
    /\ pointer = [f \in Functions |-> Nothing]
    /\ box = [p \in Places |-> Nothing]
    /\ heap = {}
    /\ todo = <<>>
    /\ running = {}
    /\ broken = {}
    /\ threw = FALSE
    /\ call = <<>>
    /\ before = [f \in Clients |-> Nothing]

-----------------------------------------------------------------------------
(* Where the vtable of f looks for its box. *)
Retrieve(f) ==
    CASE table[f] = "inplace"   -> f
      [] table[f] = "allocated" -> pointer[f]
      [] OTHER                  -> Nothing

IsEmpty(f) == table[f] = "empty"
Valid(f) == f \in alive \ broken
Held(f) == IF Valid(f) /\ ~IsEmpty(f) THEN box[Retrieve(f)] ELSE Nothing

-----------------------------------------------------------------------------
(* The commands of the vtable.                                             *)
Step(op) ==
    /\ todo # <<>>
    /\ Head(todo).op = op
    /\ UNCHANGED <<running, before>>

Target == Head(todo).to
Continue(program) ==
    /\ todo' = program
    /\ call' = IF program = <<>> THEN <<>> ELSE call
Done == Continue(Tail(todo)) /\ UNCHANGED <<broken, threw>>

SetEmpty ==
    /\ Step("set_empty")
    /\ table' = [table EXCEPT ![Target] = "empty"]
    /\ alive' = alive \cup {Target}
    /\ Done
    /\ UNCHANGED <<pointer, box, heap>>

(* op_destroy and op_weak_destroy; the empty table does nothing for either. *)
DestroyBox ==
    IF IsEmpty(Target)
        THEN UNCHANGED <<box, heap>>
        ELSE /\ box' = [box EXCEPT ![Retrieve(Target)] = Nothing]
             /\ heap' = heap \ {Retrieve(Target)}

WeakDestroy ==
    /\ Step("weak_destroy")
    /\ DestroyBox
    /\ Done
    /\ UNCHANGED <<alive, table, pointer>>

Destroy ==
    /\ Step("destroy")
    /\ DestroyBox
    /\ table' = [table EXCEPT ![Target] = "empty"]
    /\ Done
    /\ UNCHANGED <<alive, pointer>>

End ==
    /\ Step("end")
    /\ alive' = alive \ {Target}
    /\ Done
    /\ UNCHANGED <<table, pointer, box, heap>>

(* trait::construct up to the placement new: the storage if the box fits,   *)
(* else a new block.                                                       *)
Prepare(f, c) ==
    IF c \in Large
        THEN \E b \in Blocks \ heap :
                /\ heap' = heap \cup {b}
                /\ pointer' = [pointer EXCEPT ![f] = b]
                /\ table' = [table EXCEPT ![f] = "allocated"]
        ELSE /\ pointer' = [pointer EXCEPT ![f] = Nothing]
             /\ table' = [table EXCEPT ![f] = "inplace"]
             /\ UNCHANGED heap

(* Runs after Prepare: the place the new tables name. *)
Prepared(f) == IF table'[f] = "inplace" THEN f ELSE pointer'[f]

InitFunction ==
    LET f == Target
        c == Head(todo).callable
    IN  /\ Step("init")
        /\ Prepare(f, c)
        /\ box' = [box EXCEPT ![Prepared(f)] = c]
        /\ alive' = alive \cup {f}
        /\ Done

Mut_MoveAliasesStorage ==
    LET f == Target
        g == Head(todo).from
    IN  /\ Step("move")
        /\ pointer' = [pointer EXCEPT ![f] = IF table[g] = "inplace" THEN g ELSE pointer[g]]
        /\ table' = [table EXCEPT ![f] = table[g], ![g] = "empty"]
        /\ alive' = alive \cup {f}
        /\ Done
        /\ UNCHANGED <<box, heap>>

Mut_MoveKeepsSource ==
    LET f == Target
        g == Head(todo).from
    IN  /\ Step("move")
        /\ pointer' = [pointer EXCEPT ![f] = pointer[g]]
        /\ box' = IF table[g] = "inplace"
                     THEN [box EXCEPT ![f] = box[g], ![g] = Nothing] ELSE box
        /\ table' = [table EXCEPT ![f] = table[g]]
        /\ alive' = alive \cup {f}
        /\ Done
        /\ UNCHANGED heap

(* op_move and the set_empty() of the source after it.  The box of a block  *)
(* stays where it is; one in the storage is move constructed in the         *)
(* target's storage and then destroyed.                                    *)
MoveFunction ==
    LET f == Target
        g == Head(todo).from
    IN  /\ Step("move")
        /\ CASE table[g] = "allocated" ->
                    /\ pointer' = [pointer EXCEPT ![f] = pointer[g]]
                    /\ UNCHANGED box
             [] table[g] = "inplace" ->
                    /\ pointer' = [pointer EXCEPT ![f] = Nothing]
                    /\ box' = [box EXCEPT ![f] = box[g], ![g] = Nothing]
             [] OTHER -> UNCHANGED <<pointer, box>>
        /\ table' = [table EXCEPT ![f] = table[g], ![g] = "empty"]
        /\ alive' = alive \cup {f}
        /\ Done
        /\ UNCHANGED heap

-----------------------------------------------------------------------------
(* Exceptions.  A constructor that throws leaves no function; an assignment *)
(* that throws has destroyed the old box already, and whatever table its    *)
(* target has by then refers to no box.  Leaving swap destroys its cache.   *)
Unwind(f, bs) ==
    /\ threw' = TRUE
    /\ broken' = broken \cup bs
            \cup (IF f \in alive /\ table'[f] # "empty" THEN {f} ELSE {})
    /\ Continue(IF Cache \in alive
                   THEN <<[op |-> "weak_destroy", to |-> Cache],
                          [op |-> "end", to |-> Cache]>>
                   ELSE <<>>)

(* make_box() or box_allocate() throws, before the tables change. *)
InitThrowsEarly ==
    /\ Step("init")
    /\ Head(todo).callable \in Large \cup Fragile
    /\ UNCHANGED <<alive, table, pointer, box, heap>>
    /\ Unwind(Target, {})

(* The placement new throws: the tables and the block are there already. *)
InitThrowsLate ==
    LET f == Target
        c == Head(todo).callable
    IN  /\ Step("init")
        /\ c \in Fragile
        /\ Prepare(f, c)
        /\ Unwind(f, heap' \ heap)
        /\ UNCHANGED <<alive, box>>

(* The move constructor throws in the target's storage; the source keeps    *)
(* its box and its table.                                                  *)
MoveThrows ==
    LET f == Target
        g == Head(todo).from
    IN  /\ Step("move")
        /\ table[g] = "inplace"
        /\ box[g] \in Fragile
        /\ pointer' = [pointer EXCEPT ![f] = Nothing]
        /\ table' = [table EXCEPT ![f] = "inplace"]
        /\ Unwind(f, {})
        /\ UNCHANGED <<alive, box, heap>>

-----------------------------------------------------------------------------
(* The operations of function and erasure.                                 *)
Begin(operation, program) ==
    /\ todo = <<>>
    /\ todo' = program
    /\ call' = operation
    /\ threw' = FALSE
    /\ before' = [f \in Clients |-> Held(f)]
    /\ UNCHANGED stores

Give(f, c) == IF c = Nothing THEN <<"drop", f>> ELSE <<"give", f, c>>

(* Nothing is running in the box of f. *)
Quiet(f) == Retrieve(f) \notin running

(* A callable in a block may be running while its function is moved. *)
Movable(f) == f \notin running

(* function(), function(nullptr), and function(callable) with a callable    *)
(* that converts to false are all empty.                                   *)
Construct(f, c) ==
    /\ f \in Clients \ alive
    /\ Begin(Give(f, c),
             IF c = Nothing
               THEN <<[op |-> "set_empty", to |-> f]>>
               ELSE <<[op |-> "init", to |-> f, callable |-> c]>>)

MoveConstruct(f, g) ==
    /\ f \in Clients \ alive
    /\ Valid(g)
    /\ Movable(g)
    /\ Begin(<<"move", f, g>>, <<[op |-> "move", to |-> f, from |-> g]>>)

Assign(f, c) ==
    /\ Valid(f)
    /\ Quiet(f)
    /\ Begin(Give(f, c),
             IF c = Nothing
               THEN <<[op |-> "destroy", to |-> f]>>
               ELSE <<[op |-> "weak_destroy", to |-> f],
                      [op |-> "init", to |-> f, callable |-> c]>>)

MoveAssignment(f, g) ==
    <<[op |-> "weak_destroy", to |-> f], [op |-> "move", to |-> f, from |-> g]>>

MoveAssign(f, g) ==
    /\ Valid(f)
    /\ Valid(g)
    /\ f # g
    /\ Quiet(f)
    /\ Movable(g)
    /\ Begin(<<"move", f, g>>, MoveAssignment(f, g))

Destruct(f) ==
    /\ Valid(f)
    /\ Quiet(f)
    /\ Begin(<<"drop", f>>,
             <<[op |-> "weak_destroy", to |-> f], [op |-> "end", to |-> f]>>)

Mut_SwapWithoutCache(f, g) ==
    /\ Valid(f)
    /\ Valid(g)
    /\ f # g
    /\ Quiet(f)
    /\ Quiet(g)
    /\ Begin(<<"swap", f, g>>, MoveAssignment(g, f) \o MoveAssignment(f, g))

(* f.swap(g): three moves through a local function; nothing for f itself.   *)
(* The local function is destroyed with its callable if the last one throws. *)
Swap(f, g) ==
    /\ Valid(f)
    /\ Valid(g)
    /\ f # g
    /\ Quiet(f)
    /\ Quiet(g)
    /\ Begin(<<"swap", f, g>>,
             <<[op |-> "move", to |-> Cache, from |-> g]>>
                \o MoveAssignment(g, f) \o MoveAssignment(f, Cache)
                \o <<[op |-> "weak_destroy", to |-> Cache],
                     [op |-> "end", to |-> Cache]>>)

(* operator(): the invocation table finds the box as the command table      *)
(* does.  An empty function throws bad_function_call and nothing changes.   *)
Invoke(f) ==
    /\ todo = <<>>
    /\ Valid(f)
    /\ ~IsEmpty(f)
    /\ running' = running \cup {Retrieve(f)}
    /\ UNCHANGED <<alive, table, pointer, box, heap, todo, broken, call, threw, before>>

(* The callable returns or throws. *)
InvokeReturns(p) ==
    /\ todo = <<>>
    /\ p \in running
    /\ running' = running \ {p}
    /\ UNCHANGED <<alive, table, pointer, box, heap, todo, broken, call, threw, before>>

-----------------------------------------------------------------------------
Operation ==
    \/ \E f \in Clients, c \in Callables \cup {Nothing} :
        Construct(f, c) \/ Assign(f, c)
    \/ \E f, g \in Clients :
        MoveConstruct(f, g) \/ MoveAssign(f, g) \/ Swap(f, g)
    \/ \E f \in Clients : Destruct(f) \/ Invoke(f)
    \/ \E p \in Places : InvokeReturns(p)

Command ==
    \/ SetEmpty \/ WeakDestroy \/ Destroy \/ End
    \/ InitFunction \/ InitThrowsEarly \/ InitThrowsLate
    \/ MoveFunction \/ MoveThrows

Next == Operation \/ Command

Spec == Init /\ [][Next]_vars

-----------------------------------------------------------------------------
(* Every callable is owned once: between operations the boxes are those the *)
(* functions in order find, no two functions find the same one, every block *)
(* in use holds one of them or was left behind by an exception, and a       *)
(* callable that is running is still there, even if its function was moved  *)
(* meanwhile.  Nothing is destroyed twice, used after its destruction or    *)
(* forgotten (the semaphores' handlers are moved out and run).             *)
BoxesOwned ==
    LET owners == {f \in alive \ broken : ~IsEmpty(f)}
    IN  todo = <<>> =>
        /\ \A f, g \in owners : Retrieve(f) = Retrieve(g) => f = g
        /\ {p \in Places : box[p] # Nothing} = {Retrieve(f) : f \in owners}
        /\ heap \ broken = {Retrieve(f) : f \in owners} \cap Blocks
        /\ \A p \in running : box[p] # Nothing

(* Between its operations the functions hold what they held before, changed *)
(* by the whole operation or by its failure: swap exchanges, a move empties *)
(* its source, and no failure reaches a third function.                    *)
Promise == INSTANCE FunctionValues WITH
    Functions <- Clients,
    value <- IF todo = <<>> THEN [f \in Clients |-> Held(f)] ELSE before,
    threw <- todo = <<>> /\ threw
ImplementsFunctionValues == Promise!Spec
=============================================================================
