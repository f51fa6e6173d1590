--------------------------- MODULE FunctionValues ---------------------------
(***************************************************************************)
(* What fu2::unique_function promises (include/asiofi/detail/function2.hpp, *)
(* "An owning non copyable function wrapper for arbitrary callable types"): *)
(* a function holds one callable or nothing; a call of an operation takes   *)
(* effect as a whole, or throws, touches no function but its own operands   *)
(* then and leaves there nothing but callables the operands already held.   *)
(***************************************************************************)
EXTENDS Naturals, Sequences

CONSTANTS
    Functions,
    Callables,
    Nothing       \* what an empty function holds

VARIABLES
    value,
    call,         \* the operation in progress, <<>> if none is
    threw         \* the last operation threw

Init ==
    /\ value = [f \in Functions |-> Nothing]
    /\ call = <<>>
    /\ threw = FALSE

(* Construction or assignment from a callable; destruction, assignment of   *)
(* nullptr; construction or assignment from another function; swap.        *)
Calls ==
    ({"give"} \X Functions \X Callables) \cup ({"drop"} \X Functions)
        \cup {c \in {"move", "swap"} \X Functions \X Functions : c[2] # c[3]}

Call ==
    /\ call = <<>>
    /\ call' \in Calls
    /\ threw' = FALSE
    /\ UNCHANGED value

Give == call[1] = "give" /\ value' = [value EXCEPT ![call[2]] = call[3]]

Drop == call[1] = "drop" /\ value' = [value EXCEPT ![call[2]] = Nothing]

(* The target's own callable is destroyed, the source is empty afterwards. *)
Move ==
    /\ call[1] = "move"
    /\ value' = [value EXCEPT ![call[2]] = value[call[3]], ![call[3]] = Nothing]

Swap ==
    /\ call[1] = "swap"
    /\ value' = [value EXCEPT ![call[2]] = value[call[3]], ![call[3]] = value[call[2]]]

Operands == {call[i] : i \in 2 .. Len(call)} \cap Functions

(* No strong guarantee (HasStrongExceptGuarantee is false): operands may    *)
(* have lost their callables.                                              *)
Fail ==
    value' \in {v \in [Functions -> Callables \cup {Nothing}] :
        \A f \in Functions :
            v[f] \in IF f \in Operands
                       THEN {value[g] : g \in Operands} \cup {Nothing}
                       ELSE {value[f]}}

Return ==
    /\ call # <<>>
    /\ call' = <<>>
    /\ \/ threw' = FALSE /\ (Give \/ Drop \/ Move \/ Swap)
       \/ threw' = TRUE /\ Fail

Next == Call \/ Return

Spec == Init /\ [][Next]_<<value, call, threw>>
=============================================================================
