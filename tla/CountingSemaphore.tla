-------------------------- MODULE CountingSemaphore --------------------------
(***************************************************************************)
(* What the semaphores of asiofi/semaphore.hpp promise: a counter of       *)
(* permits that never goes below zero, one permit for every wait that      *)
(* succeeds, one for every signal, and no wait forgotten or served twice.  *)
(* How waits block, who is woken and what runs where is left to the        *)
(* implementations.                                                        *)
(***************************************************************************)
EXTENDS Naturals

CONSTANTS
    SyncClients,   \* whoever waits by blocking
    AsyncClients,  \* whoever waits by leaving a completion handler
    InitialCount

Clients == SyncClients \cup AsyncClients

VARIABLES
    permits,   \* permits nobody holds
    pending,   \* clients that asked for a permit and have no answer yet
    granted    \* completion handlers that were given one and have not finished

vars == <<permits, pending, granted>>

TypeOK ==
    /\ permits \in Nat
    /\ pending \subseteq Clients
    /\ granted \subseteq AsyncClients

Init ==
    /\ permits = InitialCount
    /\ pending = {}
    /\ granted = {}

Ask(c) ==
    /\ c \notin pending \cup granted
    /\ pending' = pending \cup {c}
    /\ UNCHANGED <<permits, granted>>

(* A client takes a free permit, having waited for it or not. *)
Take(c) ==
    /\ c \notin granted
    /\ permits > 0
    /\ permits' = permits - 1
    /\ pending' = pending \ {c}
    /\ granted' = granted \cup ({c} \cap AsyncClients)

(* A signal that leaves a free permit. *)
Release ==
    /\ permits' = permits + 1
    /\ UNCHANGED <<pending, granted>>

(* A signal that answers a pending handler; only when no permit is free. *)
Handoff(c) ==
    /\ c \in pending \cap AsyncClients
    /\ permits = 0
    /\ pending' = pending \ {c}
    /\ granted' = granted \cup {c}
    /\ UNCHANGED permits

(* An asynchronous wait is refused while another one is pending. *)
Refuse(c) ==
    /\ c \in pending \cap AsyncClients
    /\ permits = 0
    /\ \E d \in pending \cap AsyncClients : d # c
    /\ pending' = pending \ {c}
    /\ UNCHANGED <<permits, granted>>

(* Completion handlers finish, or an exception ends them. *)
Finish(done) ==
    /\ done # {}
    /\ granted' = granted \ done
    /\ UNCHANGED <<permits, pending>>

Next ==
    \/ \E c \in Clients : Ask(c) \/ Take(c) \/ Handoff(c) \/ Refuse(c)
    \/ Release
    \/ \E done \in SUBSET granted : Finish(done)

Spec == Init /\ [][Next]_vars
=============================================================================
