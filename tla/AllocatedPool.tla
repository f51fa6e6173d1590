---------------------------- MODULE AllocatedPool ----------------------------
(***************************************************************************)
(* asiofi::allocated_pool_resource (include/asiofi/memory_resources.hpp):   *)
(* a std::pmr::synchronized_pool_resource that touches the memory it hands  *)
(* out for the first time, so that the system backs it with pages.  The     *)
(* pool locks; the set m_allocated beside it does not, and it never forgets *)
(* an address.                                                             *)
(*                                                                         *)
(* The pool is external: it keeps small blocks for the next caller, returns *)
(* large ones to the system when they are deallocated and all of them on    *)
(* release(), and the system may hand the same address out again, without   *)
(* pages behind it.                                                        *)
(***************************************************************************)
EXTENDS Naturals, FiniteSets

CONSTANTS
    Threads,
    Blocks,     \* addresses
    Large,      \* blocks above the pool's largest_required_pool_block
    MaxCalls,   \* bound on the calls of do_allocate
    None

ASSUME PoolAssumption ==
    /\ IsFiniteSet(Threads)
    /\ Large \subseteq Blocks
    /\ MaxCalls \in Nat
    /\ None \notin Blocks

VARIABLES
    pooled,      \* blocks the pool keeps
    held,        \* blocks the callers were given, by thread
    backed,      \* blocks obtained from the system that have pages
    allocated,   \* m_allocated
    hit, total,  \* m_hit, m_total
    pc,          \* where a thread is in do_allocate
    ptr,         \* its local variable
    seen,        \* the set as its insert found it
    calls,       \* calls of do_allocate so far
    stale,       \* history: recorded blocks that went back to the system
    raced        \* history: two inserts ever overlapped

poolVars == <<pooled, held, backed>>
counters == <<hit, total>>
history == <<calls, stale, raced>>
vars == <<poolVars, allocated, counters, pc, ptr, seen, history>>

Stages == {"idle", "insert", "inserting", "memset", "hit", "total"}

TypeOK ==
    /\ pooled \subseteq Blocks
    /\ held \in [Threads -> SUBSET Blocks]
    /\ backed \subseteq Blocks
    /\ allocated \subseteq Blocks
    /\ hit \in 0 .. total + Cardinality(Threads)
    /\ total \in 0 .. calls
    /\ pc \in [Threads -> Stages]
    /\ ptr \in [Threads -> Blocks \cup {None}]
    /\ \A t \in Threads : pc[t] # "idle" <=> ptr[t] \in Blocks
    /\ seen \in [Threads -> SUBSET Blocks]
    /\ calls \in 0 .. MaxCalls
    /\ stale \subseteq Blocks
    /\ raced \in BOOLEAN

Init ==
    /\ pooled = {}
    /\ held = [t \in Threads |-> {}]
    /\ backed = {}
    /\ allocated = {}
    /\ hit = 0
    /\ total = 0
    /\ pc = [t \in Threads |-> "idle"]
    /\ ptr = [t \in Threads |-> None]
    /\ seen = [t \in Threads |-> {}]
    /\ calls = 0
    /\ stale = {}
    /\ raced = FALSE

InUse == {b \in Blocks : \E t \in Threads : b \in held[t] \/ b = ptr[t]}
OfSystem == Blocks \ (pooled \cup InUse)

Goto(t, stage) == pc' = [pc EXCEPT ![t] = stage]

-----------------------------------------------------------------------------
(* do_allocate *)

(* The pool gives a block it kept or one of the system. *)
Allocate(t) ==
    /\ pc[t] = "idle"
    /\ calls < MaxCalls
    /\ \E b \in pooled \cup OfSystem :
          /\ ptr' = [ptr EXCEPT ![t] = b]
          /\ pooled' = pooled \ {b}
          /\ backed' = IF b \in pooled THEN backed ELSE backed \ {b}
    /\ calls' = calls + 1
    /\ Goto(t, "insert")
    /\ UNCHANGED <<held, allocated, counters, seen, stale, raced>>

InsertBegins(t) ==
    /\ pc[t] = "insert"
    /\ seen' = [seen EXCEPT ![t] = allocated]
    /\ raced' = (raced \/ \E u \in Threads : pc[u] = "inserting")
    /\ Goto(t, "inserting")
    /\ UNCHANGED <<poolVars, allocated, counters, ptr, calls, stale>>

Mut_InsertTestInverted(t) ==
    /\ pc[t] = "inserting"
    /\ \E lost \in {{}, allocated \ seen[t]} :
          allocated' = (allocated \ lost) \cup {ptr[t]}
    /\ seen' = [seen EXCEPT ![t] = {}]
    /\ Goto(t, IF ptr[t] \in seen[t] THEN "memset" ELSE "hit")
    /\ UNCHANGED <<poolVars, counters, ptr, history>>

(* An insert may undo those that completed since it began.                 *)
InsertEnds(t) ==
    /\ pc[t] = "inserting"
    /\ \E lost \in {{}, allocated \ seen[t]} :
          allocated' = (allocated \ lost) \cup {ptr[t]}
    /\ seen' = [seen EXCEPT ![t] = {}]
    /\ Goto(t, IF ptr[t] \in seen[t] THEN "hit" ELSE "memset")
    /\ UNCHANGED <<poolVars, counters, ptr, history>>

Mut_MemsetCountsHit(t) ==
    /\ pc[t] = "memset"
    /\ backed' = backed \cup {ptr[t]}
    /\ stale' = stale \ {ptr[t]}
    /\ Goto(t, "hit")
    /\ UNCHANGED <<pooled, held, allocated, counters, ptr, seen, calls, raced>>

Memset(t) ==
    /\ pc[t] = "memset"
    /\ backed' = backed \cup {ptr[t]}
    /\ stale' = stale \ {ptr[t]}
    /\ Goto(t, "total")
    /\ UNCHANGED <<pooled, held, allocated, counters, ptr, seen, calls, raced>>

Mut_HitCountsTotal(t) ==
    /\ pc[t] = "hit"
    /\ hit' = hit + 1
    /\ total' = total + 1
    /\ Goto(t, "total")
    /\ UNCHANGED <<poolVars, allocated, ptr, seen, history>>

Hit(t) ==
    /\ pc[t] = "hit"
    /\ hit' = hit + 1
    /\ Goto(t, "total")
    /\ UNCHANGED <<poolVars, allocated, total, ptr, seen, history>>

Total(t) ==
    /\ pc[t] = "total"
    /\ total' = total + 1
    /\ held' = [held EXCEPT ![t] = @ \cup {ptr[t]}]
    /\ ptr' = [ptr EXCEPT ![t] = None]
    /\ Goto(t, "idle")
    /\ UNCHANGED <<pooled, backed, allocated, hit, seen, history>>

-----------------------------------------------------------------------------
(* What leaves the pool for the system loses its pages, not its record.    *)
Leave(bs) ==
    /\ backed' = backed \ bs
    /\ stale' = stale \cup (bs \cap allocated)

(* do_deallocate, by the holder. *)
Deallocate(t, b) ==
    /\ b \in held[t]
    /\ held' = [held EXCEPT ![t] = @ \ {b}]
    /\ IF b \in Large
       THEN UNCHANGED pooled /\ Leave({b})
       ELSE pooled' = pooled \cup {b} /\ UNCHANGED <<backed, stale>>
    /\ UNCHANGED <<allocated, counters, pc, ptr, seen, calls, raced>>

(* synchronized_pool_resource::release(), which the callers may call once   *)
(* nobody uses a block any more.                                           *)
Release ==
    /\ InUse = {}
    /\ pooled # {}
    /\ pooled' = {}
    /\ Leave(pooled)
    /\ UNCHANGED <<held, allocated, counters, pc, ptr, seen, calls, raced>>

-----------------------------------------------------------------------------
Next ==
    \/ \E t \in Threads :
        \/ Allocate(t) \/ InsertBegins(t) \/ InsertEnds(t)
        \/ Memset(t) \/ Hit(t) \/ Total(t)
        \/ \E b \in Blocks : Deallocate(t, b)
    \/ Release

Spec == Init /\ [][Next]_vars

-----------------------------------------------------------------------------
(* do_allocate hands out memory with pages behind it, as its class promises *)
(* ("physically allocates new buffers"), even when inserts race: an insert  *)
(* that is undone costs one more memset.  The exception is a block that went *)
(* back to the system after it was recorded.  (The blocks have no sizes: a  *)
(* request longer than the one whose memset touched the block is another.) *)
BackedUnlessStale ==
    \A t \in Threads : held[t] \subseteq backed \cup stale

(* Whenever no call is in progress, the allocations that were not counted   *)
(* as reused are as many as the addresses recorded, so that the rate the    *)
(* destructor prints is right; racing inserts can only make it too low.     *)
CountersAgree ==
    (\A t \in Threads : pc[t] = "idle") =>
        /\ total = calls
        /\ Cardinality(allocated) + hit <= total
        /\ ~raced => Cardinality(allocated) + hit = total
=============================================================================
