------------------------------ MODULE Lifetimes ------------------------------
(***************************************************************************)
(* Construction and destruction of the library's objects, in a program that *)
(* declares them like test/benchmarks/msg_bw.cpp: variables, and            *)
(* unique_ptrs that are filled before or while the io_context runs, all of   *)
(* one scope that ends when run() returns or something throws.             *)
(*                                                                         *)
(* A resource is what a step of a constructor acquires: a libfabric object, *)
(* an fi_info, memory.  Construction pushes the steps of an object one after *)
(* the other, each of which may throw; destruction, and the unwinding of a  *)
(* constructor that threw, take them back in reverse.  fi_close refuses     *)
(* (-FI_EBUSY) an object that another open one uses, which no destructor   *)
(* looks at.                                                               *)
(*                                                                         *)
(* The descriptor of a queue comes with the queue and goes with it.  The    *)
(* stream_descriptor of the wrapper only borrows its number, but closes it  *)
(* when it is destroyed: that fi_close then closes it again is recorded.    *)
(***************************************************************************)
EXTENDS Naturals, Sequences, FiniteSets

CONSTANTS
    MessageSizes,   \* of the first buffer
    ControlSize,    \* of the second
    Alignment,      \* alignof(std::max_align_t)
    Nobody

(* Variables of the scope, in the order of their declaration; the copy of   *)
(* the region, the address vector and the wait set are ones the benchmark   *)
(* does not declare, added to have every class of the library in the scope. *)
Scope == <<"hints", "info", "fabric", "domain", "pep", "endpoint",
           "ctrl_endpoint", "region", "pmr", "av", "waitset">>

(* unique_ptrs are filled in any order, when what they refer to is there.   *)
Pointers == {"pep", "endpoint", "ctrl_endpoint", "region"}
Endpoints == {"endpoint", "ctrl_endpoint"}
Slots == {Scope[i] : i \in 1 .. Len(Scope)}

ASSUME SizesAssumption ==
    /\ MessageSizes \subseteq Nat
    /\ ControlSize \in Nat \ {0}
    /\ Alignment \in Nat \ {0}
    /\ Nobody \notin Slots

Position == [s \in Slots |-> CHOOSE i \in 1 .. Len(Scope) : Scope[i] = s]

VARIABLES
    steps,       \* steps of its constructor that stand, by slot
    building,    \* the slot whose constructor runs
    open,        \* resources acquired and not given back
    uses,        \* pairs of open resources, the second used by the first
    refused,     \* history: fi_close calls that were refused
    descriptor,  \* of a queue: who owns it, and how often it was closed
    reader,      \* where the reader of a completion queue is
    phase,       \* of the program
    size,        \* message_size
    next,        \* first free byte of the registered region
    placed,      \* where a buffer is, by the endpoint that uses it
    posted       \* endpoints with an operation outstanding

scopeVars == <<steps, building, open, uses, refused, descriptor, reader, phase,
               size, next, placed, posted>>

Resource(s, kind) == <<s, kind>>

-----------------------------------------------------------------------------
(* The constructors.                                                       *)

hints_ctor == <<"hints">>                    \* fi_allocinfo
info_ctor == <<"base", "query">>             \* hints(), fi_getinfo
fabric_ctor == <<"fabric">>                  \* fi_fabric
domain_ctor == <<"domain">>                  \* fi_domain
address_vector_ctor == <<"av">>              \* fi_av_open
waitset_ctor == <<"wait">>                   \* fi_wait_open
event_queue_ctor == <<"eq", "eq_fd">>        \* fi_eq_open, stream_descriptor
rx_cq_ctor == <<"rx_cq", "rx_cq_fd">>        \* fi_cq_open, ..., post_reader
tx_cq_ctor == <<"tx_cq", "tx_cq_fd">>

passive_endpoint_ctor == event_queue_ctor \o <<"pep", "bind_eq">>

Mut_EndpointFirst ==
    <<"ep">> \o event_queue_ctor \o rx_cq_ctor \o tx_cq_ctor
        \o <<"bind_eq", "bind_rx_cq", "bind_tx_cq">>

connected_endpoint_ctor ==
    event_queue_ctor \o rx_cq_ctor \o tx_cq_ctor
        \o <<"ep", "bind_eq", "bind_rx_cq", "bind_tx_cq">>

(* allocate, mlock, fi_mr_reg; "buffer" is the monotonic_buffer_resource.   *)
registered_memory_resource_ctor == <<"memory", "lock", "mr", "buffer">>

Ctor == [s \in Slots |->
    CASE s = "hints"       -> hints_ctor
      [] s = "info"        -> info_ctor
      [] s = "fabric"      -> fabric_ctor
      [] s = "domain"      -> domain_ctor
      [] s = "pep"         -> passive_endpoint_ctor
      [] s \in Endpoints   -> connected_endpoint_ctor
      [] s = "region"      -> <<"copy">>     \* memory_region(const memory_region&)
      [] s = "pmr"         -> registered_memory_resource_ctor
      [] s = "av"          -> address_vector_ctor
      [] s = "waitset"     -> waitset_ctor]

Built(s) == building # s /\ steps[s] = Len(Ctor[s])
Top(s) == Ctor[s][steps[s]]

(* The objects a wrapper refers to, and its libfabric object uses.  A       *)
(* fabric keeps a reference to the info, through which all others read it.  *)
Fabric == Resource("fabric", "fabric")
Domain == Resource("domain", "domain")

Used(s, kind) ==
    CASE kind = "fabric" -> {Resource("info", "query")}
      [] kind \in {"eq", "wait", "domain", "pep"} -> {Fabric}
      [] kind \in {"rx_cq", "tx_cq", "ep", "av", "mr"} -> {Domain}
      [] OTHER -> {}

(* The queues for whose descriptor a step constructs a stream_descriptor. *)
Described(s, kind) ==
    CASE kind = "eq_fd"    -> {Resource(s, "eq")}
      [] kind = "rx_cq_fd" -> {Resource(s, "rx_cq")}
      [] kind = "tx_cq_fd" -> {Resource(s, "tx_cq")}
      [] OTHER             -> {}

(* fi_pep_bind and fi_ep_bind acquire nothing; nor do copying a shared_ptr, *)
(* wrapping a block and FI_GETWAIT, which returns the queue's descriptor.   *)
BoundTo(kind) ==
    CASE kind = "bind_eq"    -> {"eq"}
      [] kind = "bind_rx_cq" -> {"rx_cq"}
      [] kind = "bind_tx_cq" -> {"tx_cq"}
      [] OTHER               -> {}

Acquired(s, kind) ==
    IF kind \in {"copy", "buffer"} \/ BoundTo(kind) # {} \/ Described(s, kind) # {}
    THEN {} ELSE {Resource(s, kind)}

AcquiredBy ==
    [s \in Slots |-> [n \in 0 .. Len(Ctor[s]) |->
        UNION {Acquired(s, Ctor[s][i]) : i \in 1 .. n}]]

UsePairs(s, kind) ==
    (Acquired(s, kind) \X Used(s, kind))
        \cup {<<Resource(s, IF s = "pep" THEN "pep" ELSE "ep"), Resource(s, q)>> :
                q \in BoundTo(kind)}

Memory == Resource("pmr", "memory")
Overflow == Resource("pmr", "overflow")
Mr == Resource("pmr", "mr")
Queues == {Resource(s, kind) : s \in Endpoints, kind \in {"rx_cq", "tx_cq"}}
EventQueues == {Resource(s, "eq") : s \in Endpoints \cup {"pep"}}
Polled == Queues \cup EventQueues

ScopeTypeOK ==
    LET resources == {Overflow} \cup (UNION {AcquiredBy[s][Len(Ctor[s])] : s \in Slots})
    IN  /\ steps \in [Slots -> Nat]
        /\ \A s \in Slots : steps[s] <= Len(Ctor[s])
        /\ building \in Slots \cup {Nobody}
        /\ open \subseteq resources
        /\ uses \subseteq open \X (open \cup refused)
        /\ refused \subseteq resources
        /\ descriptor \in
                [Polled -> {"none", "queue", "both", "stale", "closed", "twice"}]
        /\ reader \in [Queues -> {"none", "waiting", "posted"}]
        /\ phase \in {"setup", "running", "ending", "over"}
        /\ size \in MessageSizes
        /\ next \in 0 .. size + ControlSize
        /\ placed \in [Endpoints -> {"none", "region", "upstream"}]
        /\ posted \subseteq Endpoints

ScopeInit ==
    /\ steps = [s \in Slots |-> 0]
    /\ building = Nobody
    /\ open = {}
    /\ uses = {}
    /\ refused = {}
    /\ descriptor = [q \in Polled |-> "none"]
    /\ reader = [q \in Queues |-> "none"]
    /\ phase = "setup"
    /\ size \in MessageSizes
    /\ next = 0
    /\ placed = [s \in Endpoints |-> "none"]
    /\ posted = {}

buffers == <<size, next, placed, posted>>

-----------------------------------------------------------------------------
(* Variables are constructed in order, before run(); pointers when their    *)
(* arguments exist, before run() or by a handler.                          *)
Construct(s) ==
    /\ building = Nobody
    /\ steps[s] = 0
    /\ \/ /\ s \notin Pointers
          /\ phase = "setup"
          /\ \A r \in Slots \ Pointers : Position[r] < Position[s] => Built(r)
       \/ /\ s \in Pointers
          /\ phase \in {"setup", "running"}
          /\ Built(IF s = "region" THEN "pmr" ELSE "domain")
    /\ building' = s
    /\ UNCHANGED <<steps, open, uses, refused, descriptor, reader, phase, buffers>>

(* post_reader(), the end of the constructor of a completion queue, waits   *)
(* on the descriptor or posts the reader.                                  *)
StartReader(s, kind) ==
    \E how \in {"waiting", "posted"} :
        reader' = [q \in Queues |-> IF q \in Described(s, kind)
                                      THEN how ELSE reader[q]]

(* The stream_descriptor becomes a second owner of the descriptor that came *)
(* with the queue.                                                         *)
OwnDescriptor(s, kind) ==
    descriptor' = [q \in Polled |-> CASE q \in Acquired(s, kind)  -> "queue"
                                      [] q \in Described(s, kind) -> "both"
                                      [] OTHER                    -> descriptor[q]]

ConstructStep ==
    LET s == building
        kind == Ctor[s][steps[s] + 1]
    IN  /\ building # Nobody
        /\ phase # "ending"
        /\ steps' = [steps EXCEPT ![s] = @ + 1]
        /\ building' = IF steps'[s] = Len(Ctor[s]) THEN Nobody ELSE s
        /\ open' = open \cup Acquired(s, kind)
        /\ uses' = uses \cup UsePairs(s, kind)
        /\ OwnDescriptor(s, kind)
        /\ StartReader(s, kind)
        /\ UNCHANGED <<refused, phase, buffers>>

(* The call of the next step fails and the constructor throws; copying a    *)
(* shared_ptr, wrapping a block, fi_allocinfo and mlock, whose results     *)
(* nobody looks at, do not.                                                *)
ConstructThrows ==
    /\ building # Nobody
    /\ phase # "ending"
    /\ Ctor[building][steps[building] + 1] \notin {"hints", "base", "lock", "buffer", "copy"}
    /\ phase' = "ending"
    /\ UNCHANGED <<steps, building, open, uses, refused, descriptor, reader, buffers>>

-----------------------------------------------------------------------------
(* The program between construction and destruction.                       *)

RoundUp(n) == ((n + Alignment - 1) \div Alignment) * Alignment

(* Two allocations never return the same address: no bytes count as one.    *)
EndOf(bytes) == RoundUp(next) + (IF bytes = 0 THEN 1 ELSE bytes)

Mut_PlaceUnchecked(s, bytes) ==
    /\ Built("pmr")
    /\ phase = "setup"
    /\ building = Nobody
    /\ placed[s] = "none"
    /\ placed' = [placed EXCEPT ![s] = "region"]
    /\ next' = EndOf(bytes)
    /\ UNCHANGED <<steps, building, open, uses, refused, descriptor, reader, phase, size, posted>>

(* registered_memory_resource::do_allocate, by the monotonic resource over  *)
(* the region of message_size + ControlSize bytes: what does not fit comes  *)
(* from the upstream resource.                                             *)
Place(s, bytes) ==
    /\ Built("pmr")
    /\ phase = "setup"
    /\ building = Nobody
    /\ placed[s] = "none"
    /\ IF EndOf(bytes) <= size + ControlSize
       THEN /\ placed' = [placed EXCEPT ![s] = "region"]
            /\ next' = EndOf(bytes)
            /\ UNCHANGED open
       ELSE /\ placed' = [placed EXCEPT ![s] = "upstream"]
            /\ open' = open \cup {Overflow}
            /\ UNCHANGED next
    /\ UNCHANGED <<steps, building, uses, refused, descriptor, reader, phase, size, posted>>

PlaceBuffers ==
    \/ Place("endpoint", size)
    \/ placed["endpoint"] # "none" /\ Place("ctrl_endpoint", ControlSize)

Run ==
    /\ phase = "setup"
    /\ building = Nobody
    /\ \A s \in Slots \ Pointers : Built(s)
    /\ placed["ctrl_endpoint"] # "none"
    /\ phase' = "running"
    /\ UNCHANGED <<steps, building, open, uses, refused, descriptor, reader, buffers>>

Running == phase = "running" /\ building = Nobody

(* send or recv with the endpoint's buffer, and its completion. *)
Post(s) ==
    /\ Running
    /\ Built(s)
    /\ posted' = posted \cup {s}
    /\ UNCHANGED <<steps, building, open, uses, refused, descriptor, reader, phase,
                   size, next, placed>>

Complete(s) ==
    /\ Running
    /\ s \in posted
    /\ posted' = posted \ {s}
    /\ UNCHANGED <<steps, building, open, uses, refused, descriptor, reader, phase,
                   size, next, placed>>

(* The descriptor of a queue becomes readable; the reader runs and posts    *)
(* itself again or waits.                                                  *)
DescriptorReady(q) ==
    /\ Running
    /\ reader[q] = "waiting"
    /\ reader' = [reader EXCEPT ![q] = "posted"]
    /\ UNCHANGED <<steps, building, open, uses, refused, descriptor, phase, buffers>>

ReaderRuns(q) ==
    /\ Running
    /\ reader[q] = "posted"
    /\ reader' = [reader EXCEPT ![q] = "waiting"]
    /\ UNCHANGED <<steps, building, open, uses, refused, descriptor, phase, buffers>>

(* stop(), no work left, or an exception of a handler. *)
RunEnds ==
    /\ Running
    /\ phase' = "ending"
    /\ UNCHANGED <<steps, building, open, uses, refused, descriptor, reader, buffers>>

-----------------------------------------------------------------------------
(* Destruction: of the constructor that threw, then of the scope in reverse *)
(* order of its declarations.                                              *)

Last ==
    LET standing == {s \in Slots : steps[s] > 0}
    IN  {s \in standing : \A r \in standing : Position[r] <= Position[s]}
Dying == IF building # Nobody /\ steps[building] > 0 THEN {building} ELSE Last

(* The shared_ptr of the region has an owner beside slot s. *)
Shared(s) == IF s = "pmr" THEN Built("region") ELSE steps["pmr"] >= 3

Mut_CopyCloses(s) ==
    CASE s = "info" /\ Top(s) = "base" -> {{}, {Resource(s, "base")}}
      [] Top(s) \in {"memory", "lock"} -> {{}}
      [] Top(s) = "buffer" -> {{Resource(s, "lock"), Overflow} \cap open}
      [] Top(s) \in {"mr", "copy"} -> {{Mr} \cap open}
      [] OTHER -> {Acquired(s, Top(s))}

Mut_MemoryFreed(s) ==
    CASE s = "info" /\ Top(s) = "base" -> {{}, {Resource(s, "base")}}
      [] Top(s) = "lock" -> {{}}
      [] Top(s) = "buffer" -> {{Resource(s, "lock"), Overflow} \cap open}
      [] Top(s) \in {"mr", "copy"} -> {IF Shared(s) THEN {} ELSE {Mr}}
      [] OTHER -> {Acquired(s, Top(s))}

(* What undoing the top step of s gives back.  The hints of an info were    *)
(* overwritten by its query, or possibly by the query that failed; nothing  *)
(* gives back the memory of the region, and only the destructor of the      *)
(* resource, not the unwinding of its constructor, unlocks it.             *)
GivenBack(s) ==
    CASE s = "info" /\ Top(s) = "base" -> {{}, {Resource(s, "base")}}
      [] Top(s) \in {"memory", "lock"} -> {{}}
      [] Top(s) = "buffer" -> {{Resource(s, "lock"), Overflow} \cap open}
      [] Top(s) \in {"mr", "copy"} -> {IF Shared(s) THEN {} ELSE {Mr}}
      [] OTHER -> {Acquired(s, Top(s))}

(* A query that succeeded took the place of the base's hints. *)
StepsLeft(s) == IF s = "info" THEN 0 ELSE steps[s] - 1

(* fi_close refuses what is used; fi_freeinfo and the others do not.        *)
Close(rs) ==
    LET inUse == {r \in rs : \E u \in open : <<u, r>> \in uses}
        gone == rs \ {r \in inUse : r[1] # "info"}
    IN  /\ refused' = refused \cup inUse
        /\ open' = open \ gone
        /\ uses' = {p \in uses : p[1] \notin gone}

(* The descriptor is closed by the destructor of the stream_descriptor, and *)
(* when its queue is: m_eq_fd and m_cq_fd are declared after the queues.    *)
CloseDescriptors(s) ==
    descriptor' = [q \in Polled |->
        CASE q \in Described(s, Top(s)) -> "stale"
          [] q \in open \ open' -> IF descriptor[q] = "stale" THEN "twice" ELSE "closed"
          [] OTHER -> descriptor[q]]

Mut_WaitKept(s) == reader' = reader

(* The destructor of the stream_descriptor cancels the wait on it, whose    *)
(* handler nobody runs any more; a posted reader stays where it is.         *)
CancelWait(s) ==
    reader' = [q \in Queues |->
                 IF q \in Described(s, Top(s)) /\ reader[q] = "waiting"
                 THEN "none" ELSE reader[q]]

DestroyStep ==
    /\ phase = "ending"
    /\ \E s \in Dying :
        /\ \E rs \in GivenBack(s) : Close(rs)
        /\ CloseDescriptors(s)
        /\ CancelWait(s)
        /\ steps' = [steps EXCEPT ![s] = StepsLeft(s)]
        /\ posted' = IF Top(s) = "ep" THEN posted \ {s} ELSE posted
        /\ building' = IF s = building /\ StepsLeft(s) > 0 THEN s ELSE Nobody
    /\ UNCHANGED <<phase, size, next, placed>>

(* Last of all the io_context, with the handlers it still holds. *)
ScopeEnds ==
    /\ phase = "ending"
    /\ Last = {}
    /\ phase' = "over"
    /\ reader' = [q \in Queues |-> "none"]
    /\ building' = Nobody
    /\ UNCHANGED <<steps, open, uses, refused, descriptor, buffers>>

ScopeNext ==
    \/ \E s \in Slots : Construct(s)
    \/ ConstructStep \/ ConstructThrows
    \/ PlaceBuffers \/ Run \/ RunEnds
    \/ \E s \in Endpoints : Post(s) \/ Complete(s)
    \/ \E q \in Queues : DescriptorReady(q) \/ ReaderRuns(q)
    \/ DestroyStep \/ ScopeEnds

ScopeSpec == ScopeInit /\ [][ScopeNext]_scopeVars

-----------------------------------------------------------------------------
(* Properties. *)

(* What is open belongs to an object that stands, and the other way round,  *)
(* at every moment, whatever constructor threw, and a copy of the region    *)
(* keeps it open: nothing leaks, except the hints an info overwrites and    *)
(* the memory of the registered region, with its lock if the constructor    *)
(* threw; and nothing is given back twice, except the descriptor of a queue *)
(* by its stream_descriptor and then by fi_close.  No descriptor stays open *)
(* when its queue is closed.                                               *)
OpenIsOwned ==
    LET lost == {Resource("info", "base"), Memory, Resource("pmr", "lock")}
        owned == {Overflow} \cup (UNION {AcquiredBy[s][steps[s]] : s \in Slots})
                    \cup (IF Built("region") THEN {Mr} ELSE {})
    IN  /\ open \ lost \subseteq owned
        /\ owned \ {Overflow} \subseteq open \cup lost
        /\ phase = "over" => Overflow \notin open
        /\ \A q \in Polled : q \in open <=> descriptor[q] \in {"queue", "both", "stale"}

(* No destructor closes a libfabric object that another one still uses,     *)
(* which would leave it open for ever, or frees an info that is referred    *)
(* to: members and variables are declared in the right order.              *)
NothingClosedInUse == refused = {}

(* Nobody waits on a descriptor that was closed, or whose queue was, and a  *)
(* completion queue has a reader for as long as its stream_descriptor       *)
(* stands, also while a constructor is unwound.  (A posted reader may       *)
(* outlive its queue, which it refers to: only the end of run() keeps it    *)
(* from running then.)                                                     *)
ReaderWhileDescribed ==
    \A q \in Queues :
        /\ reader[q] = "waiting" => q \in open /\ descriptor[q] = "both"
        /\ descriptor[q] = "both" => reader[q] # "none"

(* While an operation is outstanding or the region registered, the region's *)
(* memory is there, although pmr is destroyed before the endpoints and a    *)
(* copy of the region may outlive it.  The buffers lie in that memory,      *)
(* except the second if the first is empty or no multiple of the alignment: *)
(* the operations on it are then given the key of a region it is not in,    *)
(* and it lives just as long as pmr, so an operation that ctrl_endpoint     *)
(* still has outstanding is left without it.                               *)
BuffersUsable ==
    /\ Mr \in open => Memory \in open
    /\ \A s \in posted :
          /\ placed[s] = "region" => Memory \in open
          /\ placed[s] = "upstream" => (Overflow \in open <=> Built("pmr"))
    /\ placed["endpoint"] # "upstream"
    /\ placed["ctrl_endpoint"] # "none" =>
            (placed["ctrl_endpoint"] = "region" <=> size # 0 /\ size % Alignment = 0)
=============================================================================
