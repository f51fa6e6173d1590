------------------------ MODULE ConnectionSetupProofs ------------------------
(***************************************************************************)
(* Proofs of the safety invariants of ConnectionSetup, for any set of       *)
(* clients and any number of listens and of failures.                      *)
(***************************************************************************)
EXTENDS ConnectionSetup, FiniteSetTheorems, SequenceTheorems, TLAPS

States ==
    /\ EQ!EqTypeOK
    /\ listening \in BOOLEAN
    /\ cstate \in [Clients -> {"new", "connecting", "connected", "refused", "shutdown"}]
    /\ sstate \in [Clients -> {"none", "handed", "accepting", "connected", "rejected"}]
    /\ closing \in [Clients -> {"no", "sent", "told"}]
    /\ link \in [Clients -> {"none", "asked", "requested", "accepted", "refused",
                             "failed", "shutdown"}]
    /\ tell \in [Clients -> SUBSET Sides]
    /\ failures \in 0 .. MaxFailures
    /\ overlapped \in BOOLEAN

(* How far the two programs and the provider are with the connection of c. *)
Phase(c) ==
    \/ /\ link[c] = "none" /\ cstate[c] = "new" /\ sstate[c] = "none"
       /\ tell[c] = {}
    \/ /\ link[c] = "asked" /\ cstate[c] = "connecting" /\ sstate[c] = "none"
       /\ tell[c] = {}
    \/ /\ link[c] = "requested" /\ cstate[c] = "connecting"
       /\ sstate[c] \in {"none", "handed"} /\ tell[c] = {}
    \/ /\ link[c] = "accepted" /\ cstate[c] \in {"connecting", "connected"}
       /\ sstate[c] \in {"accepting", "connected"}
    \/ /\ link[c] = "refused" /\ cstate[c] \in {"connecting", "refused"}
       /\ sstate[c] \in {"none", "rejected"} /\ "server" \notin tell[c]
    \/ /\ link[c] = "failed" /\ cstate[c] = "connecting"
       /\ sstate[c] # "connected"
    \/ /\ link[c] = "shutdown" /\ cstate[c] = "shutdown"
       /\ sstate[c] \in {"accepting", "connected"} /\ "client" \notin tell[c]
    \/ /\ link[c] = "none" /\ cstate[c] = "shutdown"
       /\ sstate[c] \in {"accepting", "connected"} /\ tell[c] = {}

Answer(c) == Event(Outcome(c), c)
Bye(c) == Event("shutdown", c)

(* The client is told the outcome once, while it waits for it, and about     *)
(* the shutdown of the server after that.                                  *)
ClientTold(c) ==
    /\ events[ClientEp(c)] \in
          IF closing[c] = "told"
          THEN {<<>>, <<Answer(c)>>, <<Bye(c)>>, <<Answer(c), Bye(c)>>}
          ELSE {<<>>, <<Answer(c)>>}
    /\ events[ClientEp(c)] # <<>> => "client" \notin tell[c]
    /\ events[ClientEp(c)] \notin {<<>>, <<Bye(c)>>} =>
          /\ cstate[c] = "connecting"
          /\ link[c] \in {"accepted", "refused", "failed"}
    /\ "client" \in tell[c] => cstate[c] = "connecting"

(* The server shuts a connection down that it knows to be established. *)
Dismisses(c) ==
    /\ closing[c] # "no" => sstate[c] = "connected"
    /\ closing[c] = "told" => "client" \notin tell[c]

(* The server is told the outcome of an accept once, and about the shutdown *)
(* after that.                                                             *)
ServerTold(c) ==
    /\ events[ServerEp(c)] \in
          IF link[c] = "none" /\ cstate[c] = "shutdown"
          THEN {<<>>, <<Answer(c)>>, <<Bye(c)>>, <<Answer(c), Bye(c)>>}
          ELSE {<<>>, <<Answer(c)>>}
    /\ events[ServerEp(c)] # <<>> =>
          /\ "server" \notin tell[c]
          /\ sstate[c] \in {"accepting", "connected"}
    /\ "server" \in tell[c] => sstate[c] = "accepting"

(* A request is queued once, until the server is handed it. *)
RequestsQueued ==
    /\ \A i \in DOMAIN events[Pep] :
          \E c \in Clients : /\ events[Pep][i] = Event("connreq", c)
                             /\ link[c] \in {"requested", "failed"}
                             /\ sstate[c] = "none"
    /\ \A i, j \in DOMAIN events[Pep] : events[Pep][i] = events[Pep][j] => i = j

Agrees(c) == Phase(c) /\ ClientTold(c) /\ ServerTold(c) /\ Dismisses(c)

AgreeInv ==
    /\ States
    /\ \A c \in Clients : Agrees(c)
    /\ RequestsQueued

(***************************************************************************)
(* Only a listen may be outstanding more than once.                        *)
(***************************************************************************)
ReadsInv ==
    /\ EQ!Outstanding(Pep) <= IF overlapped THEN MaxListens ELSE 1
    /\ \A c \in Clients :
          /\ EQ!Outstanding(ClientEp(c)) <= IF cstate[c] = "new" THEN 0 ELSE 1
          /\ EQ!Outstanding(ServerEp(c)) <=
                IF sstate[c] \in {"accepting", "connected"} THEN 1 ELSE 0

(***************************************************************************)
(* The accept or connect that is outstanding finds its outcome before a     *)
(* shutdown.                                                               *)
(***************************************************************************)
AcceptFinds(c) ==
    EQ!Outstanding(ServerEp(c)) > 0 =>
        /\ link[c] \in {"accepted", "shutdown"} /\ "server" \notin tell[c]
              => events[ServerEp(c)] # <<>>
        /\ link[c] = "none" => events[ServerEp(c)] = <<Answer(c), Bye(c)>>

Established(c) == sstate[c] \in {"accepting", "connected"} /\ link[c] # "failed"

ConnectFinds(c) ==
    EQ!Outstanding(ClientEp(c)) > 0 =>
        /\ Established(c) /\ "client" \notin tell[c] => events[ClientEp(c)] # <<>>
        /\ closing[c] = "told" => events[ClientEp(c)] = <<Answer(c), Bye(c)>>

AcceptInv == \A c \in Clients : AcceptFinds(c)
ConnectInv == \A c \in Clients : ConnectFinds(c)

(* A read that runs or is about to finds an event; one that waits is not     *)
(* woken by a signal left over.                                            *)
Served(q) ==
    /\ waiting[q] < EQ!Outstanding(q) => events[q] # <<>>
    /\ waiting[q] > 0 /\ signalled[q] => events[q] # <<>>

ServedInv ==
    /\ \A c \in Clients : Served(ClientEp(c)) /\ Served(ServerEp(c))
    /\ ~overlapped => Served(Pep)

-----------------------------------------------------------------------------
(* Queues, events and frames. *)

Queues == ConnectionQueues
Programs == {Server} \cup Clients
Events == [kind : Kinds, client : Clients]

LEMMA QueueFacts ==
    /\ Pep \in Queues /\ QueueOwner(Pep) = Server
    /\ \A c \in Clients :
          /\ ServerEp(c) \in Queues /\ QueueOwner(ServerEp(c)) = Server
          /\ ClientEp(c) \in Queues /\ QueueOwner(ClientEp(c)) = c
          /\ Pep # ServerEp(c) /\ Pep # ClientEp(c)
          /\ \A d \in Clients : /\ ServerEp(c) # ClientEp(d)
                                /\ ServerEp(c) = ServerEp(d) => c = d
                                /\ ClientEp(c) = ClientEp(d) => c = d
    /\ \A q \in Queues :
          /\ q = Pep \/ \E c \in Clients : q = ServerEp(c) \/ q = ClientEp(c)
          /\ QueueOwner(q) \in Programs
  <1>1. /\ Pep.endpoint = "passive"
        /\ \A c \in Clients :
              /\ ServerEp(c).endpoint = "accepted" /\ ServerEp(c).client = c
              /\ ClientEp(c).endpoint = "connecting" /\ ClientEp(c).client = c
    BY DEF Pep, ServerEp, ClientEp
  <1>2. /\ Pep \in Queues
        /\ \A c \in Clients : ServerEp(c) \in Queues /\ ClientEp(c) \in Queues
        /\ \A q \in Queues :
              q = Pep \/ \E c \in Clients : q = ServerEp(c) \/ q = ClientEp(c)
    BY DEF Queues, ConnectionQueues
  <1>3. /\ QueueOwner(Pep) = Server
        /\ \A c \in Clients : /\ QueueOwner(ServerEp(c)) = Server
                              /\ QueueOwner(ClientEp(c)) = c
    BY <1>1 DEF QueueOwner
  <1>4. \A q \in Queues : QueueOwner(q) \in Programs
    BY <1>2, <1>3 DEF Programs
  <1>5. \A c \in Clients :
          /\ Pep # ServerEp(c) /\ Pep # ClientEp(c)
          /\ \A d \in Clients : /\ ServerEp(c) # ClientEp(d)
                                /\ ServerEp(c) = ServerEp(d) => c = d
                                /\ ClientEp(c) = ClientEp(d) => c = d
    <2>. TAKE c \in Clients
    <2>1. Pep # ServerEp(c) /\ Pep # ClientEp(c)
      BY <1>1
    <2>2. ASSUME NEW d \in Clients
          PROVE  /\ ServerEp(c) # ClientEp(d)
                 /\ ServerEp(c) = ServerEp(d) => c = d
                 /\ ClientEp(c) = ClientEp(d) => c = d
      BY <1>1
    <2>. QED
      BY <2>1, <2>2
  <1>. QED
    BY <1>2, <1>3, <1>4, <1>5

LEMMA EventFacts ==
    /\ \A k \in Kinds, c \in Clients : Event(k, c) \in Events
    /\ \A k, c : Event(k, c).kind = k /\ Event(k, c).client = c
    /\ \A k, l, c, d : Event(k, c) = Event(l, d) => k = l /\ c = d
    /\ NoEvent \notin Events
  <1>3. \A k, c : Event(k, c).kind = k /\ Event(k, c).client = c
    BY DEF Event
  <1>4. \A k \in Kinds, c \in Clients : Event(k, c) \in Events
    BY DEF Event, Events
  <1>. QED
    BY <1>3, <1>4, ConnectionAssumption DEF Events

LEMMA FrameFacts ==
    /\ \A q, r, e, f : EQ!Frame(q, e) = EQ!Frame(r, f) => q = r /\ e = f
    /\ \A q, e : EQ!Frame(q, e).queue = q /\ EQ!Frame(q, e).event = e
    /\ \A q \in Queues, e \in Events \cup {NoEvent} : EQ!Frame(q, e) \in EQ!Frames
  BY DEF EQ!Frame, EQ!Frames, Queues, Events

-----------------------------------------------------------------------------
(* How often a read is in a sequence of reads. *)

Places(x, s) == {i \in DOMAIN s : s[i] = x}

LEMMA OccursNat ==
    ASSUME NEW S, NEW s \in Seq(S), NEW x
    PROVE  /\ EQ!Occurrences(x, s) = Cardinality(Places(x, s))
           /\ IsFiniteSet(Places(x, s)) /\ EQ!Occurrences(x, s) \in Nat
  <1>1. EQ!Occurrences(x, s) = Cardinality(Places(x, s))
    BY DEF EQ!Occurrences, EQ!Cardinality, Cardinality, Places
  <1>2. Places(x, s) \in SUBSET (1 .. Len(s)) /\ IsFiniteSet(1 .. Len(s))
    BY FS_Interval DEF Places
  <1>3. IsFiniteSet(Places(x, s))
    BY <1>2, FS_Subset
  <1>. QED
    BY <1>1, <1>3, FS_CardinalityType

LEMMA OccursConcat ==
    ASSUME NEW S, NEW s \in Seq(S), NEW t \in Seq(S), NEW x
    PROVE  EQ!Occurrences(x, s \o t) = EQ!Occurrences(x, s) + EQ!Occurrences(x, t)
  <1>. DEFINE moved == {i + Len(s) : i \in Places(x, t)}
              f == [i \in Places(x, t) |-> i + Len(s)]
  <1>1. /\ s \o t \in Seq(S) /\ Len(s \o t) = Len(s) + Len(t)
        /\ \A i \in 1 .. Len(s) + Len(t) :
              (s \o t)[i] = IF i <= Len(s) THEN s[i] ELSE t[i - Len(s)]
    BY ConcatProperties
  <1>2. Places(x, s) \subseteq 1 .. Len(s) /\ Places(x, t) \subseteq 1 .. Len(t)
    BY DEF Places
  <1>3. Places(x, s \o t) = Places(x, s) \cup moved
    <2>1. ASSUME NEW i \in Places(x, s \o t) PROVE i \in Places(x, s) \cup moved
      <3>1. i \in 1 .. Len(s) + Len(t) /\ (s \o t)[i] = x
        BY <1>1 DEF Places
      <3>2. CASE i <= Len(s)
        BY <1>1, <3>1, <3>2 DEF Places
      <3>3. CASE i > Len(s)
        <4>1. i - Len(s) \in 1 .. Len(t) /\ t[i - Len(s)] = x /\ i = (i - Len(s)) + Len(s)
          BY <1>1, <3>1, <3>3
        <4>. QED
          BY <4>1 DEF Places
      <3>. QED
        BY <3>1, <3>2, <3>3
    <2>2. ASSUME NEW i \in Places(x, s) PROVE i \in Places(x, s \o t)
      BY <1>1 DEF Places
    <2>3. ASSUME NEW i \in Places(x, t) PROVE i + Len(s) \in Places(x, s \o t)
      <3>1. i \in 1 .. Len(t) /\ t[i] = x
        BY DEF Places
      <3>2. /\ i + Len(s) \in 1 .. Len(s) + Len(t) /\ ~(i + Len(s) <= Len(s))
            /\ (i + Len(s)) - Len(s) = i
        BY <3>1
      <3>. QED
        BY <1>1, <3>1, <3>2 DEF Places
    <2>. QED
      BY <2>1, <2>2, <2>3
  <1>4. Places(x, s) \cap moved = {}
    BY <1>2
  <1>5. IsFiniteSet(moved) /\ Cardinality(moved) = Cardinality(Places(x, t))
    <2>1. f \in Bijection(Places(x, t), moved)
      <3>1. f \in [Places(x, t) -> moved]
        OBVIOUS
      <3>2. \A i, j \in Places(x, t) : f[i] = f[j] => i = j
        BY <1>2
      <3>3. \A m \in moved : \E i \in Places(x, t) : f[i] = m
        OBVIOUS
      <3>. QED
        BY <3>1, <3>2, <3>3 DEF Bijection, Injection, IsInjective, Surjection
    <2>2. ExistsBijection(Places(x, t), moved)
      BY <2>1 DEF ExistsBijection
    <2>. QED
      BY <2>2, OccursNat, FS_Bijection
  <1>6. Cardinality(Places(x, s) \cup moved)
          = Cardinality(Places(x, s)) + Cardinality(moved) - Cardinality({})
    BY <1>4, <1>5, OccursNat, FS_Union
  <1>7. /\ EQ!Occurrences(x, s \o t) = Cardinality(Places(x, s \o t))
        /\ EQ!Occurrences(x, s) = Cardinality(Places(x, s))
        /\ EQ!Occurrences(x, t) = Cardinality(Places(x, t))
        /\ EQ!Occurrences(x, s) \in Nat /\ EQ!Occurrences(x, t) \in Nat
    BY <1>1, OccursNat
  <1>. HIDE DEF moved
  <1>. QED
    BY <1>3, <1>5, <1>6, <1>7, FS_EmptySet

LEMMA OccursSingle ==
    ASSUME NEW x, NEW y
    PROVE  EQ!Occurrences(x, <<y>>) = IF x = y THEN 1 ELSE 0
  <1>1. <<y>> \in Seq({y}) /\ Places(x, <<y>>) = IF x = y THEN {1} ELSE {}
    BY DEF Places
  <1>2. EQ!Occurrences(x, <<y>>) = Cardinality(Places(x, <<y>>))
    BY <1>1, OccursNat
  <1>3. Cardinality({1}) = 1 /\ Cardinality({}) = 0
    BY FS_Singleton, FS_EmptySet
  <1>. QED
    BY <1>1, <1>2, <1>3

LEMMA OccursEmpty ==
    ASSUME NEW x
    PROVE  EQ!Occurrences(x, <<>>) = 0
  <1>1. <<>> \in Seq({}) /\ Places(x, <<>>) = {}
    BY DEF Places
  <1>. QED
    BY <1>1, OccursNat, FS_EmptySet

LEMMA OccursAppend ==
    ASSUME NEW S, NEW s \in Seq(S), NEW y \in S, NEW x
    PROVE  EQ!Occurrences(x, Append(s, y))
             = EQ!Occurrences(x, s) + IF x = y THEN 1 ELSE 0
  <1>1. Append(s, y) = s \o <<y>> /\ <<y>> \in Seq(S)
    BY AppendIsConcat
  <1>2. EQ!Occurrences(x, s \o <<y>>) = EQ!Occurrences(x, s) + EQ!Occurrences(x, <<y>>)
    BY <1>1, OccursConcat
  <1>. QED
    BY <1>1, <1>2, OccursSingle

LEMMA OccursCopies ==
    ASSUME NEW y, NEW n \in Nat, NEW x
    PROVE  EQ!Occurrences(x, [i \in 1 .. n |-> y]) = IF x = y THEN n ELSE 0
  <1>1. /\ [i \in 1 .. n |-> y] \in Seq({y})
        /\ Places(x, [i \in 1 .. n |-> y]) = IF x = y THEN 1 .. n ELSE {}
    BY DEF Places
  <1>2. Cardinality(1 .. n) = n
    BY FS_Interval
  <1>. QED
    BY <1>1, <1>2, OccursNat, FS_EmptySet

LEMMA OccursTail ==
    ASSUME NEW S, NEW s \in Seq(S), s # <<>>, NEW x
    PROVE  EQ!Occurrences(x, s)
             = EQ!Occurrences(x, Tail(s)) + IF x = Head(s) THEN 1 ELSE 0
  <1>1. Head(s) \in S /\ Tail(s) \in Seq(S) /\ <<Head(s)>> \in Seq(S)
    BY HeadTailProperties
  <1>2. s = <<Head(s)>> \o Tail(s)
    BY <1>1
  <1>3. EQ!Occurrences(x, <<Head(s)>> \o Tail(s))
          = EQ!Occurrences(x, <<Head(s)>>) + EQ!Occurrences(x, Tail(s))
    BY <1>1, OccursConcat
  <1>4. EQ!Occurrences(x, <<Head(s)>>) = IF x = Head(s) THEN 1 ELSE 0
    BY OccursSingle
  <1>5. EQ!Occurrences(x, Tail(s)) \in Nat
    BY <1>1, OccursNat
  <1>6. EQ!Occurrences(x, s) = EQ!Occurrences(x, <<Head(s)>> \o Tail(s))
    BY <1>2, Zenon
  <1>7. CASE x = Head(s)
    <2>1. EQ!Occurrences(x, <<Head(s)>>) = 1
      BY <1>4, <1>7
    <2>2. EQ!Occurrences(x, s) = 1 + EQ!Occurrences(x, Tail(s))
      BY <1>3, <1>6, <2>1, Zenon
    <2>. QED
      BY <1>5, <1>7, <2>2
  <1>8. CASE x # Head(s)
    <2>1. EQ!Occurrences(x, <<Head(s)>>) = 0
      BY <1>4, <1>8
    <2>2. EQ!Occurrences(x, s) = 0 + EQ!Occurrences(x, Tail(s))
      BY <1>3, <1>6, <2>1, Zenon
    <2>. QED
      BY <1>5, <1>8, <2>2
  <1>. QED
    BY <1>7, <1>8

(* A sequence without its last element, and that element. *)
LEMMA FrontFacts ==
    ASSUME NEW S, NEW s \in Seq(S), s # <<>>
    PROVE  /\ EQ!Front(s) \in Seq(S) /\ EQ!Last(s) \in S
           /\ s = Append(EQ!Front(s), EQ!Last(s))
  <1>1. PICK t \in Seq(S), y \in S : s = Append(t, y)
    BY SequenceEmptyOrAppend
  <1>2. Len(s) = Len(t) + 1 /\ s[Len(t) + 1] = y /\ Len(t) \in Nat
    BY <1>1
  <1>3. EQ!Last(s) = y
    BY <1>2 DEF EQ!Last
  <1>4. SubSeq(s, 1, Len(t)) = t
    BY <1>1, <1>2
  <1>5. EQ!Front(s) = t
    BY <1>2, <1>4 DEF EQ!Front
  <1>. QED
    BY <1>1, <1>3, <1>5

LEMMA OccursFront ==
    ASSUME NEW S, NEW s \in Seq(S), s # <<>>, NEW x
    PROVE  EQ!Occurrences(x, s)
             = EQ!Occurrences(x, EQ!Front(s)) + IF x = EQ!Last(s) THEN 1 ELSE 0
  <1>1. /\ EQ!Front(s) \in Seq(S) /\ EQ!Last(s) \in S
        /\ s = Append(EQ!Front(s), EQ!Last(s))
    BY FrontFacts
  <1>2. EQ!Occurrences(x, Append(EQ!Front(s), EQ!Last(s)))
          = EQ!Occurrences(x, EQ!Front(s)) + IF x = EQ!Last(s) THEN 1 ELSE 0
    BY <1>1, OccursAppend
  <1>. QED
    BY <1>1, <1>2

-----------------------------------------------------------------------------
(* What the operations of the event queues do to the reads outstanding.     *)

LEMMA EqTypes ==
    EQ!EqTypeOK <=> /\ events \in [Queues -> Seq(Events)]
                    /\ signalled \in [Queues -> BOOLEAN]
                    /\ waiting \in [Queues -> Nat]
                    /\ ready \in [Programs -> Seq(Queues)]
                    /\ stack \in [Programs -> Seq(EQ!Frames)]
                    /\ thrown \in [Programs -> SUBSET EQ!Exceptions]
  BY DEF EQ!EqTypeOK, Queues, Events, Programs

LEMMA EqTypesNext ==
    EQ!EqTypeOK' <=> /\ events' \in [Queues -> Seq(Events)]
                     /\ signalled' \in [Queues -> BOOLEAN]
                     /\ waiting' \in [Queues -> Nat]
                     /\ ready' \in [Programs -> Seq(Queues)]
                     /\ stack' \in [Programs -> Seq(EQ!Frames)]
                     /\ thrown' \in [Programs -> SUBSET EQ!Exceptions]
  BY DEF EQ!EqTypeOK, Queues, Events, Programs

Posted(q) == EQ!Occurrences(q, ready[QueueOwner(q)])
Running(q) == EQ!Occurrences(EQ!Frame(q, NoEvent), stack[QueueOwner(q)])

LEMMA Reads ==
    ASSUME EQ!EqTypeOK, NEW q \in Queues
    PROVE  /\ EQ!Outstanding(q) = waiting[q] + Posted(q) + Running(q)
           /\ waiting[q] \in Nat /\ Posted(q) \in Nat /\ Running(q) \in Nat
           /\ EQ!Outstanding(q) \in Nat /\ waiting[q] <= EQ!Outstanding(q)
  <1>1. /\ waiting[q] \in Nat /\ ready[QueueOwner(q)] \in Seq(Queues)
        /\ stack[QueueOwner(q)] \in Seq(EQ!Frames)
    BY EqTypes, QueueFacts
  <1>2. Posted(q) \in Nat /\ Running(q) \in Nat
    BY <1>1, OccursNat DEF Posted, Running
  <1>3. EQ!Outstanding(q) = waiting[q] + Posted(q) + Running(q)
    BY DEF EQ!Outstanding, Posted, Running
  <1>. QED
    BY <1>1, <1>2, <1>3

LEMMA ReadsNext ==
    ASSUME EQ!EqTypeOK', NEW q \in Queues
    PROVE  /\ EQ!Outstanding(q)' = waiting'[q] + Posted(q)' + Running(q)'
           /\ waiting'[q] \in Nat /\ Posted(q)' \in Nat /\ Running(q)' \in Nat
           /\ EQ!Outstanding(q)' \in Nat /\ waiting'[q] <= EQ!Outstanding(q)'
  <1>1. /\ waiting'[q] \in Nat /\ ready'[QueueOwner(q)] \in Seq(Queues)
        /\ stack'[QueueOwner(q)] \in Seq(EQ!Frames)
    BY EqTypesNext, QueueFacts
  <1>2. Posted(q)' \in Nat /\ Running(q)' \in Nat
    BY <1>1, OccursNat DEF Posted, Running
  <1>3. EQ!Outstanding(q)' = waiting'[q] + Posted(q)' + Running(q)'
    BY DEF EQ!Outstanding, Posted, Running
  <1>. QED
    BY <1>1, <1>2, <1>3

LEMMA DeliverFacts ==
    ASSUME EQ!EqTypeOK, NEW q \in Queues, NEW e \in Events, EQ!Deliver(q, e)
    PROVE  /\ EQ!EqTypeOK'
           /\ events'[q] = Append(events[q], e) /\ signalled'[q]
           /\ \A r \in Queues : r # q => /\ events'[r] = events[r]
                                         /\ signalled'[r] = signalled[r]
           /\ waiting' = waiting /\ thrown' = thrown
           /\ \A r \in Queues : EQ!Outstanding(r)' = EQ!Outstanding(r)
  <1>1. /\ events' = [events EXCEPT ![q] = Append(events[q], e)]
        /\ signalled' = [signalled EXCEPT ![q] = TRUE]
        /\ UNCHANGED <<waiting, ready, stack, thrown>>
    BY DEF EQ!Deliver
  <1>2. events[q] \in Seq(Events) /\ Append(events[q], e) \in Seq(Events)
    BY EqTypes
  <1>3. EQ!EqTypeOK'
    BY <1>1, <1>2, EqTypes, EqTypesNext
  <1>4. \A r \in Queues : EQ!Outstanding(r)' = EQ!Outstanding(r)
    BY <1>1 DEF EQ!Outstanding
  <1>. QED
    BY <1>1, <1>3, <1>4, EqTypes

LEMMA AsyncReadFacts ==
    ASSUME EQ!EqTypeOK, NEW q \in Queues, EQ!AsyncRead(q)
    PROVE  /\ EQ!EqTypeOK'
           /\ events' = events /\ thrown' = thrown
           /\ \A r \in Queues : r # q => /\ waiting'[r] = waiting[r]
                                         /\ signalled'[r] = signalled[r]
           /\ \/ /\ events[q] = <<>>
                 /\ waiting'[q] = waiting[q] + 1 /\ ~signalled'[q]
              \/ events[q] # <<>> /\ waiting' = waiting /\ signalled' = signalled
           /\ \A r \in Queues : EQ!Outstanding(r)'
                                  = EQ!Outstanding(r) + IF r = q THEN 1 ELSE 0
  <1>1. CASE EQ!ReadLater(q)
    <2>1. /\ events[q] = <<>> /\ UNCHANGED <<events, ready, stack, thrown>>
          /\ signalled' = [signalled EXCEPT ![q] = FALSE]
          /\ waiting' = [waiting EXCEPT ![q] = waiting[q] + 1]
      BY <1>1 DEF EQ!ReadLater
    <2>2. EQ!EqTypeOK'
      BY <2>1, EqTypes, EqTypesNext
    <2>3. ASSUME NEW r \in Queues
          PROVE  EQ!Outstanding(r)' = EQ!Outstanding(r) + IF r = q THEN 1 ELSE 0
      <3>1. /\ Posted(r)' = Posted(r) /\ Running(r)' = Running(r)
            /\ waiting'[r] = waiting[r] + IF r = q THEN 1 ELSE 0
        BY <2>1, EqTypes DEF Posted, Running
      <3>. QED
        BY <2>2, <3>1, Reads, ReadsNext
    <2>. QED
      BY <2>1, <2>2, <2>3, EqTypes
  <1>2. CASE EQ!ReadNow(q)
    <2>. DEFINE p == QueueOwner(q)
    <2>1. events[q] # <<>> /\ UNCHANGED <<events, signalled, waiting, thrown>>
      BY <1>2 DEF EQ!ReadNow
    <2>2. /\ p \in Programs /\ stack[p] \in Seq(EQ!Frames) /\ ready[p] \in Seq(Queues)
          /\ EQ!Frame(q, NoEvent) \in EQ!Frames
      BY EqTypes, QueueFacts, FrameFacts
    <2>3. CASE /\ stack' = [stack EXCEPT ![p] = Append(stack[p], EQ!Frame(q, NoEvent))]
               /\ UNCHANGED ready
      <3>1. EQ!EqTypeOK'
        BY <2>1, <2>2, <2>3, EqTypes, EqTypesNext
      <3>2. ASSUME NEW r \in Queues
            PROVE  EQ!Outstanding(r)' = EQ!Outstanding(r) + IF r = q THEN 1 ELSE 0
        <4>1. Posted(r)' = Posted(r) /\ waiting'[r] = waiting[r]
          BY <2>1, <2>3 DEF Posted
        <4>2. CASE QueueOwner(r) = p
          <5>1. stack'[p] = Append(stack[p], EQ!Frame(q, NoEvent))
            BY <2>2, <2>3, EqTypes
          <5>2. EQ!Occurrences(EQ!Frame(r, NoEvent), stack'[p])
                  = EQ!Occurrences(EQ!Frame(r, NoEvent), stack[p])
                      + IF EQ!Frame(r, NoEvent) = EQ!Frame(q, NoEvent) THEN 1 ELSE 0
            BY <2>2, <5>1, OccursAppend
          <5>3. Running(r)' = Running(r) + IF r = q THEN 1 ELSE 0
            BY <4>2, <5>2, FrameFacts DEF Running
          <5>. QED
            BY <3>1, <4>1, <5>3, Reads, ReadsNext
        <4>3. CASE QueueOwner(r) # p
          <5>1. Running(r)' = Running(r) /\ r # q
            BY <2>3, <4>3, EqTypes, QueueFacts DEF Running
          <5>. QED
            BY <3>1, <4>1, <5>1, Reads, ReadsNext
        <4>. QED
          BY <4>2, <4>3
      <3>. QED
        BY <2>1, <3>1, <3>2
    <2>4. CASE /\ ready' = [ready EXCEPT ![p] = Append(ready[p], q)]
               /\ UNCHANGED stack
      <3>1. EQ!EqTypeOK'
        BY <2>1, <2>2, <2>4, EqTypes, EqTypesNext
      <3>2. ASSUME NEW r \in Queues
            PROVE  EQ!Outstanding(r)' = EQ!Outstanding(r) + IF r = q THEN 1 ELSE 0
        <4>1. Running(r)' = Running(r) /\ waiting'[r] = waiting[r]
          BY <2>1, <2>4 DEF Running
        <4>2. CASE QueueOwner(r) = p
          <5>1. ready'[p] = Append(ready[p], q)
            BY <2>2, <2>4, EqTypes
          <5>2. EQ!Occurrences(r, ready'[p])
                  = EQ!Occurrences(r, ready[p]) + IF r = q THEN 1 ELSE 0
            BY <2>2, <5>1, OccursAppend
          <5>3. Posted(r)' = Posted(r) + IF r = q THEN 1 ELSE 0
            BY <4>2, <5>2 DEF Posted
          <5>. QED
            BY <3>1, <4>1, <5>3, Reads, ReadsNext
        <4>3. CASE QueueOwner(r) # p
          <5>1. Posted(r)' = Posted(r) /\ r # q
            BY <2>4, <4>3, EqTypes, QueueFacts DEF Posted
          <5>. QED
            BY <3>1, <4>1, <5>1, Reads, ReadsNext
        <4>. QED
          BY <4>2, <4>3
      <3>. QED
        BY <2>1, <3>1, <3>2
    <2>. QED
      BY <1>2, <2>3, <2>4 DEF EQ!ReadNow
  <1>. QED
    BY <1>1, <1>2 DEF EQ!AsyncRead

(* The steps that only move a read, or return from a handler. *)
LEMMA ReadyFacts ==
    ASSUME EQ!EqTypeOK, NEW q \in Queues, EQ!DescriptorReady(q)
    PROVE  /\ EQ!EqTypeOK'
           /\ UNCHANGED <<events, signalled, thrown>>
           /\ signalled[q] /\ waiting[q] > 0
           /\ \A r \in Queues : waiting'[r] = IF r = q THEN 0 ELSE waiting[r]
           /\ \A r \in Queues : EQ!Outstanding(r)' = EQ!Outstanding(r)
  <1>. DEFINE p == QueueOwner(q)
              copies == [i \in 1 .. waiting[q] |-> q]
  <1>1. /\ UNCHANGED <<events, signalled, stack, thrown>>
        /\ signalled[q] /\ waiting[q] > 0
        /\ ready' = [ready EXCEPT ![p] = ready[p] \o copies]
        /\ waiting' = [waiting EXCEPT ![q] = 0]
    BY DEF EQ!DescriptorReady
  <1>2. /\ p \in Programs /\ ready[p] \in Seq(Queues) /\ waiting[q] \in Nat
        /\ copies \in Seq(Queues) /\ ready[p] \o copies \in Seq(Queues)
    <2>1. p \in Programs /\ ready[p] \in Seq(Queues) /\ waiting[q] \in Nat
      BY EqTypes, QueueFacts
    <2>2. copies \in Seq(Queues)
      BY <2>1
    <2>. QED
      BY <2>1, <2>2, ConcatProperties
  <1>3. EQ!EqTypeOK'
    <2>1. /\ events' \in [Queues -> Seq(Events)]
          /\ signalled' \in [Queues -> BOOLEAN]
          /\ stack' \in [Programs -> Seq(EQ!Frames)]
          /\ thrown' \in [Programs -> SUBSET EQ!Exceptions]
      BY <1>1, EqTypes
    <2>2. waiting' \in [Queues -> Nat]
      BY <1>1, EqTypes
    <2>. HIDE DEF copies, p
    <2>3. ready' \in [Programs -> Seq(Queues)]
      BY <1>1, <1>2, EqTypes
    <2>. QED
      BY <2>1, <2>2, <2>3, EqTypesNext
  <1>4. \A r \in Queues : waiting'[r] = IF r = q THEN 0 ELSE waiting[r]
    BY <1>1, EqTypes
  <1>5. ASSUME NEW r \in Queues PROVE EQ!Outstanding(r)' = EQ!Outstanding(r)
    <2>1. Running(r)' = Running(r)
      BY <1>1 DEF Running
    <2>2. CASE QueueOwner(r) = p
      <3>1. EQ!Occurrences(r, ready[p] \o copies)
              = EQ!Occurrences(r, ready[p]) + EQ!Occurrences(r, copies)
        BY <1>2, OccursConcat
      <3>2. EQ!Occurrences(r, copies) = IF r = q THEN waiting[q] ELSE 0
        BY <1>2, OccursCopies, ZenonT(40)
      <3>3. ready'[p] = ready[p] \o copies
        BY <1>1, <1>2, EqTypes
      <3>4. Posted(r) = EQ!Occurrences(r, ready[p])
            /\ Posted(r)' = EQ!Occurrences(r, ready'[p])
        BY <2>2 DEF Posted
      <3>. HIDE DEF copies, p
      <3>5. Posted(r)' = Posted(r) + IF r = q THEN waiting[q] ELSE 0
        BY <3>1, <3>2, <3>3, <3>4
      <3>6. CASE r = q
        BY <1>3, <1>4, <2>1, <3>5, <3>6, Reads, ReadsNext
      <3>7. CASE r # q
        BY <1>3, <1>4, <2>1, <3>5, <3>7, Reads, ReadsNext
      <3>. QED
        BY <3>6, <3>7
    <2>3. CASE QueueOwner(r) # p
      <3>1. Posted(r)' = Posted(r) /\ r # q
        BY <1>1, <2>3, EqTypes, QueueFacts DEF Posted
      <3>. QED
        BY <1>3, <1>4, <2>1, <3>1, Reads, ReadsNext
    <2>. QED
      BY <2>2, <2>3
  <1>. QED
    BY <1>1, <1>3, <1>4, <1>5

LEMMA RunFacts ==
    ASSUME EQ!EqTypeOK, NEW p \in Programs, EQ!RunOne(p)
    PROVE  /\ EQ!EqTypeOK'
           /\ UNCHANGED <<events, signalled, waiting, thrown>>
           /\ \A r \in Queues : EQ!Outstanding(r)' = EQ!Outstanding(r)
  <1>. DEFINE q == Head(ready[p])
              frame == EQ!Frame(q, NoEvent)
  <1>1. /\ UNCHANGED <<events, signalled, waiting, thrown>>
        /\ stack[p] = <<>> /\ ready[p] # <<>>
        /\ stack' = [stack EXCEPT ![p] = <<frame>>]
        /\ ready' = [ready EXCEPT ![p] = Tail(ready[p])]
    BY DEF EQ!RunOne
  <1>2. ready[p] \in Seq(Queues) /\ q \in Queues /\ Tail(ready[p]) \in Seq(Queues)
    BY <1>1, EqTypes, HeadTailProperties
  <1>3. frame \in EQ!Frames /\ <<frame>> \in Seq(EQ!Frames)
    BY <1>2, FrameFacts
  <1>4. EQ!EqTypeOK'
    <2>. HIDE DEF q, frame
    <2>. QED
      BY <1>1, <1>2, <1>3, EqTypes, EqTypesNext
  <1>5. ASSUME NEW r \in Queues PROVE EQ!Outstanding(r)' = EQ!Outstanding(r)
    <2>1. CASE QueueOwner(r) = p
      <3>1. /\ Posted(r) = EQ!Occurrences(r, ready[p])
            /\ Posted(r)' = EQ!Occurrences(r, Tail(ready[p]))
            /\ Running(r) = EQ!Occurrences(EQ!Frame(r, NoEvent), <<>>)
            /\ Running(r)' = EQ!Occurrences(EQ!Frame(r, NoEvent), <<frame>>)
        BY <1>1, <2>1, EqTypes DEF Posted, Running
      <3>2. Posted(r) = Posted(r)' + IF r = q THEN 1 ELSE 0
        BY <1>1, <1>2, <3>1, OccursTail
      <3>3. Running(r) = 0
        BY <3>1, OccursEmpty
      <3>4. Running(r)' = IF EQ!Frame(r, NoEvent) = frame THEN 1 ELSE 0
        BY <3>1, OccursSingle
      <3>5. EQ!Frame(r, NoEvent) = frame <=> r = q
        BY FrameFacts
      <3>. HIDE DEF q, frame
      <3>. QED
        BY <1>1, <1>4, <3>2, <3>3, <3>4, <3>5, Reads, ReadsNext
    <2>2. CASE QueueOwner(r) # p
      <3>1. Posted(r)' = Posted(r) /\ Running(r)' = Running(r)
        BY <1>1, <2>2, EqTypes, QueueFacts DEF Posted, Running
      <3>. QED
        BY <1>1, <1>4, <3>1, Reads, ReadsNext
    <2>. QED
      BY <2>1, <2>2
  <1>. QED
    BY <1>1, <1>4, <1>5

(* Frames that go from the stack of p are no reads, or they are of q.      *)
LEMMA TopFrame ==
    ASSUME EQ!EqTypeOK, NEW p \in Programs, stack[p] # <<>>
    PROVE  /\ stack[p] \in Seq(EQ!Frames)
           /\ EQ!Front(stack[p]) \in Seq(EQ!Frames) /\ EQ!Last(stack[p]) \in EQ!Frames
           /\ \A r \in Queues : QueueOwner(r) = p =>
                 Running(r) = EQ!Occurrences(EQ!Frame(r, NoEvent), EQ!Front(stack[p]))
                   + IF EQ!Frame(r, NoEvent) = EQ!Last(stack[p]) THEN 1 ELSE 0
  <1>1. stack[p] \in Seq(EQ!Frames)
    BY EqTypes
  <1>2. \A x : EQ!Occurrences(x, stack[p])
                 = EQ!Occurrences(x, EQ!Front(stack[p]))
                     + IF x = EQ!Last(stack[p]) THEN 1 ELSE 0
    BY <1>1, OccursFront
  <1>3. \A r : Running(r) = EQ!Occurrences(EQ!Frame(r, NoEvent), stack[QueueOwner(r)])
    BY DEF Running
  <1>. QED
    BY <1>1, <1>2, <1>3, FrontFacts

LEMMA ReturnFacts ==
    ASSUME EQ!EqTypeOK, NEW p \in Programs, EQ!HandlerReturns(p)
    PROVE  /\ EQ!EqTypeOK'
           /\ UNCHANGED <<events, signalled, waiting, thrown>>
           /\ \A r \in Queues : EQ!Outstanding(r)' = EQ!Outstanding(r)
  <1>1. /\ UNCHANGED <<events, signalled, waiting, ready, thrown>>
        /\ stack[p] # <<>> /\ EQ!Last(stack[p]).event # NoEvent
        /\ stack' = [stack EXCEPT ![p] = EQ!Front(stack[p])]
    BY DEF EQ!HandlerReturns, EQ!HasControl
  <1>2. EQ!EqTypeOK'
    BY <1>1, TopFrame, EqTypes, EqTypesNext
  <1>3. ASSUME NEW r \in Queues PROVE EQ!Outstanding(r)' = EQ!Outstanding(r)
    <2>1. Posted(r)' = Posted(r)
      BY <1>1 DEF Posted
    <2>2. CASE QueueOwner(r) = p
      <3>1. EQ!Frame(r, NoEvent) # EQ!Last(stack[p])
        BY <1>1, FrameFacts
      <3>2. Running(r) = EQ!Occurrences(EQ!Frame(r, NoEvent), EQ!Front(stack[p])) + 0
        BY <1>1, <2>2, <3>1, TopFrame
      <3>3. Running(r)' = EQ!Occurrences(EQ!Frame(r, NoEvent), EQ!Front(stack[p]))
        BY <1>1, <2>2, EqTypes DEF Running
      <3>. QED
        BY <1>1, <1>2, <2>1, <3>2, <3>3, Reads, ReadsNext
    <2>3. CASE QueueOwner(r) # p
      <3>1. Running(r)' = Running(r)
        BY <1>1, <2>3, EqTypes, QueueFacts DEF Running
      <3>. QED
        BY <1>1, <1>2, <2>1, <3>1, Reads, ReadsNext
    <2>. QED
      BY <2>2, <2>3
  <1>. QED
    BY <1>1, <1>2, <1>3

(* The steps that take an event. *)
LEMMA TakeFacts ==
    ASSUME EQ!EqTypeOK, NEW q \in Queues, EQ!Take(q), events[q] # <<>>
    PROVE  /\ events' \in [Queues -> Seq(Events)]
           /\ signalled' \in [Queues -> BOOLEAN]
           /\ events'[q] = Tail(events[q])
           /\ \A r \in Queues : r # q => /\ events'[r] = events[r]
                                         /\ signalled'[r] = signalled[r]
           /\ events'[q] # <<>> => signalled'[q] = signalled[q]
           /\ signalled'[q] => signalled[q]
  <1>1. events[q] \in Seq(Events) /\ Tail(events[q]) \in Seq(Events)
    BY EqTypes
  <1>2. /\ events' = [events EXCEPT ![q] = Tail(events[q])]
        /\ \/ signalled' = signalled
           \/ Len(events[q]) = 1 /\ signalled' = [signalled EXCEPT ![q] = FALSE]
    BY DEF EQ!Take
  <1>3. Len(events[q]) = 1 => Tail(events[q]) = <<>>
    <2>1. Len(events[q]) = 1 => Len(Tail(events[q])) = 0
      BY <1>1, HeadTailProperties
    <2>2. \A s \in Seq(Events) : Len(s) = 0 => s = <<>>
      BY EmptySeq
    <2>. QED
      BY <1>1, <2>1, <2>2
  <1>. QED
    BY <1>1, <1>2, <1>3, EqTypes

LEMMA ExpectedFacts ==
    ASSUME EQ!EqTypeOK, NEW p \in Programs, NEW q \in Queues, QueueOwner(q) = p,
           EQ!ReadExpected(p, q)
    PROVE  /\ EQ!EqTypeOK'
           /\ EQ!Take(q) /\ events[q] # <<>> /\ Head(events[q]) \in QueueExpected(q)
           /\ waiting' = waiting /\ thrown' = thrown
           /\ \A r \in Queues : EQ!Outstanding(r)
                                  = EQ!Outstanding(r)' + IF r = q THEN 1 ELSE 0
  <1>. DEFINE frame == EQ!Frame(q, Head(events[q]))
  <1>1. /\ UNCHANGED <<waiting, ready, thrown>>
        /\ stack[p] # <<>> /\ EQ!Last(stack[p]) = EQ!Frame(q, NoEvent)
        /\ EQ!Take(q) /\ events[q] # <<>> /\ Head(events[q]) \in QueueExpected(q)
        /\ stack' = [stack EXCEPT ![p] = Append(EQ!Front(stack[p]), frame)]
    BY DEF EQ!ReadExpected, EQ!Reading
  <1>2. Head(events[q]) \in Events /\ frame \in EQ!Frames
    BY <1>1, EqTypes, FrameFacts
  <1>3. Append(EQ!Front(stack[p]), frame) \in Seq(EQ!Frames)
    BY <1>1, <1>2, TopFrame
  <1>4. EQ!EqTypeOK'
    <2>. HIDE DEF frame
    <2>. QED
      BY <1>1, <1>3, TakeFacts, EqTypes, EqTypesNext
  <1>5. ASSUME NEW r \in Queues
        PROVE  EQ!Outstanding(r) = EQ!Outstanding(r)' + IF r = q THEN 1 ELSE 0
    <2>1. Posted(r)' = Posted(r)
      BY <1>1 DEF Posted
    <2>2. CASE QueueOwner(r) = p
      <3>. DEFINE n == EQ!Occurrences(EQ!Frame(r, NoEvent), EQ!Front(stack[p]))
      <3>1. Running(r) = n + IF r = q THEN 1 ELSE 0
        BY <1>1, <2>2, TopFrame, FrameFacts
      <3>2. Running(r)' = EQ!Occurrences(EQ!Frame(r, NoEvent),
                                         Append(EQ!Front(stack[p]), frame))
        BY <1>1, <2>2, EqTypes DEF Running
      <3>3. EQ!Frame(r, NoEvent) # frame
        BY <1>2, FrameFacts, EventFacts
      <3>4. EQ!Occurrences(EQ!Frame(r, NoEvent), Append(EQ!Front(stack[p]), frame))
              = n + 0
        BY <1>1, <1>2, <3>3, TopFrame, OccursAppend
      <3>5. n \in Nat
        BY <1>1, TopFrame, OccursNat
      <3>. HIDE DEF n, frame
      <3>6. Running(r) = Running(r)' + IF r = q THEN 1 ELSE 0
        BY <3>1, <3>2, <3>4, <3>5
      <3>7. /\ EQ!Outstanding(r) = waiting[r] + Posted(r) + Running(r)
            /\ waiting[r] \in Nat /\ Posted(r) \in Nat
        BY Reads
      <3>8. /\ EQ!Outstanding(r)' = waiting'[r] + Posted(r)' + Running(r)'
            /\ Running(r)' \in Nat
        BY <1>4, ReadsNext
      <3>. QED
        BY <1>1, <2>1, <3>6, <3>7, <3>8
    <2>3. CASE QueueOwner(r) # p
      <3>1. Running(r)' = Running(r) /\ r # q
        BY <1>1, <2>3, EqTypes, QueueFacts DEF Running
      <3>2. EQ!Outstanding(r)' = EQ!Outstanding(r) /\ EQ!Outstanding(r) \in Nat
        BY <1>1, <1>4, <2>1, <3>1, Reads, ReadsNext
      <3>. QED
        BY <3>1, <3>2
    <2>. QED
      BY <2>2, <2>3
  <1>. QED
    BY <1>1, <1>4, <1>5

(* An exception abandons the reads that p is running. *)
Thrown(p, q, what) ==
    /\ UNCHANGED <<waiting, ready>>
    /\ EQ!Reading(p, q)
    /\ EQ!ThrowOut(p, what)
    /\ \/ events[q] # <<>> /\ EQ!Take(q)
       \/ events[q] = <<>> /\ UNCHANGED <<events, signalled>>

LEMMA ThrownFacts ==
    ASSUME EQ!EqTypeOK, NEW p \in Programs, NEW q \in Queues, QueueOwner(q) = p,
           NEW what \in EQ!Exceptions, Thrown(p, q, what)
    PROVE  /\ EQ!EqTypeOK'
           /\ waiting' = waiting
           /\ waiting[q] < EQ!Outstanding(q)
           /\ \A r \in Queues : EQ!Outstanding(r)' <= EQ!Outstanding(r)
           /\ EQ!Outstanding(q)' < EQ!Outstanding(q)
           /\ \A u \in Programs :
                 thrown'[u] = IF u = p THEN thrown[p] \cup {what} ELSE thrown[u]
  <1>1. /\ UNCHANGED <<waiting, ready>>
        /\ stack[p] # <<>> /\ EQ!Last(stack[p]) = EQ!Frame(q, NoEvent)
        /\ stack' = [stack EXCEPT ![p] = <<>>]
        /\ thrown' = [thrown EXCEPT ![p] = thrown[p] \cup {what}]
        /\ \/ events[q] # <<>> /\ EQ!Take(q)
           \/ events[q] = <<>> /\ UNCHANGED <<events, signalled>>
    BY DEF Thrown, EQ!Reading, EQ!ThrowOut
  <1>2. EQ!EqTypeOK'
    BY <1>1, TakeFacts, EqTypes, EqTypesNext
  <1>3. ASSUME NEW r \in Queues
        PROVE  /\ EQ!Outstanding(r)' <= EQ!Outstanding(r)
               /\ r = q => /\ waiting[q] < EQ!Outstanding(q)
                           /\ EQ!Outstanding(q)' < EQ!Outstanding(q)
    <2>1. Posted(r)' = Posted(r) /\ waiting'[r] = waiting[r]
      BY <1>1 DEF Posted
    <2>2. CASE QueueOwner(r) = p
      <3>1. Running(r)' = 0
        <4>1. Running(r)' = EQ!Occurrences(EQ!Frame(r, NoEvent), <<>>)
          BY <1>1, <2>2, EqTypes DEF Running
        <4>. QED
          BY <4>1, OccursEmpty
      <3>2. r = q => Running(r) > 0
        <4>. DEFINE n == EQ!Occurrences(EQ!Frame(q, NoEvent), EQ!Front(stack[p]))
        <4>1. Running(q) = n + 1
          BY <1>1, TopFrame
        <4>2. n \in Nat
          BY <1>1, TopFrame, OccursNat
        <4>. HIDE DEF n
        <4>. QED
          BY <4>1, <4>2
      <3>. QED
        BY <1>2, <2>1, <3>1, <3>2, Reads, ReadsNext
    <2>3. CASE QueueOwner(r) # p
      <3>1. Running(r)' = Running(r) /\ r # q
        BY <1>1, <2>3, EqTypes, QueueFacts DEF Running
      <3>. QED
        BY <1>2, <2>1, <3>1, Reads, ReadsNext
    <2>. QED
      BY <2>2, <2>3
  <1>. QED
    BY <1>1, <1>2, <1>3, EqTypes

LEMMA ThrowingSteps ==
    ASSUME NEW p \in Programs, NEW q \in Queues
    PROVE  /\ EQ!ReadUnexpected(p, q) =>
                 /\ events[q] # <<>> /\ Head(events[q]) \notin QueueExpected(q)
                 /\ Thrown(p, q, IF Head(events[q]).kind = "failed" THEN "failed"
                                                                    ELSE "unexpected")
           /\ EQ!ReadInfoThrows(p, q) => events[q] # <<>> /\ Thrown(p, q, "info")
           /\ EQ!ReadTimesOut(p, q) => events[q] = <<>> /\ Thrown(p, q, "timeout")
           /\ {"failed", "unexpected", "info", "timeout"} \subseteq EQ!Exceptions
  BY DEF EQ!ReadUnexpected, EQ!ReadInfoThrows, EQ!ReadTimesOut, Thrown, EQ!Exceptions

-----------------------------------------------------------------------------
(* What the two ends know of each other. *)

LEMMA SameAgrees ==
    ASSUME NEW c \in Clients, Agrees(c), link'[c] = link[c], cstate'[c] = cstate[c],
           sstate'[c] = sstate[c], closing'[c] = closing[c], tell'[c] = tell[c],
           events'[ClientEp(c)] = events[ClientEp(c)],
           events'[ServerEp(c)] = events[ServerEp(c)]
    PROVE  Agrees(c)'
  BY DEF Agrees, Phase, ClientTold, ServerTold, Dismisses, Answer, Bye, Outcome

LEMMA Tails ==
    ASSUME NEW x, NEW y
    PROVE  Tail(<<x>>) = <<>> /\ Tail(<<x, y>>) = <<y>>
  <1>. DEFINE S == {x, y}
  <1>1. <<x>> \in Seq(S) /\ <<x, y>> \in Seq(S) /\ <<y>> \in Seq(S)
    OBVIOUS
  <1>2. Tail(<<x>>) \in Seq(S) /\ Len(Tail(<<x>>)) = 0
    BY <1>1, HeadTailProperties
  <1>3. \A s \in Seq(S) : Len(s) = 0 => s = <<>>
    BY EmptySeq
  <1>4. Tail(<<x, y>>) \in Seq(S) /\ Len(Tail(<<x, y>>)) = 1
        /\ Tail(<<x, y>>)[1] = y
    BY <1>1, HeadTailProperties
  <1>5. Tail(<<x, y>>) = <<y>>
    BY <1>1, <1>4, SeqEqual
  <1>. QED
    BY <1>2, <1>3, <1>5

LEMMA Appends ==
    ASSUME NEW x, NEW y
    PROVE  Append(<<>>, x) = <<x>> /\ Append(<<x>>, y) = <<x, y>>
  <1>. DEFINE S == {x, y}
  <1>1. <<>> \in Seq(S) /\ <<x>> \in Seq(S) /\ <<x, y>> \in Seq(S)
    OBVIOUS
  <1>2. /\ Append(<<>>, x) \in Seq(S) /\ Len(Append(<<>>, x)) = 1
        /\ Append(<<>>, x)[1] = x
    BY <1>1, AppendProperties
  <1>3. /\ Append(<<x>>, y) \in Seq(S) /\ Len(Append(<<x>>, y)) = 2
        /\ Append(<<x>>, y)[1] = x /\ Append(<<x>>, y)[2] = y
    BY <1>1, AppendProperties
  <1>4. Append(<<>>, x) = <<x>>
    BY <1>1, <1>2, SeqEqual
  <1>5. Append(<<x>>, y) = <<x, y>>
    <2>1. /\ Len(<<x, y>>) = 2 /\ <<x, y>>[1] = x /\ <<x, y>>[2] = y
          /\ \A i \in 1 .. 2 : i = 1 \/ i = 2
      OBVIOUS
    <2>2. \A i \in 1 .. Len(Append(<<x>>, y)) : Append(<<x>>, y)[i] = <<x, y>>[i]
      BY <1>3, <2>1
    <2>. QED
      BY <1>1, <1>3, <2>1, <2>2, SeqEqual
  <1>. QED
    BY <1>4, <1>5

LEMMA AnswerFacts ==
    ASSUME NEW c
    PROVE  /\ Answer(c) # Bye(c)
           /\ {<<Answer(c)>>, <<Answer(c), Bye(c)>>} \cap {<<>>, <<Bye(c)>>} = {}
  <1>1. Answer(c) # Bye(c)
    BY EventFacts DEF Answer, Bye, Outcome
  <1>. QED
    BY <1>1

(* What the client has not read yet before the server shuts down, and after  *)
(* it has read its answer.                                                 *)
LEMMA Untold ==
    ASSUME NEW c \in Clients, Agrees(c), closing[c] # "told"
    PROVE  /\ events[ClientEp(c)] \in {<<>>, <<Answer(c)>>}
           /\ events[ClientEp(c)] # <<>> =>
                 /\ "client" \notin tell[c] /\ cstate[c] = "connecting"
                 /\ link[c] \in {"accepted", "refused", "failed"}
  BY AnswerFacts DEF Agrees, ClientTold

LEMMA Answered ==
    ASSUME NEW c \in Clients, Agrees(c), cstate[c] # "connecting"
    PROVE  /\ "client" \notin tell[c]
           /\ \/ events[ClientEp(c)] = <<>>
              \/ events[ClientEp(c)] = <<Bye(c)>> /\ closing[c] = "told"
  <1>1. "client" \notin tell[c] /\ events[ClientEp(c)] \in {<<>>, <<Bye(c)>>}
    BY DEF Agrees, ClientTold
  <1>. QED
    BY <1>1, Untold

LEMMA Undismissed ==
    ASSUME NEW c \in Clients, Agrees(c), sstate[c] # "connected"
    PROVE  closing[c] = "no"
  BY DEF Agrees, Dismisses

(* An event is taken away and nothing else happens. *)
LEMMA TakenAgrees ==
    ASSUME AgreeInv, NEW q \in Queues, EQ!Take(q), events[q] # <<>>,
           UNCHANGED <<link, cstate, sstate, closing, tell>>, NEW c \in Clients
    PROVE  Agrees(c)'
  <1>1. Agrees(c) /\ EQ!EqTypeOK
    BY DEF AgreeInv, States
  <1>2. /\ events'[q] = Tail(events[q])
        /\ \A r \in Queues : r # q => events'[r] = events[r]
    BY <1>1, TakeFacts
  <1>3. CASE q = ClientEp(c)
    <2>1. /\ events'[q] = <<>> \/ events'[q] = <<Bye(c)>>
          /\ events'[q] = <<Bye(c)>> => closing[c] = "told"
      <3>1. events[q] \in {<<Answer(c)>>, <<Bye(c)>>, <<Answer(c), Bye(c)>>}
        BY <1>1, <1>3 DEF Agrees, ClientTold
      <3>2. CASE closing[c] = "told"
        BY <1>2, <3>1, <3>2, Tails
      <3>3. CASE closing[c] # "told"
        <4>1. events[q] = <<Answer(c)>>
          BY <1>1, <1>3, <3>3, Untold
        <4>. QED
          BY <1>2, <4>1, Tails
      <3>. QED
        BY <3>2, <3>3
    <2>2. events'[ServerEp(c)] = events[ServerEp(c)]
      BY <1>2, <1>3, QueueFacts
    <2>. QED
      BY <1>1, <1>3, <2>1, <2>2
      DEF Agrees, Phase, ClientTold, ServerTold, Dismisses, Answer, Bye, Outcome
  <1>4. CASE q = ServerEp(c)
    <2>1. /\ events'[q] = <<>> \/ events'[q] = <<Bye(c)>>
          /\ events'[q] = <<Bye(c)>> => link[c] = "none" /\ cstate[c] = "shutdown"
      <3>1. events[q] \in {<<Answer(c)>>, <<Bye(c)>>, <<Answer(c), Bye(c)>>}
        BY <1>1, <1>4 DEF Agrees, ServerTold
      <3>2. CASE events[q] = <<Answer(c), Bye(c)>>
        <4>1. link[c] = "none" /\ cstate[c] = "shutdown"
          BY <1>1, <1>4, <3>2 DEF Agrees, ServerTold
        <4>. QED
          BY <1>2, <3>2, <4>1, Tails
      <3>3. CASE events[q] # <<Answer(c), Bye(c)>>
        <4>1. events'[q] = <<>>
          BY <1>2, <3>1, <3>3, Tails
        <4>2. <<>> # <<Bye(c)>>
          OBVIOUS
        <4>. QED
          BY <4>1, <4>2
      <3>. QED
        BY <3>2, <3>3
    <2>2. events'[ClientEp(c)] = events[ClientEp(c)]
      BY <1>2, <1>4, QueueFacts
    <2>. QED
      BY <1>1, <1>4, <2>1, <2>2
      DEF Agrees, Phase, ClientTold, ServerTold, Dismisses, Answer, Bye, Outcome
  <1>5. CASE q # ClientEp(c) /\ q # ServerEp(c)
    BY <1>1, <1>2, <1>5, QueueFacts, SameAgrees
  <1>. QED
    BY <1>3, <1>4, <1>5

LEMMA SameRequests ==
    ASSUME RequestsQueued, events'[Pep] = events[Pep],
           \A c \in Clients :
              link[c] \in {"requested", "failed"} /\ sstate[c] = "none" =>
              link'[c] \in {"requested", "failed"} /\ sstate'[c] = "none"
    PROVE  RequestsQueued'
  BY DEF RequestsQueued

LEMMA TakenRequests ==
    ASSUME AgreeInv, NEW q \in Queues, EQ!Take(q), events[q] # <<>>,
           \A c \in Clients :
              link[c] \in {"requested", "failed"} /\ sstate[c] = "none" =>
                 \/ link'[c] \in {"requested", "failed"} /\ sstate'[c] = "none"
                 \/ q = Pep /\ Head(events[Pep]) = Event("connreq", c)
    PROVE  RequestsQueued'
  <1>1. /\ EQ!EqTypeOK /\ RequestsQueued
        /\ events'[q] = Tail(events[q])
        /\ \A r \in Queues : r # q => events'[r] = events[r]
    BY TakeFacts DEF AgreeInv, States
  <1>2. CASE q # Pep
    BY <1>1, <1>2, QueueFacts, SameRequests
  <1>3. CASE q = Pep
    <2>. DEFINE s == events[Pep]
    <2>1. s \in Seq(Events) /\ s # <<>>
      BY <1>1, <1>3, EqTypes
    <2>2. /\ Len(s) \in Nat \ {0} /\ DOMAIN s = 1 .. Len(s) /\ Head(s) = s[1]
          /\ DOMAIN Tail(s) = 1 .. Len(s) - 1
          /\ \A i \in 1 .. Len(s) - 1 : Tail(s)[i] = s[i + 1]
      BY <2>1
    <2>3. events'[Pep] = Tail(s)
      BY <1>1, <1>3
    <2>4. ASSUME NEW i \in DOMAIN events'[Pep]
          PROVE  \E c \in Clients : /\ events'[Pep][i] = Event("connreq", c)
                                    /\ link'[c] \in {"requested", "failed"}
                                    /\ sstate'[c] = "none"
      <3>1. i + 1 \in DOMAIN s /\ i + 1 # 1 /\ 1 \in DOMAIN s
            /\ events'[Pep][i] = s[i + 1]
        BY <2>2, <2>3
      <3>2. PICK c \in Clients : /\ s[i + 1] = Event("connreq", c)
                                 /\ link[c] \in {"requested", "failed"}
                                 /\ sstate[c] = "none"
        BY <1>1, <3>1 DEF RequestsQueued
      <3>3. s[1] # s[i + 1]
        BY <1>1, <3>1 DEF RequestsQueued
      <3>. QED
        BY <2>2, <3>1, <3>2, <3>3
    <2>5. ASSUME NEW i \in DOMAIN events'[Pep], NEW j \in DOMAIN events'[Pep],
                 events'[Pep][i] = events'[Pep][j]
          PROVE  i = j
      <3>1. /\ i + 1 \in DOMAIN s /\ j + 1 \in DOMAIN s
            /\ s[i + 1] = s[j + 1]
        BY <2>2, <2>3, <2>5
      <3>2. i + 1 = j + 1
        BY <1>1, <3>1 DEF RequestsQueued
      <3>. QED
        BY <2>2, <2>3, <3>2
    <2>. QED
      BY <2>4, <2>5 DEF RequestsQueued
  <1>. QED
    BY <1>2, <1>3

(* The requests queued are in the place of their clients. *)
LEMMA RequestFacts ==
    ASSUME AgreeInv, events[Pep] # <<>>
    PROVE  \E c \in Clients : /\ Head(events[Pep]) = Event("connreq", c)
                              /\ link[c] \in {"requested", "failed"}
                              /\ sstate[c] = "none"
  <1>1. events[Pep] \in Seq(Events)
    BY EqTypes, QueueFacts DEF AgreeInv, States
  <1>2. 1 \in DOMAIN events[Pep] /\ Head(events[Pep]) = events[Pep][1]
    BY <1>1
  <1>. QED
    BY <1>2 DEF AgreeInv, RequestsQueued

(* The steps that leave the connections alone. *)
LEMMA QuietAgreeInv ==
    ASSUME AgreeInv, EQ!EqTypeOK', events' = events,
           UNCHANGED <<link, cstate, sstate, closing, tell>>,
           listening' \in BOOLEAN, overlapped' \in BOOLEAN,
           failures' \in 0 .. MaxFailures
    PROVE  AgreeInv'
  <1>1. \A c \in Clients : Agrees(c)'
    BY SameAgrees DEF AgreeInv
  <1>2. RequestsQueued'
    BY SameRequests DEF AgreeInv
  <1>. QED
    BY <1>1, <1>2 DEF AgreeInv, States

LEMMA TakenAgreeInv ==
    ASSUME AgreeInv, EQ!EqTypeOK', NEW q \in Queues, EQ!Take(q), events[q] # <<>>,
           UNCHANGED <<link, cstate, sstate, closing, tell, listening, overlapped>>,
           failures' \in 0 .. MaxFailures
    PROVE  AgreeInv'
  <1>1. \A c \in Clients : Agrees(c)'
    BY TakenAgrees
  <1>2. RequestsQueued'
    BY TakenRequests
  <1>. QED
    BY <1>1, <1>2 DEF AgreeInv, States

LEMMA ListenAgree ==
    ASSUME AgreeInv, Listen
    PROVE  AgreeInv'
  <1>1. EQ!EqTypeOK' /\ events' = events
    BY AsyncReadFacts, QueueFacts DEF AgreeInv, States, Listen
  <1>2. overlapped' \in BOOLEAN
    <2>1. overlapped' = (overlapped \/ EQ!Outstanding(Pep) > 0)
      BY DEF Listen
    <2>. QED
      BY <2>1
  <1>. QED
    BY <1>1, <1>2, QuietAgreeInv DEF AgreeInv, States, Listen

(* The steps that concern one connection, that of client c. *)
LEMMA OthersAgree ==
    ASSUME AgreeInv, NEW c \in Clients, Agrees(c)',
           \A d \in Clients \ {c} :
              /\ link'[d] = link[d] /\ cstate'[d] = cstate[d]
              /\ sstate'[d] = sstate[d] /\ closing'[d] = closing[d]
              /\ tell'[d] = tell[d]
              /\ events'[ClientEp(d)] = events[ClientEp(d)]
              /\ events'[ServerEp(d)] = events[ServerEp(d)]
    PROVE  \A d \in Clients : Agrees(d)'
  BY SameAgrees DEF AgreeInv

LEMMA HandRequestAgree ==
    ASSUME AgreeInv, NEW c \in Clients, HandRequest(c)
    PROVE  AgreeInv'
  <1>1. /\ EQ!ReadExpected(Server, Pep) /\ Head(events[Pep]) = Event("connreq", c)
        /\ sstate' = [sstate EXCEPT ![c] = "handed"]
        /\ UNCHANGED <<listening, cstate, closing, link, tell, failures, overlapped>>
    BY DEF HandRequest
  <1>2. EQ!EqTypeOK' /\ EQ!Take(Pep) /\ events[Pep] # <<>>
    BY <1>1, ExpectedFacts, QueueFacts DEF AgreeInv, States, Programs
  <1>3. \A r \in Queues : r # Pep => events'[r] = events[r]
    BY <1>2, TakeFacts, QueueFacts DEF AgreeInv, States
  <1>4. \A d \in Clients : /\ events'[ClientEp(d)] = events[ClientEp(d)]
                           /\ events'[ServerEp(d)] = events[ServerEp(d)]
    BY <1>3, QueueFacts
  <1>5. link[c] \in {"requested", "failed"} /\ sstate[c] = "none"
    BY <1>1, <1>2, RequestFacts, EventFacts
  <1>6. States'
    BY <1>1, <1>2 DEF AgreeInv, States
  <1>7. Agrees(c)'
    <2>1. Agrees(c) /\ sstate'[c] = "handed"
      BY <1>1 DEF AgreeInv, States
    <2>. QED
      BY <1>1, <1>4, <1>5, <2>1 DEF Agrees, Phase, ClientTold, ServerTold, Dismisses, Answer, Bye, Outcome
  <1>8. \A d \in Clients : Agrees(d)'
    BY <1>1, <1>4, <1>7, OthersAgree DEF AgreeInv, States
  <1>9. RequestsQueued'
    BY <1>1, <1>2, TakenRequests, QueueFacts DEF AgreeInv, States
  <1>. QED
    BY <1>6, <1>8, <1>9 DEF AgreeInv

LEMMA AcceptAgree ==
    ASSUME AgreeInv, NEW c \in Clients, Accept(c)
    PROVE  AgreeInv'
  <1>1. /\ sstate[c] = "handed" /\ sstate' = [sstate EXCEPT ![c] = "accepting"]
        /\ \/ link[c] = "failed" /\ UNCHANGED <<link, tell>>
           \/ /\ link[c] # "failed"
              /\ link' = [link EXCEPT ![c] = "accepted"]
              /\ tell' = [tell EXCEPT ![c] = Sides]
        /\ EQ!AsyncRead(ServerEp(c))
        /\ UNCHANGED <<listening, cstate, closing, failures, overlapped>>
    BY DEF Accept
  <1>2. EQ!EqTypeOK' /\ events' = events
    BY <1>1, AsyncReadFacts, QueueFacts DEF AgreeInv, States
  <1>3. States'
    BY <1>1, <1>2 DEF AgreeInv, States, Sides
  <1>4. Agrees(c)'
    <2>1. Agrees(c) /\ sstate'[c] = "accepting"
      BY <1>1 DEF AgreeInv, States
    <2>2. CASE link[c] = "failed"
      BY <1>1, <1>2, <2>1, <2>2 DEF Agrees, Phase, ClientTold, ServerTold, Dismisses, Answer, Bye, Outcome
    <2>3. CASE link[c] # "failed"
      <3>1. link'[c] = "accepted" /\ tell'[c] = Sides
        BY <1>1, <2>3 DEF AgreeInv, States
      <3>2. link[c] = "requested" /\ cstate[c] = "connecting"
        BY <1>1, <2>1, <2>3 DEF Agrees, Phase
      <3>3. events[ClientEp(c)] = <<>> /\ events[ServerEp(c)] = <<>>
        BY <1>1, <2>1, <3>2, Undismissed, Untold DEF Agrees, ServerTold
      <3>. QED
        BY <1>1, <1>2, <2>1, <3>1, <3>2, <3>3 DEF Agrees, Phase, ClientTold, ServerTold, Dismisses, Answer, Bye, Outcome, Sides
    <2>. QED
      BY <2>2, <2>3
  <1>5. \A d \in Clients : Agrees(d)'
    BY <1>1, <1>2, <1>4, OthersAgree DEF AgreeInv, States
  <1>6. RequestsQueued'
    BY <1>1, <1>2, SameRequests DEF AgreeInv, States
  <1>. QED
    BY <1>3, <1>5, <1>6 DEF AgreeInv

LEMMA AcceptedAgree ==
    ASSUME AgreeInv, NEW c \in Clients, Accepted(c)
    PROVE  AgreeInv'
  <1>. DEFINE q == ServerEp(c)
  <1>1. /\ EQ!ReadExpected(Server, q)
        /\ sstate' = [sstate EXCEPT ![c] = "connected"]
        /\ UNCHANGED <<listening, cstate, closing, link, tell, failures, overlapped>>
    BY DEF Accepted
  <1>2. /\ EQ!EqTypeOK' /\ EQ!Take(q) /\ events[q] # <<>>
        /\ Head(events[q]) \in QueueExpected(q)
    BY <1>1, ExpectedFacts, QueueFacts DEF AgreeInv, States, Programs
  <1>3. /\ events'[q] = Tail(events[q])
        /\ \A r \in Queues : r # q => events'[r] = events[r]
    BY <1>2, TakeFacts, QueueFacts DEF AgreeInv, States
  <1>4. Agrees(c) /\ sstate'[c] = "connected"
    BY <1>1 DEF AgreeInv, States
  <1>5. \E d \in Clients : Head(events[q]) = Event("connected", d)
    BY <1>2, QueueFacts DEF QueueExpected, ServerEp, Pep
  <1>6. events[q] \in {<<Answer(c)>>, <<Answer(c), Bye(c)>>} /\ Outcome(c) = "connected"
    <2>1. events[q] \in {<<Answer(c)>>, <<Bye(c)>>, <<Answer(c), Bye(c)>>}
      BY <1>2, <1>4 DEF Agrees, ServerTold
    <2>2. Head(events[q]) \in {Answer(c), Bye(c)}
      BY <2>1
    <2>3. Head(events[q]) # Bye(c)
      BY <1>5, EventFacts DEF Bye
    <2>4. events[q] # <<Bye(c)>>
      BY <2>3
    <2>5. Outcome(c) = "connected"
      BY <1>5, <2>2, <2>3, EventFacts DEF Answer
    <2>. QED
      BY <2>1, <2>4, <2>5
  <1>7. link[c] \notin {"refused", "failed"}
    BY <1>6 DEF Outcome
  <1>8. Agrees(c)'
    <2>1. events'[ClientEp(c)] = events[ClientEp(c)]
      BY <1>3, QueueFacts
    <2>2. \/ events'[q] = <<>>
          \/ events'[q] = <<Bye(c)>> /\ link[c] = "none" /\ cstate[c] = "shutdown"
      <3>1. CASE events[q] = <<Answer(c)>>
        BY <1>3, <3>1, Tails
      <3>2. CASE events[q] = <<Answer(c), Bye(c)>>
        BY <1>3, <1>4, <3>2, Tails DEF Agrees, ServerTold
      <3>. QED
        BY <1>6, <3>1, <3>2
    <2>3. "server" \notin tell[c] /\ sstate[c] \in {"accepting", "connected"}
      BY <1>2, <1>4 DEF Agrees, ServerTold
    <2>4. Phase(c)'
      BY <1>1, <1>4, <1>7, <2>3 DEF Agrees, Phase
    <2>5. ClientTold(c)'
      BY <1>1, <1>4, <2>1 DEF Agrees, ClientTold, Answer, Outcome
    <2>6. ServerTold(c)'
      BY <1>1, <1>4, <2>2, <2>3 DEF ServerTold, Bye
    <2>. QED
      BY <1>1, <1>4, <2>4, <2>5, <2>6 DEF Agrees, Dismisses
  <1>9. /\ States' /\ \A d \in Clients : Agrees(d)'
    <2>1. States'
      BY <1>1, <1>2 DEF AgreeInv, States
    <2>2. \A d \in Clients \ {c} : /\ events'[ClientEp(d)] = events[ClientEp(d)]
                                   /\ events'[ServerEp(d)] = events[ServerEp(d)]
      BY <1>3, QueueFacts
    <2>. QED
      BY <1>1, <1>8, <2>1, <2>2, OthersAgree DEF AgreeInv, States
  <1>10. RequestsQueued'
    <2>1. sstate[c] # "none"
      BY <1>2, <1>4 DEF Agrees, ServerTold
    <2>. QED
      BY <1>1, <1>2, <2>1, TakenRequests, QueueFacts DEF AgreeInv, States
  <1>. QED
    BY <1>9, <1>10 DEF AgreeInv

LEMMA RejectAgree ==
    ASSUME AgreeInv, NEW c \in Clients, Reject(c)
    PROVE  AgreeInv'
  <1>1. /\ sstate[c] = "handed" /\ sstate' = [sstate EXCEPT ![c] = "rejected"]
        /\ \/ link[c] = "failed" /\ UNCHANGED <<link, tell>>
           \/ /\ link[c] # "failed"
              /\ link' = [link EXCEPT ![c] = "refused"]
              /\ tell' = [tell EXCEPT ![c] = {"client"}]
        /\ UNCHANGED <<eqVars, listening, cstate, closing, failures, overlapped>>
    BY DEF Reject
  <1>2. EQ!EqTypeOK' /\ events' = events
    BY <1>1, EqTypes, EqTypesNext DEF AgreeInv, States, eqVars
  <1>3. States'
    BY <1>1, <1>2 DEF AgreeInv, States, Sides
  <1>4. Agrees(c)'
    <2>1. Agrees(c) /\ sstate'[c] = "rejected"
      BY <1>1 DEF AgreeInv, States
    <2>2. events[ServerEp(c)] = <<>> /\ "server" \notin tell[c]
      BY <1>1, <2>1 DEF Agrees, ServerTold
    <2>3. CASE link[c] = "failed"
      BY <1>1, <1>2, <2>1, <2>2, <2>3 DEF Agrees, Phase, ClientTold, ServerTold, Dismisses, Answer, Bye, Outcome
    <2>4. CASE link[c] # "failed"
      <3>1. link'[c] = "refused" /\ tell'[c] = {"client"}
        BY <1>1, <2>4 DEF AgreeInv, States
      <3>2. link[c] = "requested" /\ cstate[c] = "connecting"
        BY <1>1, <2>1, <2>4 DEF Agrees, Phase
      <3>3. events[ClientEp(c)] = <<>>
        BY <1>1, <2>1, <3>2, Undismissed, Untold
      <3>. QED
        BY <1>1, <1>2, <2>1, <2>2, <3>1, <3>2, <3>3 DEF Agrees, Phase, ClientTold, ServerTold, Dismisses, Answer, Bye, Outcome
    <2>. QED
      BY <2>3, <2>4
  <1>5. \A d \in Clients : Agrees(d)'
    BY <1>1, <1>2, <1>4, OthersAgree DEF AgreeInv, States
  <1>6. RequestsQueued'
    BY <1>1, <1>2, SameRequests DEF AgreeInv, States
  <1>. QED
    BY <1>3, <1>5, <1>6 DEF AgreeInv

LEMMA ConnectAgree ==
    ASSUME AgreeInv, NEW c \in Clients, Connect(c)
    PROVE  AgreeInv'
  <1>1. /\ cstate[c] = "new" /\ cstate' = [cstate EXCEPT ![c] = "connecting"]
        /\ link' = [link EXCEPT ![c] = "asked"]
        /\ EQ!AsyncRead(ClientEp(c))
        /\ UNCHANGED <<listening, sstate, closing, tell, failures, overlapped>>
    BY DEF Connect
  <1>2. EQ!EqTypeOK' /\ events' = events
    BY <1>1, AsyncReadFacts, QueueFacts DEF AgreeInv, States
  <1>3. States'
    BY <1>1, <1>2 DEF AgreeInv, States
  <1>4. Agrees(c) /\ cstate'[c] = "connecting" /\ link'[c] = "asked"
    BY <1>1 DEF AgreeInv, States
  <1>5. /\ link[c] = "none" /\ sstate[c] = "none" /\ tell[c] = {}
        /\ events[ClientEp(c)] = <<>> /\ events[ServerEp(c)] = <<>>
    <2>1. /\ link[c] = "none" /\ sstate[c] = "none" /\ tell[c] = {}
          /\ events[ServerEp(c)] = <<>>
      BY <1>1, <1>4 DEF Agrees, Phase, ServerTold
    <2>. QED
      BY <1>4, <2>1, Undismissed, Untold
  <1>6. Agrees(c)'
    BY <1>1, <1>2, <1>4, <1>5 DEF Agrees, Phase, ClientTold, ServerTold, Dismisses, Answer, Bye, Outcome
  <1>7. \A d \in Clients : Agrees(d)'
    BY <1>1, <1>2, <1>6, OthersAgree DEF AgreeInv, States
  <1>8. RequestsQueued'
    BY <1>1, <1>2, <1>5, SameRequests DEF AgreeInv, States
  <1>. QED
    BY <1>3, <1>7, <1>8 DEF AgreeInv

LEMMA ConnectedAgree ==
    ASSUME AgreeInv, NEW c \in Clients, Connected(c)
    PROVE  AgreeInv'
  <1>. DEFINE q == ClientEp(c)
  <1>1. /\ EQ!ReadExpected(c, q)
        /\ cstate' = [cstate EXCEPT ![c] =
              IF Head(events[q]) = Event("connected", c) THEN "connected" ELSE "refused"]
        /\ UNCHANGED <<listening, sstate, closing, link, tell, failures, overlapped>>
    BY DEF Connected
  <1>2. /\ EQ!EqTypeOK' /\ EQ!Take(q) /\ events[q] # <<>>
        /\ Head(events[q]) \in QueueExpected(q)
    BY <1>1, ExpectedFacts, QueueFacts DEF AgreeInv, States, Programs
  <1>3. /\ events'[q] = Tail(events[q])
        /\ \A r \in Queues : r # q => events'[r] = events[r]
    BY <1>2, TakeFacts, QueueFacts DEF AgreeInv, States
  <1>4. Agrees(c)
    BY DEF AgreeInv
  <1>5. /\ events[q] \in {<<Answer(c)>>, <<Answer(c), Bye(c)>>}
        /\ Head(events[q]) = Answer(c) /\ "client" \notin tell[c]
        /\ cstate[c] = "connecting" /\ link[c] \in {"accepted", "refused", "failed"}
    <2>1. Bye(c) \notin QueueExpected(q)
      BY EventFacts, QueueFacts DEF QueueExpected, Bye
    <2>2. Head(<<Bye(c)>>) = Bye(c)
      OBVIOUS
    <2>3. events[q] \in {<<Answer(c)>>, <<Answer(c), Bye(c)>>}
      BY <1>2, <1>4, <2>1, <2>2 DEF Agrees, ClientTold
    <2>4. events[q] \notin {<<>>, <<Bye(c)>>}
      BY <2>3, AnswerFacts
    <2>5. Head(events[q]) = Answer(c)
      BY <2>3
    <2>. QED
      BY <1>4, <2>3, <2>4, <2>5 DEF Agrees, ClientTold
  <1>6. link[c] # "failed"
    <2>1. \E d \in Clients : Answer(c) \in {Event("connected", d), Event("connrefused", d)}
      <3>1. Answer(c) \in QueueExpected(q) /\ q # Pep
        BY <1>2, <1>5, QueueFacts
      <3>2. \A e \in QueueExpected(q) :
               \E d \in Clients : e \in {Event("connected", d), Event("connrefused", d)}
        BY <3>1 DEF QueueExpected
      <3>. QED
        BY <3>1, <3>2
    <2>2. Outcome(c) \in {"connected", "connrefused"}
      BY <2>1, EventFacts DEF Answer
    <2>. QED
      BY <2>2 DEF Outcome
  <1>7. cstate'[c] = IF link[c] = "accepted" THEN "connected" ELSE "refused"
    <2>1. Head(events[q]) = Answer(c)
      BY <1>5
    <2>2. Answer(c) = Event("connected", c) <=> link[c] = "accepted"
      BY <1>5, <1>6, EventFacts DEF Answer, Outcome
    <2>. QED
      BY <1>1, <2>1, <2>2 DEF AgreeInv, States
  <1>8. Agrees(c)'
    <2>1. /\ \/ events'[q] = <<>>
             \/ events'[q] = <<Bye(c)>> /\ closing[c] = "told"
          /\ events'[ServerEp(c)] = events[ServerEp(c)]
      <3>1. events'[ServerEp(c)] = events[ServerEp(c)]
        BY <1>3, QueueFacts
      <3>2. CASE closing[c] = "told"
        BY <1>3, <1>5, <3>1, <3>2, Tails
      <3>3. CASE closing[c] # "told"
        <4>1. events[q] = <<Answer(c)>>
          BY <1>2, <1>4, <3>3, Untold
        <4>. QED
          BY <1>3, <3>1, <4>1, Tails
      <3>. QED
        BY <3>2, <3>3
    <2>2. Phase(c)'
      BY <1>1, <1>4, <1>5, <1>6, <1>7 DEF Agrees, Phase
    <2>3. ClientTold(c)'
      BY <1>1, <1>5, <2>1 DEF ClientTold, Bye
    <2>4. ServerTold(c)'
      BY <1>1, <1>4, <1>5, <2>1 DEF Agrees, ServerTold, Answer, Bye, Outcome
    <2>5. Dismisses(c)'
      BY <1>1, <1>4 DEF Agrees, Dismisses
    <2>. QED
      BY <2>2, <2>3, <2>4, <2>5 DEF Agrees
  <1>9. /\ States' /\ \A d \in Clients : Agrees(d)'
    <2>1. States'
      BY <1>1, <1>2 DEF AgreeInv, States
    <2>2. \A d \in Clients \ {c} : /\ events'[ClientEp(d)] = events[ClientEp(d)]
                                   /\ events'[ServerEp(d)] = events[ServerEp(d)]
      BY <1>3, QueueFacts
    <2>. QED
      BY <1>1, <1>8, <2>1, <2>2, OthersAgree DEF AgreeInv, States
  <1>10. RequestsQueued'
    BY <1>1, <1>2, TakenRequests, QueueFacts
  <1>. QED
    BY <1>9, <1>10 DEF AgreeInv

LEMMA ShutdownAgree ==
    ASSUME AgreeInv, NEW c \in Clients, Shutdown(c)
    PROVE  AgreeInv'
  <1>1. /\ cstate[c] = "connected" /\ cstate' = [cstate EXCEPT ![c] = "shutdown"]
        /\ link' = [link EXCEPT ![c] = "shutdown"]
        /\ UNCHANGED <<eqVars, listening, sstate, closing, tell, failures, overlapped>>
    BY DEF Shutdown
  <1>2. EQ!EqTypeOK' /\ events' = events
    BY <1>1, EqTypes, EqTypesNext DEF AgreeInv, States, eqVars
  <1>3. States'
    BY <1>1, <1>2 DEF AgreeInv, States
  <1>4. Agrees(c) /\ cstate'[c] = "shutdown" /\ link'[c] = "shutdown"
    BY <1>1 DEF AgreeInv, States
  <1>5. /\ link[c] = "accepted" /\ "client" \notin tell[c]
        /\ \/ events[ClientEp(c)] = <<>>
           \/ events[ClientEp(c)] = <<Bye(c)>> /\ closing[c] = "told"
    BY <1>1, <1>4, Answered DEF Agrees, Phase
  <1>6. Agrees(c)'
    BY <1>1, <1>2, <1>4, <1>5 DEF Agrees, Phase, ClientTold, ServerTold, Dismisses, Answer, Bye, Outcome
  <1>7. \A d \in Clients : Agrees(d)'
    BY <1>1, <1>2, <1>6, OthersAgree DEF AgreeInv, States
  <1>8. RequestsQueued'
    BY <1>1, <1>2, <1>5, SameRequests DEF AgreeInv, States
  <1>. QED
    BY <1>3, <1>7, <1>8 DEF AgreeInv

LEMMA ArriveAgree ==
    ASSUME AgreeInv, NEW c \in Clients, Arrive(c)
    PROVE  AgreeInv'
  <1>1. link[c] = "asked" /\ UNCHANGED <<listening, cstate, sstate, closing, failures, overlapped>>
    BY DEF Arrive
  <1>2. Agrees(c) /\ States
    BY DEF AgreeInv
  <1>3. /\ cstate[c] = "connecting" /\ sstate[c] = "none" /\ tell[c] = {}
        /\ events[ClientEp(c)] = <<>> /\ events[ServerEp(c)] = <<>>
    <2>1. /\ cstate[c] = "connecting" /\ sstate[c] = "none" /\ tell[c] = {}
          /\ events[ServerEp(c)] = <<>>
      BY <1>1, <1>2 DEF Agrees, Phase, ServerTold
    <2>. QED
      BY <1>1, <1>2, <2>1, Undismissed, Untold
  <1>4. CASE /\ EQ!Deliver(Pep, Event("connreq", c))
             /\ link' = [link EXCEPT ![c] = "requested"] /\ UNCHANGED tell
    <2>1. Event("connreq", c) \in Events
      BY EventFacts DEF Kinds
    <2>2. /\ EQ!EqTypeOK' /\ events'[Pep] = Append(events[Pep], Event("connreq", c))
          /\ \A r \in Queues : r # Pep => events'[r] = events[r]
      BY <1>2, <1>4, <2>1, DeliverFacts, QueueFacts DEF States
    <2>3. States' /\ link'[c] = "requested"
      BY <1>1, <1>2, <1>4, <2>2 DEF States
    <2>4. \A d \in Clients : /\ events'[ClientEp(d)] = events[ClientEp(d)]
                             /\ events'[ServerEp(d)] = events[ServerEp(d)]
      BY <2>2, QueueFacts
    <2>5. Agrees(c)'
      BY <1>1, <1>2, <1>3, <1>4, <2>3, <2>4 DEF Agrees, Phase, ClientTold, ServerTold, Dismisses, Answer, Bye, Outcome
    <2>6. \A d \in Clients : Agrees(d)'
      BY <1>1, <1>2, <1>4, <2>4, <2>5, OthersAgree DEF States
    <2>7. RequestsQueued'
      <3>. DEFINE s == events[Pep]
      <3>1. s \in Seq(Events) /\ RequestsQueued
        BY <1>2, EqTypes, QueueFacts DEF States, AgreeInv
      <3>2. /\ DOMAIN s = 1 .. Len(s) /\ Len(s) \in Nat
            /\ DOMAIN events'[Pep] = 1 .. Len(s) + 1
            /\ \A i \in 1 .. Len(s) : events'[Pep][i] = s[i]
            /\ events'[Pep][Len(s) + 1] = Event("connreq", c)
        BY <2>1, <2>2, <3>1
      <3>3. \A i \in 1 .. Len(s) : s[i] # Event("connreq", c)
        BY <1>1, <3>1, <3>2, EventFacts DEF RequestsQueued
      <3>4. ASSUME NEW i \in DOMAIN events'[Pep]
            PROVE  \E d \in Clients : /\ events'[Pep][i] = Event("connreq", d)
                                      /\ link'[d] \in {"requested", "failed"}
                                      /\ sstate'[d] = "none"
        <4>1. CASE i = Len(s) + 1
          BY <1>1, <1>3, <2>3, <3>2, <4>1
        <4>2. CASE i \in 1 .. Len(s)
          <5>1. PICK d \in Clients : /\ s[i] = Event("connreq", d)
                                     /\ link[d] \in {"requested", "failed"}
                                     /\ sstate[d] = "none"
            BY <3>1, <3>2, <4>2 DEF RequestsQueued
          <5>2. d # c
            BY <1>1, <5>1
          <5>3. link'[d] = link[d]
            BY <1>2, <1>4, <5>2 DEF States
          <5>. QED
            BY <1>1, <3>2, <4>2, <5>1, <5>3
        <4>. QED
          BY <3>2, <4>1, <4>2
      <3>5. ASSUME NEW i \in DOMAIN events'[Pep], NEW j \in DOMAIN events'[Pep],
                   events'[Pep][i] = events'[Pep][j]
            PROVE  i = j
        <4>1. CASE i \in 1 .. Len(s) /\ j \in 1 .. Len(s)
          BY <3>1, <3>2, <3>5, <4>1 DEF RequestsQueued
        <4>2. CASE i = Len(s) + 1 /\ j \in 1 .. Len(s)
          BY <3>2, <3>3, <3>5, <4>2
        <4>3. CASE j = Len(s) + 1 /\ i \in 1 .. Len(s)
          BY <3>2, <3>3, <3>5, <4>3
        <4>. QED
          BY <3>2, <4>1, <4>2, <4>3
      <3>. QED
        BY <3>4, <3>5 DEF RequestsQueued
    <2>. QED
      BY <2>3, <2>6, <2>7 DEF AgreeInv
  <1>5. CASE /\ link' = [link EXCEPT ![c] = "refused"]
             /\ tell' = [tell EXCEPT ![c] = {"client"}] /\ UNCHANGED eqVars
    <2>1. EQ!EqTypeOK' /\ events' = events
      BY <1>2, <1>5, EqTypes, EqTypesNext DEF States, eqVars
    <2>2. States' /\ link'[c] = "refused" /\ tell'[c] = {"client"}
      BY <1>1, <1>2, <1>5, <2>1 DEF States, Sides
    <2>3. Agrees(c)'
      BY <1>1, <1>2, <1>3, <2>1, <2>2 DEF Agrees, Phase, ClientTold, ServerTold, Dismisses, Answer, Bye, Outcome
    <2>4. \A d \in Clients : Agrees(d)'
      BY <1>1, <1>2, <1>5, <2>1, <2>3, OthersAgree DEF States
    <2>5. RequestsQueued'
      BY <1>1, <1>2, <1>5, <2>1, SameRequests DEF AgreeInv, States
    <2>. QED
      BY <2>2, <2>4, <2>5 DEF AgreeInv
  <1>. QED
    BY <1>4, <1>5 DEF Arrive

(* What the provider puts into the queue of one side of the connection.     *)
LEMMA DeliverAgree ==
    ASSUME AgreeInv, NEW c \in Clients, NEW q \in {ClientEp(c), ServerEp(c)},
           NEW k \in Kinds, EQ!Deliver(q, Event(k, c))
    PROVE  /\ EQ!EqTypeOK'
           /\ events'[q] = Append(events[q], Event(k, c))
           /\ \A r \in Queues : r # q => events'[r] = events[r]
           /\ events'[Pep] = events[Pep]
           /\ \A d \in Clients \ {c} : /\ events'[ClientEp(d)] = events[ClientEp(d)]
                                       /\ events'[ServerEp(d)] = events[ServerEp(d)]
  <1>1. /\ EQ!EqTypeOK' /\ events'[q] = Append(events[q], Event(k, c))
        /\ \A r \in Queues : r # q => events'[r] = events[r]
    BY DeliverFacts, EventFacts, QueueFacts DEF AgreeInv, States
  <1>. QED
    BY <1>1, QueueFacts

LEMMA OutcomeKind ==
    ASSUME NEW c
    PROVE  Outcome(c) \in Kinds
  BY DEF Outcome, Kinds

LEMMA TellClientAgree ==
    ASSUME AgreeInv, NEW c \in Clients, TellClient(c)
    PROVE  AgreeInv'
  <1>1. /\ "client" \in tell[c] /\ EQ!Deliver(ClientEp(c), Answer(c))
        /\ tell' = [tell EXCEPT ![c] = tell[c] \ {"client"}]
        /\ UNCHANGED <<listening, cstate, sstate, closing, link, failures, overlapped>>
    BY DEF TellClient, Answer
  <1>2. Agrees(c) /\ States
    BY DEF AgreeInv
  <1>3. /\ events[ClientEp(c)] = <<>> /\ cstate[c] = "connecting"
        /\ link[c] \in {"accepted", "refused", "failed"}
    <2>1. closing[c] # "told" /\ cstate[c] = "connecting"
      BY <1>1, <1>2 DEF Agrees, Dismisses, ClientTold
    <2>. QED
      BY <1>1, <1>2, <2>1, Untold DEF Agrees, Phase
  <1>4. /\ EQ!EqTypeOK' /\ events'[ClientEp(c)] = Append(events[ClientEp(c)], Answer(c))
        /\ \A r \in Queues : r # ClientEp(c) => events'[r] = events[r]
        /\ events'[Pep] = events[Pep]
        /\ \A d \in Clients \ {c} : /\ events'[ClientEp(d)] = events[ClientEp(d)]
                                    /\ events'[ServerEp(d)] = events[ServerEp(d)]
    BY <1>1, DeliverAgree, OutcomeKind DEF Answer
  <1>5. States' /\ tell'[c] = tell[c] \ {"client"}
    BY <1>1, <1>2, <1>4 DEF States
  <1>6. Agrees(c)'
    <2>1. /\ events'[ClientEp(c)] = <<Answer(c)>>
          /\ events'[ServerEp(c)] = events[ServerEp(c)]
      BY <1>3, <1>4, QueueFacts
    <2>2. Phase(c)'
      BY <1>1, <1>2, <1>3, <1>5 DEF Agrees, Phase
    <2>3. ClientTold(c)'
      BY <1>1, <1>3, <1>5, <2>1 DEF ClientTold, Answer, Outcome
    <2>4. ServerTold(c)'
      BY <1>1, <1>2, <1>5, <2>1 DEF Agrees, ServerTold, Answer, Bye, Outcome
    <2>5. Dismisses(c)'
      BY <1>1, <1>2, <1>5 DEF Agrees, Dismisses
    <2>. QED
      BY <2>2, <2>3, <2>4, <2>5 DEF Agrees
  <1>7. \A d \in Clients : Agrees(d)'
    BY <1>1, <1>2, <1>4, <1>6, OthersAgree DEF States
  <1>8. RequestsQueued'
    BY <1>1, <1>4, SameRequests DEF AgreeInv
  <1>. QED
    BY <1>5, <1>7, <1>8 DEF AgreeInv

LEMMA TellServerAgree ==
    ASSUME AgreeInv, NEW c \in Clients, TellServer(c)
    PROVE  AgreeInv'
  <1>1. /\ "server" \in tell[c] /\ EQ!Deliver(ServerEp(c), Answer(c))
        /\ tell' = [tell EXCEPT ![c] = tell[c] \ {"server"}]
        /\ UNCHANGED <<listening, cstate, sstate, closing, link, failures, overlapped>>
    BY DEF TellServer, Answer
  <1>2. Agrees(c) /\ States
    BY DEF AgreeInv
  <1>3. events[ServerEp(c)] = <<>> /\ sstate[c] = "accepting"
    BY <1>1, <1>2 DEF Agrees, ServerTold
  <1>4. /\ EQ!EqTypeOK' /\ events'[ServerEp(c)] = Append(events[ServerEp(c)], Answer(c))
        /\ \A r \in Queues : r # ServerEp(c) => events'[r] = events[r]
        /\ events'[Pep] = events[Pep]
        /\ \A d \in Clients \ {c} : /\ events'[ClientEp(d)] = events[ClientEp(d)]
                                    /\ events'[ServerEp(d)] = events[ServerEp(d)]
    BY <1>1, DeliverAgree, OutcomeKind DEF Answer
  <1>5. States' /\ tell'[c] = tell[c] \ {"server"}
    BY <1>1, <1>2, <1>4 DEF States
  <1>6. Agrees(c)'
    <2>1. /\ events'[ServerEp(c)] = <<Answer(c)>>
          /\ events'[ClientEp(c)] = events[ClientEp(c)]
      BY <1>3, <1>4, QueueFacts
    <2>2. Phase(c)'
      BY <1>1, <1>2, <1>5 DEF Agrees, Phase
    <2>3. ClientTold(c)'
      BY <1>1, <1>2, <1>5, <2>1 DEF Agrees, ClientTold, Answer, Bye, Outcome
    <2>4. ServerTold(c)'
      BY <1>1, <1>3, <1>5, <2>1 DEF ServerTold, Answer, Bye, Outcome
    <2>5. Dismisses(c)'
      BY <1>1, <1>2, <1>5 DEF Agrees, Dismisses
    <2>. QED
      BY <2>2, <2>3, <2>4, <2>5 DEF Agrees
  <1>7. \A d \in Clients : Agrees(d)'
    BY <1>1, <1>2, <1>4, <1>6, OthersAgree DEF States
  <1>8. RequestsQueued'
    BY <1>1, <1>4, SameRequests DEF AgreeInv
  <1>. QED
    BY <1>5, <1>7, <1>8 DEF AgreeInv

LEMMA ArriveShutdownAgree ==
    ASSUME AgreeInv, NEW c \in Clients, ArriveShutdown(c)
    PROVE  AgreeInv'
  <1>1. /\ link[c] = "shutdown" /\ tell[c] = {} /\ EQ!Deliver(ServerEp(c), Bye(c))
        /\ link' = [link EXCEPT ![c] = "none"]
        /\ UNCHANGED <<listening, cstate, sstate, closing, tell, failures, overlapped>>
    BY DEF ArriveShutdown, Bye
  <1>2. Agrees(c) /\ States
    BY DEF AgreeInv
  <1>3. /\ events[ServerEp(c)] \in {<<>>, <<Answer(c)>>}
        /\ cstate[c] = "shutdown" /\ sstate[c] \in {"accepting", "connected"}
        /\ \/ events[ClientEp(c)] = <<>>
           \/ events[ClientEp(c)] = <<Bye(c)>> /\ closing[c] = "told"
    <2>1. cstate[c] = "shutdown" /\ sstate[c] \in {"accepting", "connected"}
      BY <1>1, <1>2 DEF Agrees, Phase
    <2>. QED
      BY <1>1, <1>2, <2>1, Answered DEF Agrees, ServerTold
  <1>4. /\ EQ!EqTypeOK' /\ events'[ServerEp(c)] = Append(events[ServerEp(c)], Bye(c))
        /\ \A r \in Queues : r # ServerEp(c) => events'[r] = events[r]
        /\ events'[Pep] = events[Pep]
        /\ \A d \in Clients \ {c} : /\ events'[ClientEp(d)] = events[ClientEp(d)]
                                    /\ events'[ServerEp(d)] = events[ServerEp(d)]
    BY <1>1, DeliverAgree DEF Bye, Kinds
  <1>5. States' /\ link'[c] = "none"
    BY <1>1, <1>2, <1>4 DEF States
  <1>6. Agrees(c)'
    <2>1. /\ events'[ServerEp(c)] \in {<<Bye(c)>>, <<Answer(c), Bye(c)>>}
          /\ events'[ClientEp(c)] = events[ClientEp(c)]
      <3>1. events'[ClientEp(c)] = events[ClientEp(c)]
        BY <1>4, QueueFacts
      <3>2. /\ Append(<<>>, Bye(c)) = <<Bye(c)>>
            /\ Append(<<Answer(c)>>, Bye(c)) = <<Answer(c), Bye(c)>>
        BY Appends
      <3>3. CASE events[ServerEp(c)] = <<>>
        BY <1>4, <3>1, <3>2, <3>3
      <3>4. CASE events[ServerEp(c)] = <<Answer(c)>>
        BY <1>4, <3>1, <3>2, <3>4
      <3>. QED
        BY <1>3, <3>3, <3>4
    <2>2. Answer(c)' = Answer(c) /\ Bye(c)' = Bye(c)
      BY <1>1, <1>5 DEF Answer, Bye, Outcome
    <2>3. Phase(c)'
      BY <1>1, <1>3, <1>5 DEF Phase
    <2>4. ClientTold(c)'
      BY <1>1, <1>3, <2>1, <2>2 DEF ClientTold
    <2>5. ServerTold(c)'
      BY <1>1, <1>3, <1>5, <2>1, <2>2 DEF ServerTold
    <2>6. Dismisses(c)'
      BY <1>1, <1>2 DEF Agrees, Dismisses
    <2>. QED
      BY <2>3, <2>4, <2>5, <2>6 DEF Agrees
  <1>7. \A d \in Clients : Agrees(d)'
    BY <1>1, <1>2, <1>4, <1>6, OthersAgree DEF States
  <1>8. RequestsQueued'
    BY <1>1, <1>2, <1>4, SameRequests DEF AgreeInv, States
  <1>. QED
    BY <1>5, <1>7, <1>8 DEF AgreeInv

LEMMA ServerShutdownAgree ==
    ASSUME AgreeInv, NEW c \in Clients, ServerShutdown(c)
    PROVE  AgreeInv'
  <1>1. /\ sstate[c] = "connected" /\ closing[c] = "no"
        /\ closing' = [closing EXCEPT ![c] = "sent"]
        /\ UNCHANGED <<eqVars, listening, cstate, sstate, link, tell, failures,
                       overlapped>>
    BY DEF ServerShutdown
  <1>2. EQ!EqTypeOK' /\ events' = events
    BY <1>1, EqTypes, EqTypesNext DEF AgreeInv, States, eqVars
  <1>3. States'
    BY <1>1, <1>2 DEF AgreeInv, States
  <1>4. Agrees(c) /\ closing'[c] = "sent"
    BY <1>1 DEF AgreeInv, States
  <1>5. Agrees(c)'
    <2>1. Phase(c)'
      BY <1>1, <1>4 DEF Agrees, Phase
    <2>2. ClientTold(c)'
      BY <1>1, <1>2, <1>4 DEF Agrees, ClientTold, Answer, Bye, Outcome
    <2>3. ServerTold(c)'
      BY <1>1, <1>2, <1>4 DEF Agrees, ServerTold, Answer, Bye, Outcome
    <2>4. Dismisses(c)'
      BY <1>1, <1>4 DEF Dismisses
    <2>. QED
      BY <2>1, <2>2, <2>3, <2>4 DEF Agrees
  <1>6. \A d \in Clients : Agrees(d)'
    BY <1>1, <1>2, <1>5, OthersAgree DEF AgreeInv, States
  <1>7. RequestsQueued'
    BY <1>1, <1>2, SameRequests DEF AgreeInv
  <1>. QED
    BY <1>3, <1>6, <1>7 DEF AgreeInv

LEMMA ArriveServerShutdownAgree ==
    ASSUME AgreeInv, NEW c \in Clients, ArriveServerShutdown(c)
    PROVE  AgreeInv'
  <1>. DEFINE q == ClientEp(c)
  <1>1. /\ closing[c] = "sent" /\ "client" \notin tell[c] /\ EQ!Deliver(q, Bye(c))
        /\ closing' = [closing EXCEPT ![c] = "told"]
        /\ UNCHANGED <<listening, cstate, sstate, link, tell, failures, overlapped>>
    BY DEF ArriveServerShutdown, Bye
  <1>2. Agrees(c) /\ States
    BY DEF AgreeInv
  <1>3. /\ events[q] \in {<<>>, <<Answer(c)>>} /\ sstate[c] = "connected"
        /\ events[q] # <<>> => /\ cstate[c] = "connecting"
                              /\ link[c] \in {"accepted", "refused", "failed"}
    BY <1>1, <1>2, Untold DEF Agrees, Dismisses
  <1>4. /\ EQ!EqTypeOK' /\ events'[q] = Append(events[q], Bye(c))
        /\ \A r \in Queues : r # q => events'[r] = events[r]
        /\ events'[Pep] = events[Pep]
        /\ \A d \in Clients \ {c} : /\ events'[ClientEp(d)] = events[ClientEp(d)]
                                    /\ events'[ServerEp(d)] = events[ServerEp(d)]
    BY <1>1, DeliverAgree DEF Bye, Kinds
  <1>5. States' /\ closing'[c] = "told"
    BY <1>1, <1>2, <1>4 DEF States
  <1>6. Agrees(c)'
    <2>1. /\ Append(<<>>, Bye(c)) = <<Bye(c)>>
          /\ Append(<<Answer(c)>>, Bye(c)) = <<Answer(c), Bye(c)>>
          /\ events'[ServerEp(c)] = events[ServerEp(c)]
      BY <1>4, QueueFacts, Appends
    <2>2. \/ events'[q] = <<Bye(c)>>
          \/ /\ events'[q] = <<Answer(c), Bye(c)>> /\ cstate[c] = "connecting"
             /\ link[c] \in {"accepted", "refused", "failed"}
      BY <1>3, <1>4, <2>1
    <2>3. Answer(c)' = Answer(c) /\ Bye(c)' = Bye(c)
      BY <1>1 DEF Answer, Bye, Outcome
    <2>4. Phase(c)'
      BY <1>1, <1>2 DEF Agrees, Phase
    <2>5. ClientTold(c)'
      BY <1>1, <1>5, <2>2, <2>3 DEF ClientTold
    <2>6. ServerTold(c)'
      BY <1>1, <1>2, <2>1, <2>3 DEF Agrees, ServerTold
    <2>7. Dismisses(c)'
      BY <1>1, <1>3, <1>5 DEF Dismisses
    <2>. QED
      BY <2>4, <2>5, <2>6, <2>7 DEF Agrees
  <1>7. \A d \in Clients : Agrees(d)'
    BY <1>1, <1>2, <1>4, <1>6, OthersAgree DEF States
  <1>8. RequestsQueued'
    BY <1>1, <1>4, SameRequests DEF AgreeInv
  <1>. QED
    BY <1>5, <1>7, <1>8 DEF AgreeInv

LEMMA BreakAgree ==
    ASSUME AgreeInv, NEW c \in Clients, Break(c)
    PROVE  AgreeInv'
  <1>1. /\ failures < MaxFailures /\ failures' = failures + 1
        /\ \/ link[c] \in {"asked", "requested"}
           \/ link[c] = "accepted" /\ tell[c] = Sides
        /\ link' = [link EXCEPT ![c] = "failed"]
        /\ tell' = [tell EXCEPT ![c] = IF sstate[c] = "accepting" THEN Sides
                                                                  ELSE {"client"}]
        /\ UNCHANGED <<eqVars, listening, cstate, sstate, closing, overlapped>>
    BY DEF Break
  <1>2. EQ!EqTypeOK' /\ events' = events
    BY <1>1, EqTypes, EqTypesNext DEF AgreeInv, States, eqVars
  <1>3. failures' \in 0 .. MaxFailures
    BY <1>1, ConnectionAssumption DEF AgreeInv, States
  <1>4. States'
    BY <1>1, <1>2, <1>3 DEF AgreeInv, States, Sides
  <1>5. /\ Agrees(c) /\ link'[c] = "failed"
        /\ tell'[c] = IF sstate[c] = "accepting" THEN Sides ELSE {"client"}
    BY <1>1 DEF AgreeInv, States
  <1>6. /\ cstate[c] = "connecting" /\ sstate[c] # "connected"
        /\ events[ClientEp(c)] = <<>> /\ events[ServerEp(c)] = <<>>
    <2>1. link[c] \in {"asked", "requested"} \/ "server" \in tell[c]
      BY <1>1 DEF Sides
    <2>2. sstate[c] # "connected" /\ events[ServerEp(c)] = <<>>
      BY <1>1, <1>5, <2>1 DEF Agrees, Phase, ServerTold
    <2>3. cstate[c] = "connecting"
      BY <1>1, <1>5 DEF Agrees, Phase, ClientTold, Sides
    <2>. QED
      BY <1>1, <1>5, <2>2, <2>3, Undismissed, Untold DEF Sides
  <1>7. Agrees(c)'
    BY <1>1, <1>2, <1>5, <1>6 DEF Agrees, Phase, ClientTold, ServerTold, Dismisses, Answer, Bye, Outcome, Sides
  <1>8. \A d \in Clients : Agrees(d)'
    BY <1>1, <1>2, <1>7, OthersAgree DEF AgreeInv, States
  <1>9. RequestsQueued'
    BY <1>1, <1>2, SameRequests DEF AgreeInv, States
  <1>. QED
    BY <1>4, <1>8, <1>9 DEF AgreeInv

(* The steps of the io_contexts that concern no connection. *)
LEMMA ProceedAgree ==
    ASSUME AgreeInv, NEW p \in Programs, Proceed(p)
    PROVE  AgreeInv'
  <1>1. UNCHANGED <<listening, cstate, sstate, closing, link, tell, failures, overlapped>>
    BY DEF Proceed
  <1>2. EQ!EqTypeOK /\ failures' \in 0 .. MaxFailures
    BY <1>1 DEF AgreeInv, States
  <1>3. CASE EQ!RunOne(p) \/ EQ!HandlerReturns(p)
    BY <1>1, <1>2, <1>3, RunFacts, ReturnFacts, QuietAgreeInv DEF AgreeInv, States
  <1>4. ASSUME NEW q \in QueuesOf(p),
               EQ!ReadUnexpected(p, q) \/ EQ!ReadTimesOut(p, q) \/ EQ!DescriptorReady(q)
        PROVE  AgreeInv'
    <2>1. q \in Queues /\ QueueOwner(q) = p
      BY DEF QueuesOf, Queues
    <2>2. CASE EQ!ReadUnexpected(p, q)
      <3>1. EQ!EqTypeOK' /\ EQ!Take(q) /\ events[q] # <<>>
        BY <1>2, <2>1, <2>2, ThrowingSteps, ThrownFacts DEF Thrown
      <3>. QED
        BY <1>1, <1>2, <2>1, <3>1, TakenAgreeInv
    <2>3. CASE EQ!ReadTimesOut(p, q)
      <3>1. EQ!EqTypeOK' /\ events' = events
        BY <1>2, <2>1, <2>3, ThrowingSteps, ThrownFacts DEF Thrown
      <3>. QED
        BY <1>1, <1>2, <3>1, QuietAgreeInv DEF AgreeInv, States
    <2>4. CASE EQ!DescriptorReady(q)
      BY <1>1, <1>2, <2>1, <2>4, ReadyFacts, QuietAgreeInv DEF AgreeInv, States
    <2>. QED
      BY <1>4, <2>2, <2>3, <2>4
  <1>. QED
    BY <1>3, <1>4 DEF Proceed

LEMMA InfoThrowsAgree ==
    ASSUME AgreeInv, NEW p \in Programs, InfoThrows(p)
    PROVE  AgreeInv'
  <1>1. PICK q \in QueuesOf(p) : EQ!ReadInfoThrows(p, q)
    BY DEF InfoThrows
  <1>2. /\ UNCHANGED <<listening, cstate, sstate, closing, link, tell, overlapped>>
        /\ failures' = failures + 1 /\ failures < MaxFailures
    BY DEF InfoThrows
  <1>3. EQ!EqTypeOK /\ failures' \in 0 .. MaxFailures
    BY <1>2, ConnectionAssumption DEF AgreeInv, States
  <1>4. q \in Queues /\ QueueOwner(q) = p
    BY DEF QueuesOf, Queues
  <1>5. EQ!EqTypeOK' /\ EQ!Take(q) /\ events[q] # <<>>
    BY <1>1, <1>3, <1>4, ThrowingSteps, ThrownFacts DEF Thrown
  <1>. QED
    BY <1>2, <1>3, <1>4, <1>5, TakenAgreeInv

LEMMA InitAgree ==
    ASSUME Init
    PROVE  AgreeInv
  <1>1. States
    <2>1. EQ!EqTypeOK
      <3>1. <<>> \in Seq(Events) /\ <<>> \in Seq(Queues) /\ <<>> \in Seq(EQ!Frames)
        OBVIOUS
      <3>2. /\ events = [q \in Queues |-> <<>>]
            /\ signalled = [q \in Queues |-> FALSE]
            /\ waiting = [q \in Queues |-> 0]
            /\ ready = [p \in Programs |-> <<>>]
            /\ stack = [p \in Programs |-> <<>>]
            /\ thrown = [p \in Programs |-> {}]
        BY DEF Init, EQ!EqInit, Queues, Programs
      <3>. QED
        BY <3>1, <3>2, EqTypes
    <2>2. failures \in 0 .. MaxFailures
      BY ConnectionAssumption DEF Init
    <2>. QED
      BY <2>1, <2>2 DEF Init, States
  <1>2. \A c \in Clients : /\ events[ClientEp(c)] = <<>> /\ events[ServerEp(c)] = <<>>
                           /\ events[Pep] = <<>>
    BY QueueFacts DEF Init, EQ!EqInit, Queues
  <1>3. \A c \in Clients : Agrees(c)
    BY <1>2 DEF Init, Agrees, Phase, ClientTold, ServerTold, Dismisses
  <1>4. events[Pep] = <<>>
    BY QueueFacts DEF Init, EQ!EqInit, Queues
  <1>5. RequestsQueued
    BY <1>4 DEF RequestsQueued
  <1>. QED
    BY <1>1, <1>3, <1>5 DEF AgreeInv

LEMMA StepAgree ==
    ASSUME AgreeInv, [Next]_vars
    PROVE  AgreeInv'
  <1>1. CASE UNCHANGED vars
    <2>1. EQ!EqTypeOK'
      BY <1>1, EqTypes, EqTypesNext DEF vars, AgreeInv, States
    <2>. QED
      BY <1>1, <2>1, QuietAgreeInv DEF vars, AgreeInv, States
  <1>2. ASSUME NEW p \in Programs, Thread(p) PROVE AgreeInv'
    BY <1>2, ProceedAgree, InfoThrowsAgree, HandRequestAgree, AcceptedAgree,
       ConnectedAgree DEF Thread
  <1>3. ASSUME NEW c \in Clients,
               \/ Accept(c) \/ Reject(c) \/ ServerShutdown(c)
               \/ Connect(c) \/ Shutdown(c)
               \/ Provider(c) \/ Break(c)
        PROVE  AgreeInv'
    BY <1>3, AcceptAgree, RejectAgree, ServerShutdownAgree, ConnectAgree,
       ShutdownAgree, ArriveAgree, TellClientAgree, TellServerAgree,
       ArriveShutdownAgree, ArriveServerShutdownAgree, BreakAgree DEF Provider
  <1>. QED
    BY <1>1, <1>2, <1>3, ListenAgree DEF Next, Programs

LEMMA Agreement == Spec => []AgreeInv
  BY InitAgree, StepAgree, PTL DEF Spec

(***************************************************************************)
(* A client and the server agree about their connection as far as either    *)
(* has been told of it, whatever exceptions keep events from their handlers *)
(* and whichever connections fail meanwhile.                               *)
(***************************************************************************)
THEOREM BothEndsAgree == Spec => []EndpointsAgree
  <1>1. AgreeInv => EndpointsAgree
    BY DEF AgreeInv, Agrees, Phase, EndpointsAgree
  <1>. QED
    BY <1>1, Agreement, PTL

-----------------------------------------------------------------------------
(* What a step does to one event queue. *)

Kept(q) ==
    /\ events'[q] = events[q] /\ signalled'[q] = signalled[q]
    /\ EQ!Outstanding(q)' <= EQ!Outstanding(q)
    /\ \/ waiting'[q] = waiting[q]
       \/ signalled[q] /\ waiting[q] > 0 /\ waiting'[q] = 0

Delivered(q) ==
    /\ events'[q] # <<>> /\ signalled'[q]
    /\ waiting'[q] = waiting[q] /\ EQ!Outstanding(q)' = EQ!Outstanding(q)

Taken(q) ==
    /\ events[q] # <<>> /\ events'[q] = Tail(events[q])
    /\ events'[q] # <<>> => signalled'[q] = signalled[q]
    /\ waiting'[q] = waiting[q] /\ waiting[q] < EQ!Outstanding(q)
    /\ EQ!Outstanding(q)' < EQ!Outstanding(q)

Asked(q) ==
    /\ events'[q] = events[q] /\ EQ!Outstanding(q)' = EQ!Outstanding(q) + 1
    /\ \/ events[q] = <<>> /\ waiting'[q] = waiting[q] + 1 /\ ~signalled'[q]
       \/ events[q] # <<>> /\ waiting'[q] = waiting[q] /\ signalled'[q] = signalled[q]

LEMMA Kepts ==
    ASSUME EQ!EqTypeOK, NEW q \in Queues, events'[q] = events[q],
           signalled'[q] = signalled[q], waiting'[q] = waiting[q],
           EQ!Outstanding(q)' = EQ!Outstanding(q)
    PROVE  Kept(q)
  BY Reads DEF Kept

LEMMA DeliverSteps ==
    ASSUME EQ!EqTypeOK, NEW q \in Queues, NEW e \in Events, EQ!Deliver(q, e)
    PROVE  /\ Delivered(q) /\ thrown' = thrown
           /\ \A r \in Queues : r # q => Kept(r)
  <1>1. events[q] \in Seq(Events)
    BY EqTypes
  <1>2. Append(events[q], e) # <<>>
    BY <1>1
  <1>. QED
    BY <1>2, DeliverFacts, Kepts DEF Delivered

LEMMA AskSteps ==
    ASSUME EQ!EqTypeOK, NEW q \in Queues, EQ!AsyncRead(q)
    PROVE  /\ Asked(q) /\ thrown' = thrown
           /\ \A r \in Queues : r # q => Kept(r)
  <1>1. Asked(q) /\ thrown' = thrown
    BY AsyncReadFacts DEF Asked
  <1>2. ASSUME NEW r \in Queues, r # q PROVE Kept(r)
    <2>1. EQ!Outstanding(r)' = EQ!Outstanding(r)
      BY <1>2, AsyncReadFacts, Reads
    <2>. QED
      BY <1>2, <2>1, AsyncReadFacts, Kepts
  <1>. QED
    BY <1>1, <1>2

LEMMA TakeSteps ==
    ASSUME EQ!EqTypeOK, NEW p \in Programs, NEW q \in Queues, QueueOwner(q) = p,
           EQ!ReadExpected(p, q)
    PROVE  /\ Taken(q) /\ thrown' = thrown
           /\ \A r \in Queues : r # q => Kept(r)
  <1>1. /\ EQ!Outstanding(q) = EQ!Outstanding(q)' + 1
        /\ EQ!Outstanding(q)' \in Nat /\ waiting'[q] <= EQ!Outstanding(q)'
        /\ waiting' = waiting
    BY ExpectedFacts, ReadsNext
  <1>2. Taken(q)
    BY <1>1, ExpectedFacts, TakeFacts, Reads DEF Taken
  <1>3. ASSUME NEW r \in Queues, r # q PROVE Kept(r)
    <2>1. EQ!Outstanding(r)' = EQ!Outstanding(r)
      BY <1>3, ExpectedFacts, ReadsNext
    <2>. QED
      BY <1>3, <2>1, ExpectedFacts, TakeFacts, Kepts
  <1>. QED
    BY <1>2, <1>3, ExpectedFacts

LEMMA MoveSteps ==
    ASSUME EQ!EqTypeOK, NEW p \in Programs, NEW q \in Queues,
           EQ!RunOne(p) \/ EQ!HandlerReturns(p) \/ EQ!DescriptorReady(q)
    PROVE  /\ thrown' = thrown
           /\ \A r \in Queues : Kept(r)
  <1>1. CASE EQ!RunOne(p) \/ EQ!HandlerReturns(p)
    BY <1>1, RunFacts, ReturnFacts, Kepts
  <1>2. CASE EQ!DescriptorReady(q)
    BY <1>2, ReadyFacts, Reads DEF Kept
  <1>. QED
    BY <1>1, <1>2

LEMMA ThrownSteps ==
    ASSUME EQ!EqTypeOK, NEW p \in Programs, NEW q \in Queues, QueueOwner(q) = p,
           NEW what \in EQ!Exceptions, Thrown(p, q, what)
    PROVE  /\ Taken(q) \/ Kept(q)
           /\ \A r \in Queues : r # q => Kept(r)
  <1>1. CASE events[q] # <<>> /\ EQ!Take(q)
    BY <1>1, ThrownFacts, TakeFacts DEF Taken, Kept
  <1>2. CASE UNCHANGED <<events, signalled>>
    BY <1>2, ThrownFacts DEF Kept
  <1>. QED
    BY <1>1, <1>2 DEF Thrown

(* Who asks for an event, and what may throw. *)
AskedBy(q) ==
    \/ /\ q = Pep /\ EQ!Outstanding(Pep) < MaxListens
       /\ overlapped' = (overlapped \/ EQ!Outstanding(Pep) > 0)
    \/ \E c \in Clients : q = ClientEp(c) /\ cstate[c] = "new" /\ cstate'[c] # "new"
    \/ \E c \in Clients :
          /\ q = ServerEp(c)
          /\ sstate[c] \notin {"accepting", "connected"}
          /\ sstate'[c] \in {"accepting", "connected"}

ThrowsAt(p, q) ==
    /\ QueueOwner(q) = p
    /\ EQ!ReadUnexpected(p, q) \/ EQ!ReadInfoThrows(p, q) \/ EQ!ReadTimesOut(p, q)

QueueStep ==
    /\ \A q \in Queues :
          Kept(q) \/ Delivered(q) \/ Taken(q) \/ (Asked(q) /\ AskedBy(q))
    /\ thrown' = thrown \/ \E p \in Programs, q \in Queues : ThrowsAt(p, q)

ReadStep ==
    /\ \A q \in Queues : Kept(q) \/ Taken(q)
    /\ thrown' = thrown \/ \E p \in Programs, q \in Queues : ThrowsAt(p, q)

LEMMA SameSteps ==
    ASSUME EQ!EqTypeOK, UNCHANGED eqVars
    PROVE  thrown' = thrown /\ \A q \in Queues : Kept(q)
  <1>1. \A q \in Queues : EQ!Outstanding(q)' = EQ!Outstanding(q)
    BY DEF eqVars, EQ!Outstanding
  <1>. QED
    BY <1>1, Kepts DEF eqVars

LEMMA ClientQueueSteps ==
    ASSUME AgreeInv, NEW c \in Clients,
           \/ Accept(c) \/ Reject(c) \/ ServerShutdown(c)
           \/ Connect(c) \/ Shutdown(c) \/ Break(c)
    PROVE  QueueStep
  <1>1. EQ!EqTypeOK /\ States
    BY DEF AgreeInv, States
  <1>2. CASE Accept(c)
    <2>1. EQ!AsyncRead(ServerEp(c)) /\ sstate[c] = "handed" /\ sstate'[c] = "accepting"
      BY <1>1, <1>2 DEF Accept, States
    <2>2. AskedBy(ServerEp(c))
      BY <2>1 DEF AskedBy
    <2>. QED
      BY <1>1, <2>1, <2>2, AskSteps, QueueFacts DEF QueueStep
  <1>3. CASE Connect(c)
    <2>1. EQ!AsyncRead(ClientEp(c)) /\ cstate[c] = "new" /\ cstate'[c] # "new"
      BY <1>1, <1>3 DEF Connect, States
    <2>2. AskedBy(ClientEp(c))
      BY <2>1 DEF AskedBy
    <2>. QED
      BY <1>1, <2>1, <2>2, AskSteps, QueueFacts DEF QueueStep
  <1>4. CASE Reject(c) \/ ServerShutdown(c) \/ Shutdown(c) \/ Break(c)
    <2>1. UNCHANGED eqVars
      BY <1>4 DEF Reject, ServerShutdown, Shutdown, Break
    <2>. QED
      BY <1>1, <2>1, SameSteps DEF QueueStep
  <1>. QED
    BY <1>2, <1>3, <1>4

LEMMA ProviderQueueSteps ==
    ASSUME AgreeInv, NEW c \in Clients, Provider(c)
    PROVE  QueueStep
  <1>1. EQ!EqTypeOK
    BY DEF AgreeInv, States
  <1>2. CASE UNCHANGED eqVars
    BY <1>1, <1>2, SameSteps DEF QueueStep
  <1>3. ASSUME NEW q \in Queues, NEW e \in Events, EQ!Deliver(q, e) PROVE QueueStep
    BY <1>1, <1>3, DeliverSteps DEF QueueStep
  <1>4. /\ Event("connreq", c) \in Events /\ Event(Outcome(c), c) \in Events
        /\ Event("shutdown", c) \in Events
    BY DEF Event, Events, Kinds, Outcome
  <1>. QED
    BY <1>2, <1>3, <1>4, QueueFacts
    DEF Provider, Arrive, TellClient, TellServer, ArriveShutdown, ArriveServerShutdown

LEMMA ThreadQueueSteps ==
    ASSUME AgreeInv, NEW p \in Programs, Thread(p)
    PROVE  ReadStep
  <1>1. EQ!EqTypeOK
    BY DEF AgreeInv, States
  <1>2. ASSUME NEW q \in Queues, QueueOwner(q) = p, EQ!ReadExpected(p, q)
        PROVE  ReadStep
    BY <1>1, <1>2, TakeSteps DEF ReadStep
  <1>3. ASSUME NEW q \in Queues, ThrowsAt(p, q)
        PROVE  ReadStep
    <2>1. PICK what \in EQ!Exceptions : Thrown(p, q, what)
      BY <1>3, ThrowingSteps DEF ThrowsAt
    <2>2. \A r \in Queues : Taken(r) \/ Kept(r)
      BY <1>1, <1>3, <2>1, ThrownSteps DEF ThrowsAt
    <2>. QED
      BY <1>3, <2>2 DEF ReadStep
  <1>4. CASE EQ!RunOne(p) \/ EQ!HandlerReturns(p)
    BY <1>1, <1>4, MoveSteps, QueueFacts DEF ReadStep
  <1>5. ASSUME NEW q \in Queues, EQ!DescriptorReady(q) PROVE ReadStep
    BY <1>1, <1>5, MoveSteps DEF ReadStep
  <1>6. \A q \in QueuesOf(p) : q \in Queues /\ QueueOwner(q) = p
    BY DEF QueuesOf, Queues
  <1>7. CASE Proceed(p)
    BY <1>3, <1>4, <1>5, <1>6, <1>7 DEF Proceed, ThrowsAt
  <1>8. CASE InfoThrows(p)
    BY <1>3, <1>6, <1>8 DEF InfoThrows, ThrowsAt
  <1>9. ASSUME p = Server, NEW c \in Clients, HandRequest(c) \/ Accepted(c)
        PROVE  ReadStep
    BY <1>2, <1>9, QueueFacts DEF HandRequest, Accepted
  <1>10. CASE p \in Clients /\ Connected(p)
    BY <1>2, <1>10, QueueFacts DEF Connected
  <1>. QED
    BY <1>7, <1>8, <1>9, <1>10 DEF Thread

LEMMA QueueSteps ==
    ASSUME AgreeInv, [Next]_vars
    PROVE  QueueStep
  <1>1. EQ!EqTypeOK
    BY DEF AgreeInv, States
  <1>2. CASE UNCHANGED vars
    BY <1>1, <1>2, SameSteps DEF QueueStep, vars, eqVars
  <1>3. CASE Listen
    <2>1. EQ!AsyncRead(Pep) /\ AskedBy(Pep)
      BY <1>3 DEF Listen, AskedBy
    <2>. QED
      BY <1>1, <2>1, AskSteps, QueueFacts DEF QueueStep
  <1>4. ASSUME NEW p \in Programs, Thread(p) PROVE QueueStep
    BY <1>4, ThreadQueueSteps DEF ReadStep, QueueStep
  <1>. QED
    BY <1>2, <1>3, <1>4, ClientQueueSteps, ProviderQueueSteps DEF Next, Programs

-----------------------------------------------------------------------------
(* No event is missed. *)

LEMMA StepSignals ==
    ASSUME AgreeInv, NoMissedEvent, [Next]_vars
    PROVE  NoMissedEvent'
  <1>. SUFFICES ASSUME NEW q \in Queues, waiting'[q] > 0, events'[q] # <<>>
                PROVE  signalled'[q]
    BY DEF NoMissedEvent, EQ!NoMissedEvent, Queues
  <1>1. waiting[q] > 0 /\ events[q] # <<>> => signalled[q]
    BY DEF NoMissedEvent, EQ!NoMissedEvent, Queues
  <1>2. QueueStep
    BY QueueSteps
  <1>3. CASE Kept(q)
    <2>1. waiting'[q] = waiting[q]
      BY <1>3 DEF Kept
    <2>. QED
      BY <1>1, <1>3, <2>1 DEF Kept
  <1>4. CASE Delivered(q)
    BY <1>4 DEF Delivered
  <1>5. CASE Taken(q)
    BY <1>1, <1>5 DEF Taken
  <1>6. CASE Asked(q)
    BY <1>1, <1>6 DEF Asked
  <1>. QED
    BY <1>2, <1>3, <1>4, <1>5, <1>6 DEF QueueStep

(***************************************************************************)
(* The fi_trywait before async_wait leaves no gap: while a read_op waits on *)
(* the descriptor of an event queue that holds an event, the descriptor is  *)
(* readable, however events, reads and exceptions interleave.              *)
(***************************************************************************)
THEOREM SignalNotLost == Spec => []NoMissedEvent
  <1>1. Init => NoMissedEvent
    BY DEF Init, EQ!EqInit, NoMissedEvent, EQ!NoMissedEvent
  <1>. QED
    BY <1>1, Agreement, StepSignals, PTL DEF Spec

-----------------------------------------------------------------------------
(* At most one read is outstanding at an endpoint. *)

LEMMA OverlapKept ==
    ASSUME [Next]_vars
    PROVE  overlapped => overlapped'
  <1>1. ASSUME NEW c \in Clients,
               \/ Accept(c) \/ Reject(c) \/ ServerShutdown(c)
               \/ Connect(c) \/ Shutdown(c)
               \/ Provider(c) \/ Break(c)
        PROVE  overlapped' = overlapped
    BY <1>1 DEF Accept, Reject, ServerShutdown, Connect, Shutdown, Break,
                Provider, Arrive, TellClient, TellServer, ArriveShutdown,
                ArriveServerShutdown
  <1>2. ASSUME NEW p, Thread(p) PROVE overlapped' = overlapped
    BY <1>2 DEF Thread, Proceed, InfoThrows, HandRequest, Accepted, Connected
  <1>. QED
    BY <1>1, <1>2 DEF Next, Listen, vars

LEMMA Progress ==
    ASSUME AgreeInv, [Next]_vars, NEW c \in Clients
    PROVE  /\ cstate'[c] = "new" => cstate[c] = "new"
           /\ sstate[c] \in {"accepting", "connected"}
                 => sstate'[c] \in {"accepting", "connected"}
  <1>. USE DEF AgreeInv, States
  <1>1. CASE UNCHANGED vars
    BY <1>1 DEF vars
  <1>2. CASE Listen
    BY <1>2 DEF Listen
  <1>3. ASSUME NEW d \in Clients,
               \/ Accept(d) \/ Reject(d) \/ ServerShutdown(d)
               \/ Connect(d) \/ Shutdown(d)
               \/ Provider(d) \/ Break(d)
        PROVE  /\ cstate'[c] = "new" => cstate[c] = "new"
               /\ sstate[c] \in {"accepting", "connected"}
                     => sstate'[c] \in {"accepting", "connected"}
    BY <1>3 DEF Accept, Reject, ServerShutdown, Connect, Shutdown, Break,
                Provider, Arrive, TellClient, TellServer, ArriveShutdown,
                ArriveServerShutdown
  <1>4. ASSUME NEW p \in Programs, Thread(p)
        PROVE  /\ cstate'[c] = "new" => cstate[c] = "new"
               /\ sstate[c] \in {"accepting", "connected"}
                     => sstate'[c] \in {"accepting", "connected"}
    <2>1. CASE Proceed(p) \/ InfoThrows(p)
      BY <2>1 DEF Proceed, InfoThrows
    <2>2. ASSUME NEW d \in Clients, HandRequest(d)
          PROVE  /\ cstate' = cstate
                 /\ sstate'[c] = IF c = d THEN "handed" ELSE sstate[c]
                 /\ sstate[d] = "none"
      <3>1. Head(events[Pep]) = Event("connreq", d) /\ events[Pep] # <<>>
        BY <2>2 DEF HandRequest, EQ!ReadExpected
      <3>2. PICK e \in Clients : /\ Head(events[Pep]) = Event("connreq", e)
                                 /\ sstate[e] = "none"
        BY <3>1, RequestFacts
      <3>3. e = d
        BY <3>1, <3>2 DEF Event
      <3>. QED
        BY <2>2, <3>2, <3>3 DEF HandRequest
    <2>3. ASSUME NEW d \in Clients, Accepted(d)
          PROVE  /\ cstate' = cstate
                 /\ sstate'[c] = IF c = d THEN "connected" ELSE sstate[c]
      BY <2>3 DEF Accepted
    <2>4. CASE p \in Clients /\ Connected(p)
      BY <2>4 DEF Connected
    <2>. QED
      BY <1>4, <2>1, <2>2, <2>3, <2>4 DEF Thread
  <1>. QED
    BY <1>1, <1>2, <1>3, <1>4 DEF Next, Programs

LEMMA StepReads ==
    ASSUME AgreeInv, ReadsInv, [Next]_vars
    PROVE  ReadsInv'
  <1>1. QueueStep /\ States /\ States' /\ EQ!EqTypeOK /\ EQ!EqTypeOK'
    BY QueueSteps, StepAgree DEF AgreeInv, States
  <1>2. ASSUME NEW q \in Queues
        PROVE  /\ EQ!Outstanding(q) \in Nat /\ EQ!Outstanding(q)' \in Nat
               /\ \/ EQ!Outstanding(q)' <= EQ!Outstanding(q)
                  \/ EQ!Outstanding(q)' = EQ!Outstanding(q) + 1 /\ AskedBy(q)
    <2>1. EQ!Outstanding(q) \in Nat /\ EQ!Outstanding(q)' \in Nat
      BY <1>1, Reads, ReadsNext
    <2>. QED
      BY <1>1, <2>1 DEF QueueStep, Kept, Delivered, Taken, Asked
  <1>3. EQ!Outstanding(Pep)' <= IF overlapped' THEN MaxListens ELSE 1
    <2>. DEFINE n == EQ!Outstanding(Pep)
                m == EQ!Outstanding(Pep)'
    <2>1. n \in Nat /\ m \in Nat /\ (m <= n \/ (m = n + 1 /\ AskedBy(Pep)))
      BY <1>2, QueueFacts
    <2>2. n <= (IF overlapped THEN MaxListens ELSE 1) /\ MaxListens \in Nat \ {0}
      BY ConnectionAssumption DEF ReadsInv
    <2>3. AskedBy(Pep) => n < MaxListens /\ overlapped' = (overlapped \/ n > 0)
      BY QueueFacts DEF AskedBy
    <2>4. overlapped' \in BOOLEAN /\ overlapped \in BOOLEAN
      BY <1>1 DEF States
    <2>5. n <= MaxListens
      BY <2>1, <2>2
    <2>. HIDE DEF n, m
    <2>6. CASE m <= n
      <3>1. overlapped => overlapped'
        BY OverlapKept
      <3>2. ~overlapped => n <= 1
        BY <2>2
      <3>. QED
        BY <2>1, <2>2, <2>5, <2>6, <3>1, <3>2 DEF m
    <2>7. CASE m = n + 1 /\ AskedBy(Pep)
      <3>1. overlapped' = (overlapped \/ n > 0) /\ n < MaxListens
        BY <2>3, <2>7
      <3>2. n > 0 => overlapped'
        BY <3>1, Zenon
      <3>3. ~overlapped' => n = 0
        BY <2>1, <3>2
      <3>. QED
        BY <2>1, <2>2, <2>7, <3>1, <3>3 DEF m
    <2>. QED
      BY <2>1, <2>6, <2>7
  <1>4. ASSUME NEW c \in Clients
        PROVE  EQ!Outstanding(ClientEp(c))' <= IF cstate'[c] = "new" THEN 0 ELSE 1
    <2>. DEFINE n == EQ!Outstanding(ClientEp(c))
                m == EQ!Outstanding(ClientEp(c))'
    <2>1. n \in Nat /\ m \in Nat /\ (m <= n \/ (m = n + 1 /\ AskedBy(ClientEp(c))))
      BY <1>2, QueueFacts
    <2>2. n <= IF cstate[c] = "new" THEN 0 ELSE 1
      BY DEF ReadsInv
    <2>3. AskedBy(ClientEp(c)) => cstate[c] = "new" /\ cstate'[c] # "new"
      BY QueueFacts DEF AskedBy
    <2>4. cstate'[c] = "new" => cstate[c] = "new"
      BY Progress
    <2>. HIDE DEF n, m
    <2>5. m <= IF cstate'[c] = "new" THEN 0 ELSE 1
      BY <2>1, <2>2, <2>3, <2>4
    <2>. QED
      BY <2>5 DEF m
  <1>5. ASSUME NEW c \in Clients
        PROVE  EQ!Outstanding(ServerEp(c))' <=
                  IF sstate'[c] \in {"accepting", "connected"} THEN 1 ELSE 0
    <2>. DEFINE n == EQ!Outstanding(ServerEp(c))
                m == EQ!Outstanding(ServerEp(c))'
                busy == sstate[c] \in {"accepting", "connected"}
                busier == sstate'[c] \in {"accepting", "connected"}
    <2>1. n \in Nat /\ m \in Nat /\ (m <= n \/ (m = n + 1 /\ AskedBy(ServerEp(c))))
      BY <1>2, QueueFacts
    <2>2. n <= IF busy THEN 1 ELSE 0
      BY DEF ReadsInv
    <2>3. AskedBy(ServerEp(c)) => ~busy /\ busier
      BY QueueFacts DEF AskedBy
    <2>4. busy => busier
      BY Progress
    <2>. HIDE DEF n, m, busy, busier
    <2>5. m <= IF busier THEN 1 ELSE 0
      BY <2>1, <2>2, <2>3, <2>4
    <2>. QED
      BY <2>5 DEF m, busier
  <1>. QED
    BY <1>3, <1>4, <1>5 DEF ReadsInv

LEMMA InitReads ==
    ASSUME Init
    PROVE  ReadsInv
  <1>1. ASSUME NEW q \in Queues PROVE EQ!Outstanding(q) = 0
    <2>1. waiting[q] = 0 /\ Posted(q) = 0 /\ Running(q) = 0
      BY QueueFacts, OccursEmpty
      DEF Init, EQ!EqInit, Queues, Programs, Posted, Running
    <2>. QED
      BY <2>1, InitAgree, Reads DEF AgreeInv, States
  <1>. QED
    BY <1>1, QueueFacts, ConnectionAssumption DEF ReadsInv, Init

LEMMA ReadsBounded == Spec => []ReadsInv
  BY InitReads, Agreement, StepReads, PTL DEF Spec

(***************************************************************************)
(* The state keeps its types; in particular an endpoint never has a second  *)
(* read outstanding, and a passive endpoint as many as the server listens.  *)
(***************************************************************************)
THEOREM TypeCorrect == Spec => []TypeOK
  <1>1. ASSUME AgreeInv, ReadsInv PROVE TypeOK
    <2>1. States /\ EQ!EqTypeOK
      BY <1>1 DEF AgreeInv, States
    <2>2. ASSUME NEW q \in Queues
          PROVE  EQ!Outstanding(q) <= IF q = Pep THEN MaxListens ELSE 1
      <3>1. EQ!Outstanding(q) \in Nat
        BY <2>1, Reads
      <3>. DEFINE n == EQ!Outstanding(q)
      <3>2. CASE q = Pep
        <4>1. n <= IF overlapped THEN MaxListens ELSE 1
          BY <1>1, <3>2 DEF ReadsInv
        <4>. HIDE DEF n
        <4>2. n <= MaxListens
          BY <3>1, <4>1, ConnectionAssumption DEF n
        <4>. QED
          BY <3>2, <4>2 DEF n
      <3>3. CASE q # Pep
        <4>1. PICK c \in Clients : q = ServerEp(c) \/ q = ClientEp(c)
          BY <3>3, QueueFacts
        <4>2. n <= (IF cstate[c] = "new" THEN 0 ELSE 1)
              \/ n <= (IF sstate[c] \in {"accepting", "connected"} THEN 1 ELSE 0)
          BY <1>1, <4>1 DEF ReadsInv
        <4>. HIDE DEF n
        <4>3. n <= 1
          BY <3>1, <4>2 DEF n
        <4>. QED
          BY <3>3, <4>3 DEF n
      <3>. QED
        BY <3>2, <3>3
    <2>. QED
      BY <2>1, <2>2 DEF TypeOK, States, Queues
  <1>. QED
    BY <1>1, Agreement, ReadsBounded, PTL

-----------------------------------------------------------------------------
(* An accept finds its outcome. *)

LEMMA AcceptSame ==
    ASSUME EQ!EqTypeOK, EQ!EqTypeOK', ReadsInv, NEW c \in Clients, AcceptFinds(c),
           link'[c] = link[c], "server" \in tell[c] => "server" \in tell'[c],
           Kept(ServerEp(c)) \/ Taken(ServerEp(c))
    PROVE  AcceptFinds(c)'
  <1>1. /\ EQ!Outstanding(ServerEp(c)) \in Nat /\ EQ!Outstanding(ServerEp(c))' \in Nat
        /\ EQ!Outstanding(ServerEp(c)) <=
              IF sstate[c] \in {"accepting", "connected"} THEN 1 ELSE 0
    BY QueueFacts, Reads, ReadsNext DEF ReadsInv
  <1>2. CASE Kept(ServerEp(c))
    <2>1. /\ events'[ServerEp(c)] = events[ServerEp(c)]
          /\ EQ!Outstanding(ServerEp(c))' > 0 => EQ!Outstanding(ServerEp(c)) > 0
      BY <1>1, <1>2 DEF Kept
    <2>2. Answer(c)' = Answer(c) /\ Bye(c)' = Bye(c)
      BY DEF Answer, Bye, Outcome
    <2>. QED
      BY <2>1, <2>2 DEF AcceptFinds
  <1>3. CASE Taken(ServerEp(c))
    <2>. DEFINE n == EQ!Outstanding(ServerEp(c))
                m == EQ!Outstanding(ServerEp(c))'
                busy == sstate[c] \in {"accepting", "connected"}
    <2>1. n \in Nat /\ m \in Nat /\ n <= (IF busy THEN 1 ELSE 0) /\ m < n
      BY <1>1, <1>3 DEF Taken
    <2>. HIDE DEF n, m, busy
    <2>2. ~(m > 0)
      BY <2>1
    <2>. QED
      BY <2>2 DEF m, AcceptFinds
  <1>. QED
    BY <1>2, <1>3

LEMMA StepAccepts ==
    ASSUME AgreeInv, ReadsInv, AcceptInv, [Next]_vars
    PROVE  AcceptInv'
  <1>. SUFFICES ASSUME NEW c \in Clients
                PROVE  AcceptFinds(c)'
    BY DEF AcceptInv
  <1>1. /\ EQ!EqTypeOK /\ EQ!EqTypeOK' /\ States /\ States'
        /\ AcceptFinds(c) /\ Phase(c) /\ ServerTold(c)
    BY StepAgree DEF AgreeInv, States, AcceptInv, Agrees
  <1>2. CASE UNCHANGED vars
    <2>1. Kept(ServerEp(c))
      BY <1>1, <1>2, SameSteps, QueueFacts DEF vars, eqVars
    <2>. QED
      BY <1>1, <1>2, <2>1, AcceptSame DEF vars
  <1>3. CASE Listen
    <2>1. Kept(ServerEp(c))
      BY <1>1, <1>3, AskSteps, QueueFacts DEF Listen
    <2>. QED
      BY <1>1, <1>3, <2>1, AcceptSame DEF Listen
  <1>4. ASSUME NEW p \in Programs, Thread(p) PROVE AcceptFinds(c)'
    <2>1. Kept(ServerEp(c)) \/ Taken(ServerEp(c))
      BY <1>4, ThreadQueueSteps, QueueFacts DEF ReadStep
    <2>2. link' = link /\ tell' = tell
      BY <1>4 DEF Thread, Proceed, InfoThrows, HandRequest, Accepted, Connected
    <2>. QED
      BY <1>1, <2>1, <2>2, AcceptSame
  <1>5. ASSUME NEW d \in Clients, Accept(d) PROVE AcceptFinds(c)'
    <2>1. CASE d = c
      <3>1. link'[c] = "failed" \/ (link'[c] = "accepted" /\ "server" \in tell'[c])
        BY <1>1, <1>5, <2>1 DEF Accept, States, Sides
      <3>. QED
        BY <3>1 DEF AcceptFinds
    <2>2. CASE d # c
      <3>1. Kept(ServerEp(c))
        BY <1>1, <1>5, <2>2, AskSteps, QueueFacts DEF Accept
      <3>2. link'[c] = link[c] /\ tell'[c] = tell[c]
        BY <1>1, <1>5, <2>2 DEF Accept, States
      <3>. QED
        BY <1>1, <3>1, <3>2, AcceptSame
    <2>. QED
      BY <2>1, <2>2
  <1>6. ASSUME NEW d \in Clients, Reject(d) \/ Break(d) PROVE AcceptFinds(c)'
    <2>1. CASE d = c
      <3>1. link'[c] \in {"refused", "failed"}
        BY <1>1, <1>6, <2>1 DEF Reject, Break, States
      <3>. QED
        BY <3>1 DEF AcceptFinds
    <2>2. CASE d # c
      <3>1. Kept(ServerEp(c))
        BY <1>1, <1>6, SameSteps, QueueFacts DEF Reject, Break
      <3>2. link'[c] = link[c] /\ tell'[c] = tell[c]
        BY <1>1, <1>6, <2>2 DEF Reject, Break, States
      <3>. QED
        BY <1>1, <3>1, <3>2, AcceptSame
    <2>. QED
      BY <2>1, <2>2
  <1>7. ASSUME NEW d \in Clients, Connect(d) PROVE AcceptFinds(c)'
    <2>1. CASE d = c
      BY <1>1, <1>7, <2>1 DEF Connect, States, AcceptFinds
    <2>2. CASE d # c
      <3>1. Kept(ServerEp(c))
        BY <1>1, <1>7, AskSteps, QueueFacts DEF Connect
      <3>2. link'[c] = link[c] /\ tell'[c] = tell[c]
        BY <1>1, <1>7, <2>2 DEF Connect, States
      <3>. QED
        BY <1>1, <3>1, <3>2, AcceptSame
    <2>. QED
      BY <2>1, <2>2
  <1>8. ASSUME NEW d \in Clients, Shutdown(d) PROVE AcceptFinds(c)'
    <2>1. Kept(ServerEp(c))
      BY <1>1, <1>8, SameSteps, QueueFacts DEF Shutdown
    <2>2. CASE d = c
      <3>1. link[c] = "accepted" /\ link'[c] = "shutdown" /\ tell'[c] = tell[c]
        BY <1>1, <1>8, <2>2 DEF Shutdown, States, Phase
      <3>2. /\ events'[ServerEp(c)] = events[ServerEp(c)]
            /\ EQ!Outstanding(ServerEp(c))' > 0 => EQ!Outstanding(ServerEp(c)) > 0
        <4>1. /\ EQ!Outstanding(ServerEp(c)) \in Nat
              /\ EQ!Outstanding(ServerEp(c))' \in Nat
          BY <1>1, QueueFacts, Reads, ReadsNext
        <4>. QED
          BY <2>1, <4>1 DEF Kept
      <3>. QED
        BY <1>1, <3>1, <3>2 DEF AcceptFinds
    <2>3. CASE d # c
      <3>1. link'[c] = link[c] /\ tell'[c] = tell[c]
        BY <1>1, <1>8, <2>3 DEF Shutdown, States
      <3>. QED
        BY <1>1, <2>1, <3>1, AcceptSame
    <2>. QED
      BY <2>2, <2>3
  <1>9. ASSUME NEW d \in Clients, Arrive(d) PROVE AcceptFinds(c)'
    <2>1. CASE d = c
      <3>1. link'[c] \in {"requested", "refused"}
        BY <1>1, <1>9, <2>1 DEF Arrive, States
      <3>. QED
        BY <3>1 DEF AcceptFinds
    <2>2. CASE d # c
      <3>1. Kept(ServerEp(c))
        <4>1. Event("connreq", d) \in Events
          BY DEF Event, Events, Kinds
        <4>. QED
          BY <1>1, <1>9, <4>1, DeliverSteps, SameSteps, QueueFacts DEF Arrive
      <3>2. link'[c] = link[c] /\ tell'[c] = tell[c]
        BY <1>1, <1>9, <2>2 DEF Arrive, States
      <3>. QED
        BY <1>1, <3>1, <3>2, AcceptSame
    <2>. QED
      BY <2>1, <2>2
  <1>10. ASSUME NEW d \in Clients, TellClient(d) PROVE AcceptFinds(c)'
    <2>1. Kept(ServerEp(c))
      <3>1. Event(Outcome(d), d) \in Events
        BY DEF Event, Events, Kinds, Outcome
      <3>. QED
        BY <1>1, <1>10, <3>1, DeliverSteps, QueueFacts DEF TellClient
    <2>2. link'[c] = link[c] /\ ("server" \in tell[c] => "server" \in tell'[c])
      BY <1>1, <1>10 DEF TellClient, States
    <2>. QED
      BY <1>1, <2>1, <2>2, AcceptSame
  <1>11. ASSUME NEW d \in Clients, TellServer(d) PROVE AcceptFinds(c)'
    <2>1. /\ Delivered(ServerEp(d))
          /\ \A r \in Queues : r # ServerEp(d) => Kept(r)
      <3>1. Event(Outcome(d), d) \in Events
        BY DEF Event, Events, Kinds, Outcome
      <3>. QED
        BY <1>1, <1>11, <3>1, DeliverSteps, QueueFacts DEF TellServer
    <2>2. CASE d = c
      <3>1. "server" \in tell[c] /\ link'[c] = link[c] /\ events'[ServerEp(c)] # <<>>
        BY <1>11, <2>1, <2>2 DEF TellServer, Delivered
      <3>2. link'[c] # "none"
        BY <1>1, <3>1 DEF Phase
      <3>. QED
        BY <3>1, <3>2 DEF AcceptFinds
    <2>3. CASE d # c
      <3>1. Kept(ServerEp(c))
        BY <2>1, <2>3, QueueFacts
      <3>2. link'[c] = link[c] /\ tell'[c] = tell[c]
        BY <1>1, <1>11, <2>3 DEF TellServer, States
      <3>. QED
        BY <1>1, <3>1, <3>2, AcceptSame
    <2>. QED
      BY <2>2, <2>3
  <1>12. ASSUME NEW d \in Clients, ArriveShutdown(d) PROVE AcceptFinds(c)'
    <2>1. EQ!Deliver(ServerEp(d), Bye(d)) /\ Bye(d) \in Events
      BY <1>12 DEF ArriveShutdown, Bye, Event, Events, Kinds
    <2>2. CASE d = c
      <3>1. /\ link[c] = "shutdown" /\ tell[c] = {} /\ link'[c] = "none"
            /\ events'[ServerEp(c)] = Append(events[ServerEp(c)], Bye(c))
            /\ EQ!Outstanding(ServerEp(c))' = EQ!Outstanding(ServerEp(c))
        BY <1>1, <1>12, <2>1, <2>2, DeliverFacts, QueueFacts DEF ArriveShutdown, States
      <3>2. Answer(c)' = Answer(c) /\ Bye(c)' = Bye(c)
        BY <3>1 DEF Answer, Bye, Outcome
      <3>3. ASSUME EQ!Outstanding(ServerEp(c)) > 0
            PROVE  events'[ServerEp(c)] = <<Answer(c), Bye(c)>>
        <4>1. events[ServerEp(c)] = <<Answer(c)>>
          BY <1>1, <3>1, <3>3 DEF AcceptFinds, ServerTold
        <4>. QED
          BY <3>1, <4>1, Appends
      <3>. QED
        BY <3>1, <3>2, <3>3 DEF AcceptFinds
    <2>3. CASE d # c
      <3>1. Kept(ServerEp(c))
        BY <1>1, <2>1, <2>3, DeliverSteps, QueueFacts
      <3>2. link'[c] = link[c] /\ tell'[c] = tell[c]
        BY <1>1, <1>12, <2>3 DEF ArriveShutdown, States
      <3>. QED
        BY <1>1, <3>1, <3>2, AcceptSame
    <2>. QED
      BY <2>2, <2>3
  <1>13. ASSUME NEW d \in Clients, ServerShutdown(d) \/ ArriveServerShutdown(d)
         PROVE  AcceptFinds(c)'
    <2>1. Kept(ServerEp(c))
      <3>1. Event("shutdown", d) \in Events
        BY DEF Event, Events, Kinds
      <3>. QED
        BY <1>1, <1>13, <3>1, SameSteps, DeliverSteps, QueueFacts
        DEF ServerShutdown, ArriveServerShutdown
    <2>2. link' = link /\ tell' = tell
      BY <1>13 DEF ServerShutdown, ArriveServerShutdown
    <2>. QED
      BY <1>1, <2>1, <2>2, AcceptSame
  <1>. QED
    BY <1>2, <1>3, <1>4, <1>5, <1>6, <1>7, <1>8, <1>9, <1>10, <1>11, <1>12, <1>13
    DEF Next, Provider, Programs

-----------------------------------------------------------------------------
(* A connect finds its outcome. *)

LEMMA ConnectSame ==
    ASSUME AgreeInv, AgreeInv', ReadsInv, NEW c \in Clients, ConnectFinds(c),
           closing'[c] = closing[c],
           Established(c)' => Established(c), "client" \in tell[c] => "client" \in tell'[c],
           Kept(ClientEp(c)) \/ Taken(ClientEp(c))
    PROVE  ConnectFinds(c)'
  <1>. DEFINE q == ClientEp(c)
              n == EQ!Outstanding(q)
              m == EQ!Outstanding(q)'
  <1>1. n \in Nat /\ m \in Nat /\ n <= IF cstate[c] = "new" THEN 0 ELSE 1
    BY QueueFacts, Reads, ReadsNext DEF ReadsInv, AgreeInv, States
  <1>2. CASE Taken(q)
    <2>1. m < n
      BY <1>2 DEF Taken
    <2>. HIDE DEF n, m
    <2>2. ~(m > 0)
      BY <1>1, <2>1
    <2>. QED
      BY <2>2 DEF m, ConnectFinds
  <1>3. CASE Kept(q)
    <2>1. events'[q] = events[q] /\ m <= n
      BY <1>3 DEF Kept
    <2>2. m > 0 => n > 0
      <3>. HIDE DEF n, m
      <3>. QED
        BY <1>1, <2>1
    <2>3. ASSUME closing[c] = "told"
          PROVE  Answer(c)' = Answer(c) /\ Bye(c)' = Bye(c)
      <3>1. Agrees(c) /\ Agrees(c)' /\ sstate[c] = "connected" /\ sstate'[c] = "connected"
        BY <2>3 DEF AgreeInv, Agrees, Dismisses
      <3>2. Outcome(c) = "connected" /\ Outcome(c)' = "connected"
        BY <3>1 DEF Agrees, Phase, Outcome
      <3>. QED
        BY <3>2 DEF Answer, Bye
    <2>. QED
      BY <2>1, <2>2, <2>3 DEF ConnectFinds
  <1>. QED
    BY <1>2, <1>3

LEMMA StepConnects ==
    ASSUME AgreeInv, ReadsInv, ConnectInv, [Next]_vars
    PROVE  ConnectInv'
  <1>. SUFFICES ASSUME NEW c \in Clients
                PROVE  ConnectFinds(c)'
    BY DEF ConnectInv
  <1>1. /\ AgreeInv' /\ EQ!EqTypeOK /\ EQ!EqTypeOK' /\ States /\ States'
        /\ ConnectFinds(c) /\ Agrees(c) /\ Agrees(c)'
    BY StepAgree DEF AgreeInv, States, ConnectInv
  <1>2. closing'[c] = "no" /\ ("client" \in tell'[c] \/ ~Established(c)') => ConnectFinds(c)'
    BY DEF ConnectFinds
  <1>3. CASE UNCHANGED vars
    <2>1. Kept(ClientEp(c))
      BY <1>1, <1>3, SameSteps, QueueFacts DEF vars, eqVars
    <2>. QED
      BY <1>1, <1>3, <2>1, ConnectSame DEF vars, Established
  <1>4. CASE Listen
    <2>1. Kept(ClientEp(c))
      BY <1>1, <1>4, AskSteps, QueueFacts DEF Listen
    <2>. QED
      BY <1>1, <1>4, <2>1, ConnectSame DEF Listen, Established
  <1>5. ASSUME NEW p \in Programs, Thread(p) PROVE ConnectFinds(c)'
    <2>1. Kept(ClientEp(c)) \/ Taken(ClientEp(c))
      BY <1>5, ThreadQueueSteps, QueueFacts DEF ReadStep
    <2>2. closing' = closing /\ tell' = tell /\ link' = link
      BY <1>5 DEF Thread, Proceed, InfoThrows, HandRequest, Accepted, Connected
    <2>3. ASSUME sstate'[c] # sstate[c]
          PROVE  sstate'[c] = "handed" \/ sstate[c] \in {"accepting", "connected"}
      <3>1. CASE Accepted(c) /\ p = Server
        <4>1. events[ServerEp(c)] # <<>>
          BY <3>1 DEF Accepted, EQ!ReadExpected
        <4>. QED
          BY <1>1, <4>1 DEF Agrees, ServerTold
      <3>2. CASE ~(Accepted(c) /\ p = Server)
        BY <1>1, <1>5, <2>3, <3>2
        DEF Thread, Proceed, InfoThrows, HandRequest, Accepted, Connected, States
      <3>. QED
        BY <3>1, <3>2
    <2>4. Established(c)' => Established(c)
      BY <2>2, <2>3 DEF Established
    <2>. QED
      BY <1>1, <2>1, <2>2, <2>4, ConnectSame
  <1>6. ASSUME NEW d \in Clients, Accept(d) \/ Reject(d) \/ Break(d) \/ Arrive(d)
        PROVE  ConnectFinds(c)'
    <2>1. Kept(ClientEp(c))
      <3>1. Event("connreq", d) \in Events
        BY DEF Event, Events, Kinds
      <3>. QED
        BY <1>1, <1>6, <3>1, AskSteps, SameSteps, DeliverSteps, QueueFacts
        DEF Accept, Reject, Break, Arrive
    <2>2. closing' = closing
      BY <1>6 DEF Accept, Reject, Break, Arrive
    <2>3. CASE c = d
      <3>1. sstate[c] # "connected"
        BY <1>1, <1>6, <2>3 DEF Accept, Reject, Break, Arrive, Agrees, Phase,
                                ServerTold, Sides
      <3>2. "client" \in tell'[c] \/ ~Established(c)'
        <4>1. CASE Accept(c)
          BY <1>1, <4>1 DEF Accept, States, Established, Sides
        <4>2. CASE Reject(c)
          BY <1>1, <4>2 DEF Reject, States, Established
        <4>3. CASE Break(c)
          BY <1>1, <4>3 DEF Break, States, Established
        <4>4. CASE Arrive(c)
          BY <1>1, <4>4 DEF Arrive, Established, Agrees, Phase
        <4>. QED
          BY <1>6, <2>3, <4>1, <4>2, <4>3, <4>4
      <3>. QED
        BY <1>1, <1>2, <2>2, <3>1, <3>2, Undismissed
    <2>4. CASE c # d
      <3>1. /\ tell'[c] = tell[c] /\ link'[c] = link[c] /\ sstate'[c] = sstate[c]
        BY <1>1, <1>6, <2>4 DEF Accept, Reject, Break, Arrive, States
      <3>. QED
        BY <1>1, <2>1, <2>2, <3>1, ConnectSame DEF Established
    <2>. QED
      BY <2>3, <2>4
  <1>7. ASSUME NEW d \in Clients, Connect(d) PROVE ConnectFinds(c)'
    <2>1. closing' = closing /\ tell' = tell /\ sstate' = sstate
      BY <1>7 DEF Connect
    <2>2. CASE c = d
      <3>1. sstate[c] = "none"
        BY <1>1, <1>7, <2>2 DEF Connect, Agrees, Phase
      <3>. QED
        BY <1>1, <1>2, <2>1, <3>1, Undismissed DEF Established
    <2>3. CASE c # d
      <3>1. Kept(ClientEp(c)) /\ link'[c] = link[c]
        BY <1>1, <1>7, <2>3, AskSteps, QueueFacts DEF Connect, States
      <3>. QED
        BY <1>1, <2>1, <3>1, ConnectSame DEF Established
    <2>. QED
      BY <2>2, <2>3
  <1>8. ASSUME NEW d \in Clients, Shutdown(d) \/ TellServer(d) \/ ArriveShutdown(d)
        PROVE  ConnectFinds(c)'
    <2>1. Kept(ClientEp(c))
      <3>1. Event(Outcome(d), d) \in Events /\ Event("shutdown", d) \in Events
        BY DEF Event, Events, Kinds, Outcome
      <3>. QED
        BY <1>1, <1>8, <3>1, SameSteps, DeliverSteps, QueueFacts
        DEF Shutdown, TellServer, ArriveShutdown
    <2>2. closing' = closing /\ ("client" \in tell[c] => "client" \in tell'[c])
      BY <1>1, <1>8 DEF Shutdown, TellServer, ArriveShutdown, States
    <2>3. Established(c)' => Established(c)
      <3>1. sstate' = sstate
        BY <1>8 DEF Shutdown, TellServer, ArriveShutdown
      <3>2. link'[c] = link[c] \/ link[c] # "failed"
        BY <1>1, <1>8 DEF Shutdown, TellServer, ArriveShutdown, States, Agrees, Phase
      <3>. QED
        BY <3>1, <3>2 DEF Established
    <2>. QED
      BY <1>1, <2>1, <2>2, <2>3, ConnectSame
  <1>9. ASSUME NEW d \in Clients, TellClient(d) PROVE ConnectFinds(c)'
    <2>1. /\ Delivered(ClientEp(d))
          /\ \A r \in Queues : r # ClientEp(d) => Kept(r)
      <3>1. Event(Outcome(d), d) \in Events
        BY DEF Event, Events, Kinds, Outcome
      <3>. QED
        BY <1>1, <1>9, <3>1, DeliverSteps, QueueFacts DEF TellClient
    <2>2. closing' = closing /\ link' = link /\ sstate' = sstate
      BY <1>9 DEF TellClient
    <2>3. CASE c = d
      <3>1. closing[c] # "told" /\ events'[ClientEp(c)] # <<>>
        BY <1>1, <1>9, <2>1, <2>3 DEF TellClient, Delivered, Agrees, Dismisses
      <3>. QED
        BY <2>2, <3>1 DEF ConnectFinds
    <2>4. CASE c # d
      <3>1. Kept(ClientEp(c)) /\ tell'[c] = tell[c]
        BY <1>1, <1>9, <2>1, <2>4, QueueFacts DEF TellClient, States
      <3>. QED
        BY <1>1, <2>2, <3>1, ConnectSame DEF Established
    <2>. QED
      BY <2>3, <2>4
  <1>10. ASSUME NEW d \in Clients, ServerShutdown(d) PROVE ConnectFinds(c)'
    <2>1. Kept(ClientEp(c)) /\ UNCHANGED <<eqVars, tell, link, sstate>>
      BY <1>1, <1>10, SameSteps, QueueFacts DEF ServerShutdown
    <2>2. CASE c = d
      <3>1. closing'[c] = "sent"
        BY <1>1, <1>10, <2>2 DEF ServerShutdown, States
      <3>2. EQ!Outstanding(ClientEp(c))' = EQ!Outstanding(ClientEp(c))
        BY <2>1 DEF eqVars, EQ!Outstanding
      <3>. QED
        BY <1>1, <2>1, <3>1, <3>2 DEF ConnectFinds, Established, eqVars
    <2>3. CASE c # d
      <3>1. closing'[c] = closing[c]
        BY <1>1, <1>10, <2>3 DEF ServerShutdown, States
      <3>. QED
        BY <1>1, <2>1, <3>1, ConnectSame DEF Established
    <2>. QED
      BY <2>2, <2>3
  <1>11. ASSUME NEW d \in Clients, ArriveServerShutdown(d) PROVE ConnectFinds(c)'
    <2>1. /\ EQ!Deliver(ClientEp(d), Bye(d)) /\ Bye(d) \in Events
          /\ tell' = tell /\ link' = link /\ sstate' = sstate
      BY <1>11 DEF ArriveServerShutdown, Bye, Event, Events, Kinds
    <2>2. CASE c = d
      <3>1. /\ closing[c] = "sent" /\ "client" \notin tell[c] /\ closing'[c] = "told"
            /\ events'[ClientEp(c)] = Append(events[ClientEp(c)], Bye(c))
            /\ EQ!Outstanding(ClientEp(c))' = EQ!Outstanding(ClientEp(c))
        BY <1>1, <1>11, <2>1, <2>2, DeliverFacts, QueueFacts
        DEF ArriveServerShutdown, States
      <3>2. Answer(c)' = Answer(c) /\ Bye(c)' = Bye(c)
        BY <2>1 DEF Answer, Bye, Outcome
      <3>3. ASSUME EQ!Outstanding(ClientEp(c)) > 0
            PROVE  events'[ClientEp(c)] = <<Answer(c), Bye(c)>>
        <4>1. Established(c)
          BY <1>1, <3>1 DEF Agrees, Dismisses, Phase, Established
        <4>2. events[ClientEp(c)] = <<Answer(c)>>
          BY <1>1, <3>1, <3>3, <4>1, Untold DEF ConnectFinds
        <4>. QED
          BY <3>1, <4>2, Appends
      <3>. QED
        BY <3>1, <3>2, <3>3, AnswerFacts DEF ConnectFinds
    <2>3. CASE c # d
      <3>1. Kept(ClientEp(c))
        BY <1>1, <2>1, <2>3, DeliverSteps, QueueFacts
      <3>2. closing'[c] = closing[c]
        BY <1>1, <1>11, <2>3 DEF ArriveServerShutdown, States
      <3>. QED
        BY <1>1, <2>1, <3>1, <3>2, ConnectSame DEF Established
    <2>. QED
      BY <2>2, <2>3
  <1>. QED
    BY <1>3, <1>4, <1>5, <1>6, <1>7, <1>8, <1>9, <1>10, <1>11
    DEF Next, Provider, Programs

-----------------------------------------------------------------------------
(* No exception but for a failure. *)

LEMMA StepServed ==
    ASSUME EQ!EqTypeOK, EQ!EqTypeOK', NEW q \in Queues, Served(q),
           EQ!Outstanding(q) <= 1,
           Kept(q) \/ Delivered(q) \/ Taken(q) \/ Asked(q)
    PROVE  Served(q)'
  <1>1. /\ EQ!Outstanding(q) \in Nat /\ EQ!Outstanding(q)' \in Nat
        /\ waiting[q] \in Nat /\ waiting'[q] \in Nat
        /\ waiting[q] <= EQ!Outstanding(q) /\ waiting'[q] <= EQ!Outstanding(q)'
    BY Reads, ReadsNext
  <1>. DEFINE n == EQ!Outstanding(q)
              m == EQ!Outstanding(q)'
  <1>2. CASE Kept(q)
    <2>1. /\ n \in Nat /\ m \in Nat /\ m <= n /\ waiting[q] \in Nat /\ waiting[q] <= n
          /\ \/ waiting'[q] = waiting[q]
             \/ signalled[q] /\ waiting[q] > 0 /\ waiting'[q] = 0
      BY <1>1, <1>2 DEF Kept
    <2>2. /\ events'[q] = events[q] /\ signalled'[q] = signalled[q]
          /\ waiting[q] < n => events[q] # <<>>
          /\ waiting[q] > 0 /\ signalled[q] => events[q] # <<>>
      BY <1>2 DEF Kept, Served
    <2>. HIDE DEF n, m
    <2>3. /\ waiting'[q] < m => events'[q] # <<>>
          /\ waiting'[q] > 0 /\ signalled'[q] => events'[q] # <<>>
      BY <2>1, <2>2
    <2>. QED
      BY <2>3 DEF Served, m
  <1>3. CASE Delivered(q)
    BY <1>3 DEF Delivered, Served
  <1>4. CASE Taken(q)
    <2>1. n \in Nat /\ m \in Nat /\ n <= 1 /\ m < n /\ waiting'[q] \in Nat
          /\ waiting'[q] <= m
      BY <1>1, <1>4 DEF Taken
    <2>. HIDE DEF n, m
    <2>2. ~(waiting'[q] < m) /\ ~(waiting'[q] > 0)
      BY <2>1
    <2>. QED
      BY <2>2 DEF Served, m
  <1>5. CASE Asked(q)
    <2>1. /\ n \in Nat /\ m = n + 1 /\ waiting[q] \in Nat
          /\ events'[q] = events[q]
          /\ \/ events[q] = <<>> /\ waiting'[q] = waiting[q] + 1 /\ ~signalled'[q]
             \/ events[q] # <<>>
          /\ waiting[q] < n => events[q] # <<>>
      BY <1>1, <1>5 DEF Asked, Served
    <2>. HIDE DEF n, m
    <2>2. /\ waiting'[q] < m => events'[q] # <<>>
          /\ waiting'[q] > 0 /\ signalled'[q] => events'[q] # <<>>
      BY <2>1
    <2>. QED
      BY <2>2 DEF Served, m
  <1>. QED
    BY <1>2, <1>3, <1>4, <1>5

(* Reads of the endpoints are single, those of the passive one if they never *)
(* overlapped.                                                             *)
LEMMA Single ==
    ASSUME AgreeInv, ReadsInv, NEW q \in Queues, q # Pep \/ ~overlapped
    PROVE  EQ!Outstanding(q) <= 1
  <1>1. EQ!Outstanding(q) \in Nat
    BY Reads DEF AgreeInv, States
  <1>. DEFINE n == EQ!Outstanding(q)
  <1>2. CASE q = Pep
    BY <1>2 DEF ReadsInv
  <1>3. CASE q # Pep
    <2>1. PICK c \in Clients : q = ServerEp(c) \/ q = ClientEp(c)
      BY <1>3, QueueFacts
    <2>2. n <= (IF cstate[c] = "new" THEN 0 ELSE 1)
          \/ n <= (IF sstate[c] \in {"accepting", "connected"} THEN 1 ELSE 0)
      BY <2>1 DEF ReadsInv
    <2>. HIDE DEF n
    <2>3. n <= 1
      BY <1>1, <2>2 DEF n
    <2>. QED
      BY <2>3 DEF n
  <1>. QED
    BY <1>2, <1>3

LEMMA StepAllServed ==
    ASSUME AgreeInv, ReadsInv, ServedInv, [Next]_vars
    PROVE  ServedInv'
  <1>1. EQ!EqTypeOK /\ EQ!EqTypeOK' /\ QueueStep
    BY StepAgree, QueueSteps DEF AgreeInv, States
  <1>2. \A q \in Queues : Kept(q) \/ Delivered(q) \/ Taken(q) \/ Asked(q)
    BY <1>1 DEF QueueStep
  <1>3. ASSUME NEW q \in Queues, q # Pep \/ ~overlapped, Served(q)
        PROVE  Served(q)'
    BY <1>1, <1>2, <1>3, Single, StepServed
  <1>4. \A c \in Clients : Served(ClientEp(c))' /\ Served(ServerEp(c))'
    BY <1>3, QueueFacts DEF ServedInv
  <1>5. ~overlapped' => Served(Pep)'
    BY <1>3, OverlapKept, QueueFacts DEF ServedInv
  <1>. QED
    BY <1>4, <1>5 DEF ServedInv

LEMMA Expectations ==
    ASSUME NEW c \in Clients
    PROVE  /\ Event("connreq", c) \in QueueExpected(Pep)
           /\ Event("connected", c) \in QueueExpected(ServerEp(c))
           /\ Event("connected", c) \in QueueExpected(ClientEp(c))
           /\ Event("connrefused", c) \in QueueExpected(ClientEp(c))
  <1>1. ClientEp(c).endpoint = "connecting"
    BY DEF ClientEp
  <1>. QED
    BY <1>1, QueueFacts DEF QueueExpected

(* A read that runs finds what its handler expects, or a failure. *)
LEMMA FindsExpected ==
    ASSUME AgreeInv, ReadsInv, AcceptInv, ConnectInv, NEW q \in Queues, events[q] # <<>>,
           waiting[q] < EQ!Outstanding(q)
    PROVE  Head(events[q]) \in QueueExpected(q) \/ Head(events[q]).kind = "failed"
  <1>1. CASE q = Pep
    BY <1>1, RequestFacts, Expectations
  <1>2. \A c \in Clients : Answer(c).kind = Outcome(c)
    BY DEF Answer, Event
  <1>3. ASSUME NEW c \in Clients, q = ClientEp(c)
        PROVE  Head(events[q]) \in QueueExpected(q) \/ Head(events[q]).kind = "failed"
    <2>1. Head(events[q]) = Answer(c)
      <3>1. Agrees(c) /\ ConnectFinds(c) /\ EQ!Outstanding(q) > 0
        <4>1. waiting[q] \in Nat /\ EQ!Outstanding(q) \in Nat
          BY Reads DEF AgreeInv, States
        <4>. QED
          BY <4>1 DEF AgreeInv, ConnectInv
      <3>2. events[q] \in {<<Answer(c)>>, <<Answer(c), Bye(c)>>}
        BY <1>3, <3>1, Untold DEF ConnectFinds
      <3>. QED
        BY <3>2
    <2>2. Outcome(c) \in {"connected", "connrefused", "failed"}
      BY DEF Outcome
    <2>. QED
      BY <1>2, <1>3, <2>1, <2>2, Expectations DEF Answer
  <1>4. ASSUME NEW c \in Clients, q = ServerEp(c)
        PROVE  Head(events[q]) \in QueueExpected(q) \/ Head(events[q]).kind = "failed"
    <2>1. Agrees(c) /\ AcceptFinds(c) /\ EQ!Outstanding(q) > 0
      <3>1. waiting[q] \in Nat /\ EQ!Outstanding(q) \in Nat
        BY Reads DEF AgreeInv, States
      <3>. QED
        BY <3>1 DEF AgreeInv, AcceptInv
    <2>2. Head(events[q]) = Answer(c)
      <3>1. CASE link[c] = "none"
        <4>1. events[q] = <<Answer(c), Bye(c)>>
          BY <1>4, <2>1, <3>1 DEF AcceptFinds
        <4>. QED
          BY <4>1
      <3>2. CASE link[c] # "none"
        <4>1. events[q] = <<Answer(c)>>
          BY <1>4, <2>1, <3>2 DEF Agrees, ServerTold
        <4>. QED
          BY <4>1
      <3>. QED
        BY <3>1, <3>2
    <2>3. link[c] # "refused"
      BY <1>4, <2>1 DEF Agrees, ServerTold, Phase
    <2>4. Outcome(c) \in {"connected", "failed"}
      BY <2>3 DEF Outcome
    <2>. QED
      BY <1>2, <1>4, <2>2, <2>4, Expectations DEF Answer
  <1>. QED
    BY <1>1, <1>3, <1>4, QueueFacts

LEMMA StepThrows ==
    ASSUME AgreeInv, ReadsInv, AcceptInv, ConnectInv, ServedInv, OnlyFailuresThrow,
           [Next]_vars
    PROVE  OnlyFailuresThrow'
  <1>1. EQ!EqTypeOK /\ QueueStep
    BY QueueSteps DEF AgreeInv, States
  <1>2. overlapped => overlapped'
    BY OverlapKept
  <1>3. CASE thrown' = thrown
    BY <1>2, <1>3 DEF OnlyFailuresThrow
  <1>4. ASSUME NEW p \in Programs, NEW q \in Queues, ThrowsAt(p, q)
        PROVE  OnlyFailuresThrow'
    <2>. DEFINE allowed == {"failed", "info"} \cup
                    IF p = Server /\ overlapped THEN {"timeout"} ELSE {}
    <2>1. PICK what \in EQ!Exceptions :
             /\ Thrown(p, q, what)
             /\ \/ what = "info"
                \/ what = "timeout" /\ events[q] = <<>>
                \/ /\ events[q] # <<>> /\ Head(events[q]) \notin QueueExpected(q)
                   /\ what = IF Head(events[q]).kind = "failed" THEN "failed"
                                                                ELSE "unexpected"
      BY <1>4, ThrowingSteps DEF ThrowsAt
    <2>2. /\ QueueOwner(q) = p /\ waiting[q] < EQ!Outstanding(q)
          /\ \A u \in Programs :
                thrown'[u] = IF u = p THEN thrown[p] \cup {what} ELSE thrown[u]
      BY <1>1, <1>4, <2>1, ThrownFacts DEF ThrowsAt
    <2>3. q # Pep \/ ~overlapped => events[q] # <<>>
      BY <2>2, QueueFacts DEF ServedInv, Served
    <2>4. what = "timeout" => p = Server /\ overlapped
      BY <2>1, <2>2, <2>3, QueueFacts
    <2>5. what # "unexpected"
      BY <2>1, <2>2, FindsExpected
    <2>6. what \in allowed
      BY <2>1, <2>4, <2>5
    <2>. QED
      BY <1>2, <2>2, <2>6 DEF OnlyFailuresThrow, Programs
  <1>. QED
    BY <1>1, <1>3, <1>4 DEF QueueStep

LEMMA InitThrows ==
    ASSUME Init
    PROVE  AcceptInv /\ ConnectInv /\ ServedInv /\ OnlyFailuresThrow
  <1>1. ASSUME NEW q \in Queues PROVE EQ!Outstanding(q) = 0 /\ waiting[q] = 0
    <2>1. waiting[q] = 0 /\ Posted(q) = 0 /\ Running(q) = 0
      BY QueueFacts, OccursEmpty
      DEF Init, EQ!EqInit, Queues, Programs, Posted, Running
    <2>. QED
      BY <2>1, InitAgree, Reads DEF AgreeInv, States
  <1>2. \A c \in Clients : /\ EQ!Outstanding(ServerEp(c)) = 0
                           /\ EQ!Outstanding(ClientEp(c)) = 0
    BY <1>1, QueueFacts
  <1>3. AcceptInv /\ ConnectInv
    BY <1>2 DEF AcceptInv, AcceptFinds, ConnectInv, ConnectFinds
  <1>4. \A q \in Queues : Served(q)
    BY <1>1 DEF Served
  <1>5. ServedInv
    BY <1>4, QueueFacts DEF ServedInv
  <1>6. OnlyFailuresThrow
    BY DEF Init, EQ!EqInit, OnlyFailuresThrow
  <1>. QED
    BY <1>3, <1>5, <1>6

(***************************************************************************)
(* Only failed connections and queries throw out of run(): no read_op times *)
(* out and no handler is given an event it does not expect, unless the      *)
(* server listened twice at a time, when a listen may time out.            *)
(***************************************************************************)
THEOREM ThrowsJustified == Spec => []OnlyFailuresThrow
  <1>. DEFINE Inv == AcceptInv /\ ConnectInv /\ ServedInv /\ OnlyFailuresThrow
  <1>1. Init => Inv
    BY InitThrows
  <1>2. AgreeInv /\ ReadsInv /\ Inv /\ [Next]_vars => Inv'
    BY StepAccepts, StepConnects, StepAllServed, StepThrows
  <1>. QED
    BY <1>1, <1>2, Agreement, ReadsBounded, PTL DEF Spec

=============================================================================
