--------------------------- MODULE ConnectionSetup ---------------------------
(***************************************************************************)
(* asiofi::passive_endpoint and the connection management of               *)
(* asiofi::connected_endpoint (include/asiofi/passive_endpoint.hpp,         *)
(* connected_endpoint.hpp): a server program listens for the connections    *)
(* that client programs ask for, accepts or rejects them, and either side   *)
(* shuts connections down again.  Each client owns one connected_endpoint;  *)
(* the server creates one for each request it accepts.                     *)
(*                                                                         *)
(* `link[c]' is the provider's side of the attempt of client c, `tell[c]'   *)
(* who has still to be told its outcome.                                   *)
(***************************************************************************)
EXTENDS Naturals, Sequences, SequencesExt

CONSTANTS
    Server,
    Clients,
    MaxListens,   \* bound on the listens the server has outstanding
    Dismissed,    \* the clients whose connections the server may shut down
    MaxFailures,  \* bound on the connections that fail while they are being
                  \* set up and the queries for an info that fail
    NoEvent

(* The events of a connection; "failed" is an error entry. *)
Kinds == {"connreq", "connected", "connrefused", "shutdown", "failed"}

ASSUME ConnectionAssumption ==
    /\ Server \notin Clients
    /\ Dismissed \subseteq Clients
    /\ MaxListens \in Nat \ {0}
    /\ MaxFailures \in Nat
    /\ NoEvent \notin [kind : Kinds, client : Clients]

VARIABLES
    events, signalled, waiting, ready, stack, thrown,   \* see EventQueue
    listening,   \* m_listening
    cstate,      \* client: what it knows of its connection
    sstate,      \* server: what it knows of the connection of a client
    closing,     \* server: whether it shut the connection of a client down,
                 \* and whether the client was told
    link, tell,  \* provider
    failures,    \* history: what failed so far
    overlapped   \* history: the server ever listened twice at a time

Pep == [endpoint |-> "passive", client |-> Server]
ServerEp(c) == [endpoint |-> "accepted", client |-> c]
ClientEp(c) == [endpoint |-> "connecting", client |-> c]

ConnectionQueues ==
    {Pep} \cup {ServerEp(c) : c \in Clients} \cup {ClientEp(c) : c \in Clients}

QueueOwner(q) == IF q.endpoint = "connecting" THEN q.client ELSE Server
QueuesOf(p) == {q \in ConnectionQueues : QueueOwner(q) = p}

Event(kind, c) == [kind |-> kind, client |-> c]

(* What the handlers that listen, accept and connect build do not throw at. *)
QueueExpected(q) ==
    {Event("connreq", c) : c \in {d \in Clients : q = Pep}}
    \cup {Event("connected", c) : c \in {d \in Clients : q # Pep}}
    \cup {Event("connrefused", c) :
            c \in {d \in Clients : q.endpoint = "connecting"}}

EQ == INSTANCE EventQueue
    WITH Programs <- {Server} \cup Clients, Queues <- ConnectionQueues,
         Owner <- QueueOwner, Expected <- QueueExpected,
         Events <- [kind : Kinds, client : Clients]

eqVars == <<events, signalled, waiting, ready, stack, thrown>>
vars == <<events, signalled, waiting, ready, stack, thrown,
          listening, cstate, sstate, closing, link, tell, failures, overlapped>>

Sides == {"client", "server"}

TypeOK ==
    /\ EQ!EqTypeOK
    /\ \A q \in ConnectionQueues :
          EQ!Outstanding(q) <= IF q = Pep THEN MaxListens ELSE 1
    /\ listening \in BOOLEAN
    /\ cstate \in [Clients -> {"new", "connecting", "connected", "refused", "shutdown"}]
    /\ sstate \in [Clients -> {"none", "handed", "accepting", "connected", "rejected"}]
    /\ closing \in [Clients -> {"no", "sent", "told"}]
    /\ link \in [Clients -> {"none", "asked", "requested", "accepted", "refused",
                             "failed", "shutdown"}]
    /\ tell \in [Clients -> SUBSET Sides]
    /\ failures \in 0 .. MaxFailures
    /\ overlapped \in BOOLEAN

Init ==
    /\ EQ!EqInit
    /\ listening = FALSE
    /\ cstate = [c \in Clients |-> "new"]
    /\ sstate = [c \in Clients |-> "none"]
    /\ closing = [c \in Clients |-> "no"]
    /\ link = [c \in Clients |-> "none"]
    /\ tell = [c \in Clients |-> {}]
    /\ failures = 0
    /\ overlapped = FALSE

-----------------------------------------------------------------------------
(* The server. *)

Listen ==
    /\ EQ!HasControl(Server)
    /\ EQ!Outstanding(Pep) < MaxListens
    /\ listening' = TRUE
    /\ EQ!AsyncRead(Pep)
    /\ overlapped' = (overlapped \/ EQ!Outstanding(Pep) > 0)
    /\ UNCHANGED <<cstate, sstate, closing, link, tell, failures>>

(* The handler given to listen is called with the request of client c.     *)
HandRequest(c) ==
    /\ EQ!ReadExpected(Server, Pep)
    /\ Head(events[Pep]) = Event("connreq", c)
    /\ sstate' = [sstate EXCEPT ![c] = "handed"]
    /\ UNCHANGED <<listening, cstate, closing, link, tell, failures, overlapped>>

(* A connected_endpoint is created, enabled, and its accept called.         *)
Accept(c) ==
    /\ EQ!HasControl(Server)
    /\ sstate[c] = "handed"
    /\ sstate' = [sstate EXCEPT ![c] = "accepting"]
    /\ IF link[c] = "failed"
       THEN UNCHANGED <<link, tell>>
       ELSE /\ link' = [link EXCEPT ![c] = "accepted"]
            /\ tell' = [tell EXCEPT ![c] = Sides]
    /\ EQ!AsyncRead(ServerEp(c))
    /\ UNCHANGED <<listening, cstate, closing, failures, overlapped>>

(* The handler given to accept is called. *)
Accepted(c) ==
    /\ EQ!ReadExpected(Server, ServerEp(c))
    /\ sstate' = [sstate EXCEPT ![c] = "connected"]
    /\ UNCHANGED <<listening, cstate, closing, link, tell, failures, overlapped>>

Reject(c) ==
    /\ EQ!HasControl(Server)
    /\ sstate[c] = "handed"
    /\ sstate' = [sstate EXCEPT ![c] = "rejected"]
    /\ IF link[c] = "failed"
       THEN UNCHANGED <<link, tell>>
       ELSE /\ link' = [link EXCEPT ![c] = "refused"]
            /\ tell' = [tell EXCEPT ![c] = {"client"}]
    /\ UNCHANGED <<eqVars, listening, cstate, closing, failures, overlapped>>

(* shutdown of an accepted endpoint. *)
ServerShutdown(c) ==
    /\ EQ!HasControl(Server)
    /\ c \in Dismissed
    /\ sstate[c] = "connected"
    /\ closing[c] = "no"
    /\ closing' = [closing EXCEPT ![c] = "sent"]
    /\ UNCHANGED <<eqVars, listening, cstate, sstate, link, tell, failures,
                   overlapped>>

-----------------------------------------------------------------------------
(* The clients. *)


Connect(c) ==
    /\ EQ!HasControl(c)
    /\ cstate[c] = "new"
    /\ cstate' = [cstate EXCEPT ![c] = "connecting"]
    /\ link' = [link EXCEPT ![c] = "asked"]
    /\ EQ!AsyncRead(ClientEp(c))
    /\ UNCHANGED <<listening, sstate, closing, tell, failures, overlapped>>

Mut_ConnectedAnyway(c) ==
    /\ EQ!ReadExpected(c, ClientEp(c))
    /\ cstate' = [cstate EXCEPT ![c] = "connected"]
    /\ UNCHANGED <<listening, sstate, closing, link, tell, failures, overlapped>>

(* The handler given to connect is called with the outcome. *)
Connected(c) ==
    /\ EQ!ReadExpected(c, ClientEp(c))
    /\ cstate' = [cstate EXCEPT ![c] =
                    IF Head(events[ClientEp(c)]) = Event("connected", c)
                    THEN "connected" ELSE "refused"]
    /\ UNCHANGED <<listening, sstate, closing, link, tell, failures, overlapped>>

(* shutdown, the peer is told by an event nobody reads. *)
Shutdown(c) ==
    /\ EQ!HasControl(c)
    /\ cstate[c] = "connected"
    /\ cstate' = [cstate EXCEPT ![c] = "shutdown"]
    /\ link' = [link EXCEPT ![c] = "shutdown"]
    /\ UNCHANGED <<eqVars, listening, sstate, closing, tell, failures, overlapped>>

-----------------------------------------------------------------------------
(* The provider. *)

(* A request reaches the server's host: it is queued if somebody listens.  *)
Arrive(c) ==
    /\ link[c] = "asked"
    /\ IF listening
       THEN /\ EQ!Deliver(Pep, Event("connreq", c))
            /\ link' = [link EXCEPT ![c] = "requested"]
            /\ UNCHANGED tell
       ELSE /\ link' = [link EXCEPT ![c] = "refused"]
            /\ tell' = [tell EXCEPT ![c] = {"client"}]
            /\ UNCHANGED eqVars
    /\ UNCHANGED <<listening, cstate, sstate, closing, failures, overlapped>>

(* One side is told what became of the connection.                         *)
Outcome(c) == CASE link[c] = "refused" -> "connrefused"
                [] link[c] = "failed" -> "failed"
                [] OTHER -> "connected"

TellClient(c) ==
    /\ "client" \in tell[c]
    /\ EQ!Deliver(ClientEp(c), Event(Outcome(c), c))
    /\ tell' = [tell EXCEPT ![c] = @ \ {"client"}]
    /\ UNCHANGED <<listening, cstate, sstate, closing, link, failures, overlapped>>

TellServer(c) ==
    /\ "server" \in tell[c]
    /\ EQ!Deliver(ServerEp(c), Event(Outcome(c), c))
    /\ tell' = [tell EXCEPT ![c] = @ \ {"server"}]
    /\ UNCHANGED <<listening, cstate, sstate, closing, link, failures, overlapped>>

(* A shutdown reaches the other side, after the outcome did.               *)
ArriveShutdown(c) ==
    /\ link[c] = "shutdown"
    /\ tell[c] = {}
    /\ EQ!Deliver(ServerEp(c), Event("shutdown", c))
    /\ link' = [link EXCEPT ![c] = "none"]
    /\ UNCHANGED <<listening, cstate, sstate, closing, tell, failures, overlapped>>

ArriveServerShutdown(c) ==
    /\ closing[c] = "sent"
    /\ "client" \notin tell[c]
    /\ EQ!Deliver(ClientEp(c), Event("shutdown", c))
    /\ closing' = [closing EXCEPT ![c] = "told"]
    /\ UNCHANGED <<listening, cstate, sstate, link, tell, failures, overlapped>>

(* The connection breaks before anybody was told that it is established.   *)
Break(c) ==
    /\ failures < MaxFailures
    /\ failures' = failures + 1
    /\ \/ link[c] \in {"asked", "requested"}
       \/ link[c] = "accepted" /\ tell[c] = Sides
    /\ link' = [link EXCEPT ![c] = "failed"]
    /\ tell' = [tell EXCEPT ![c] = IF sstate[c] = "accepting" THEN Sides ELSE {"client"}]
    /\ UNCHANGED <<eqVars, listening, cstate, sstate, closing, overlapped>>

Provider(c) ==
    \/ Arrive(c) \/ TellClient(c) \/ TellServer(c)
    \/ ArriveShutdown(c) \/ ArriveServerShutdown(c)

-----------------------------------------------------------------------------
(* The thread of program p goes on in io_context::run().                    *)

Proceed(p) ==
    /\ \/ EQ!RunOne(p)
       \/ EQ!HandlerReturns(p)
       \/ \E q \in QueuesOf(p) :
             \/ EQ!ReadUnexpected(p, q)
             \/ EQ!ReadTimesOut(p, q)
             \/ EQ!DescriptorReady(q)
    /\ UNCHANGED <<listening, cstate, sstate, closing, link, tell, failures, overlapped>>

(* A query for an info fails. *)
InfoThrows(p) ==
    /\ failures < MaxFailures
    /\ failures' = failures + 1
    /\ \E q \in QueuesOf(p) : EQ!ReadInfoThrows(p, q)
    /\ UNCHANGED <<listening, cstate, sstate, closing, link, tell, overlapped>>

Thread(p) ==
    \/ Proceed(p)
    \/ InfoThrows(p)
    \/ p = Server /\ \E c \in Clients : HandRequest(c) \/ Accepted(c)
    \/ p \in Clients /\ Connected(p)

Next ==
    \/ Listen
    \/ \E c \in Clients :
          \/ Accept(c) \/ Reject(c) \/ ServerShutdown(c)
          \/ Connect(c) \/ Shutdown(c)
          \/ Provider(c) \/ Break(c)
    \/ \E p \in {Server} \cup Clients : Thread(p)

Spec == Init /\ [][Next]_vars

(***************************************************************************)
(* The io_contexts run and what the provider has to tell arrives: these     *)
(* steps stay enabled, or are enabled again as soon as a handler has made    *)
(* its last call, until they are taken.  Nothing obliges the programs to    *)
(* call an operation or a connection to break.                             *)
(***************************************************************************)
Fairness ==
    /\ \A c \in Clients : WF_vars(Provider(c))
    /\ \A p \in {Server} \cup Clients : WF_vars(Thread(p))

FairSpec == Spec /\ Fairness

-----------------------------------------------------------------------------
(* Properties. *)

(***************************************************************************)
(* No event is missed between the fi_trywait of async_read and the wait on  *)
(* the descriptor.                                                         *)
(***************************************************************************)
NoMissedEvent == EQ!NoMissedEvent

(***************************************************************************)
(* A program that never has two reads outstanding on one event queue only   *)
(* sees exceptions for connections and queries that failed: no read_op      *)
(* blocks for its 100 ms and times out although the descriptor was          *)
(* readable, and no handler is given an event it does not expect, in spite  *)
(* of the events (shutdown) that nobody reads.  A server that listened      *)
(* twice at a time may see the second read_op time out, and no other        *)
(* exception more.                                                         *)
(***************************************************************************)
OnlyFailuresThrow ==
    \A p \in {Server} \cup Clients :
        thrown[p] \subseteq {"failed", "info"} \cup
            IF p = Server /\ overlapped THEN {"timeout"} ELSE {}

(***************************************************************************)
(* The two ends agree: a client that was told it is connected was accepted, *)
(* one that was told it is refused was rejected or never heard of by the    *)
(* server, and a server whose accept has completed has a client that was or *)
(* will be told the same, whatever exception keeps an event from its        *)
(* handler.                                                                *)
(***************************************************************************)
EndpointsAgree ==
    \A c \in Clients :
        /\ cstate[c] \in {"connected", "shutdown"}
               => sstate[c] \in {"accepting", "connected"}
        /\ cstate[c] = "refused" => sstate[c] \in {"none", "rejected"}
        /\ sstate[c] = "connected"
               => cstate[c] \in {"connecting", "connected", "shutdown"}

(***************************************************************************)
(* A queued request reaches a handler as long as a listen is outstanding.  *)
(***************************************************************************)
RequestReachesListener ==
    \A c \in Clients :
        (Contains(events[Pep], Event("connreq", c)) /\ EQ!Outstanding(Pep) > 0)
            ~> (\/ ~Contains(events[Pep], Event("connreq", c))
                \/ EQ!Outstanding(Pep) = 0)

=============================================================================
