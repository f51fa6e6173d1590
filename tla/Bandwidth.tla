------------------------------ MODULE Bandwidth ------------------------------
(***************************************************************************)
(* A run of test/benchmarks/msg_bw.cpp: a server, multi-threaded (--mt,     *)
(* BandwidthServerMT) or single-threaded (BandwidthSingleThreaded), and a   *)
(* single-threaded client, with the connections between them.  Both are     *)
(* given the same -i, -q and --ctrl.  A receive completes when a message    *)
(* has been sent, and a send, unless the provider buffers it, when a        *)
(* receive is there to take the message.  A program shuts endpoint down     *)
(* after its last transfer and closes both endpoints when it ends: unless   *)
(* the provider flushes what it accepted before, that may cut off what is   *)
(* still under way to the other program.                                   *)
(***************************************************************************)
EXTENDS Naturals, Sequences

CONSTANTS
    Iterations,   \* option -i
    QueueSize     \* option -q

ASSUME BandwidthAssumption ==
    /\ Iterations \in Nat \ {0}
    /\ QueueSize \in Nat \ {0}

VARIABLES
    mt, ctrlBand,                             \* --mt and --ctrl
    eager, flushes,             \* the provider buffers messages, and flushes them
    main, io, posted, push, pop, waits, queue,    \* multi-threaded server
    stack, count, stored,                         \* single-threaded server
    inflight, ctrl, initiated, completed, shutdown,    \* either server
    clientStack, clientCount, clientStored, clientInflight, clientCtrl,
    clientInitiated, clientCompleted, clientShutdown,
    onWire,                                   \* control messages sent, not received
    cut                                       \* connections that were cut off

configuration == <<mt, ctrlBand, eager, flushes>>
mtVars == <<main, io, posted, push, pop, waits, queue>>
stVars == <<stack, count, stored>>
serverVars == <<mtVars, stVars, inflight, ctrl, initiated, completed, shutdown>>
clientVars == <<clientStack, clientCount, clientStored, clientInflight, clientCtrl,
                clientInitiated, clientCompleted, clientShutdown>>
vars == <<configuration, serverVars, clientVars, onWire, cut>>

MT == INSTANCE BandwidthServerMT WITH
    options <- [ctrl |-> ctrlBand], stored <- waits

ST == INSTANCE BandwidthSingleThreaded WITH
    options <- [ctrl |-> ctrlBand, server |-> TRUE]

Client == INSTANCE BandwidthSingleThreaded WITH
    options <- [ctrl |-> ctrlBand, server |-> FALSE],
    stack <- clientStack, count <- clientCount, stored <- clientStored,
    inflight <- clientInflight, ctrl <- clientCtrl,
    initiated <- clientInitiated, completed <- clientCompleted,
    shutdown <- clientShutdown

TypeOK ==
    /\ mt \in BOOLEAN /\ ctrlBand \in BOOLEAN
    /\ eager \in BOOLEAN /\ flushes \in BOOLEAN
    /\ IF mt THEN MT!TypeOK ELSE ST!TypeOK
    /\ Client!TypeOK
    /\ onWire \in Nat
    /\ cut \subseteq {"endpoint", "ctrl_endpoint"}

Init ==
    /\ mt \in BOOLEAN
    /\ ctrlBand \in BOOLEAN
    /\ eager \in BOOLEAN
    /\ flushes \in BOOLEAN
    /\ MT!Init
    /\ stack = <<"post_buffers">>
    /\ count = [s \in ST!Semaphores |-> QueueSize]
    /\ stored = [s \in ST!Semaphores |-> FALSE]
    /\ Client!Init
    /\ onWire = 0
    /\ cut = {}

-----------------------------------------------------------------------------
Sent == inflight + completed
Received == clientCompleted

(* A receive is posted for the next send to complete. *)
Matched == eager \/ completed < clientInflight + clientCompleted

(* A step of the server; the control message it may send is on its way.    *)
Wire == onWire' = onWire + (IF ctrl' > ctrl THEN 1 ELSE 0)

ServerMTThreads ==
    /\ mt
    /\ MT!MainStep \/ MT!IoStep
    /\ UNCHANGED stVars

ServerMTCompletes ==
    /\ mt
    /\ "endpoint" \notin cut
    /\ Matched
    /\ MT!CompleteSend
    /\ UNCHANGED stVars

ServerSTThread ==
    /\ ~mt
    /\ ST!ThreadStep
    /\ UNCHANGED mtVars

ServerSTCompletes ==
    /\ ~mt
    /\ "endpoint" \notin cut
    /\ Matched
    /\ ST!Complete
    /\ UNCHANGED mtVars

ServerCompletesCtrl ==
    /\ "ctrl_endpoint" \notin cut
    /\ \/ mt /\ MT!CompleteCtrl /\ UNCHANGED stVars
       \/ ~mt /\ ST!CompleteCtrl /\ UNCHANGED mtVars

Serve(A) == UNCHANGED <<configuration, clientVars, cut>> /\ A /\ Wire

ServerStep ==
    \/ Serve(ServerMTThreads)
    \/ Serve(ServerMTCompletes)
    \/ Serve(ServerSTThread)
    \/ Serve(ServerSTCompletes)
    \/ Serve(ServerCompletesCtrl)

ClientThread ==
    /\ UNCHANGED <<configuration, serverVars, onWire, cut>>
    /\ Client!ThreadStep

(* A message arrives. *)
ClientReceives ==
    /\ "endpoint" \notin cut
    /\ Received < Sent
    /\ UNCHANGED <<configuration, serverVars, onWire, cut>>
    /\ Client!Complete

ClientReceivesCtrl ==
    /\ "ctrl_endpoint" \notin cut
    /\ onWire > 0
    /\ onWire' = onWire - 1
    /\ UNCHANGED <<configuration, serverVars, cut>>
    /\ Client!CompleteCtrl

ServerDone == IF mt THEN main = "exit" ELSE ST!Stopped

(* What the shutdown of an endpoint, or the end of a program, which closes   *)
(* its endpoints, can cut off: messages the provider only buffered, sends   *)
(* whose acknowledgement is still missing, control messages.               *)
EndpointAtRisk ==
    \/ shutdown /\ eager /\ Received < Sent
    \/ clientShutdown /\ inflight > 0

CtrlAtRisk ==
    \/ ServerDone /\ onWire > 0
    \/ Client!Stopped /\ ctrl > 0

CutOff ==
    /\ ~flushes
    /\ \/ EndpointAtRisk /\ cut' = cut \cup {"endpoint"}
       \/ CtrlAtRisk /\ cut' = cut \cup {"ctrl_endpoint"}
    /\ UNCHANGED <<configuration, serverVars, clientVars, onWire>>

(* Both programs have ended, or one waits for what was cut off. *)
Terminated ==
    /\ (ServerDone /\ Client!Stopped) \/ cut # {}
    /\ UNCHANGED vars

Next ==
    \/ ServerStep \/ ClientThread \/ ClientReceives \/ ClientReceivesCtrl
    \/ CutOff \/ Terminated

Spec == Init /\ [][Next]_vars

(***************************************************************************)
(* The threads of both programs are scheduled, and the provider completes a *)
(* transfer once the other side has done its part, whenever the thread that *)
(* reads its completion queue is not busy with a handler (strong fairness). *)
(***************************************************************************)
Fairness ==
    /\ WF_vars(Serve(mt /\ MT!MainStep /\ UNCHANGED stVars))
    /\ WF_vars(Serve(mt /\ MT!IoStep /\ UNCHANGED stVars))
    /\ SF_vars(Serve(ServerMTCompletes))
    /\ WF_vars(Serve(~mt /\ ST!ThreadStep /\ UNCHANGED mtVars))
    /\ SF_vars(Serve(ServerSTCompletes))
    /\ WF_vars(ClientThread)
    /\ SF_vars(ClientReceives)
    /\ SF_vars(ClientReceivesCtrl)

FairSpec == Spec /\ Fairness

-----------------------------------------------------------------------------
(* Properties. *)

(***************************************************************************)
(* The I/O thread of the multi-threaded server never pops an empty queue.   *)
(***************************************************************************)
QueueMatchesPermits == mt => MT!QueueMatchesPermits

(***************************************************************************)
(* In both programs, and in both kinds of server, every permit is free or   *)
(* stands for one transfer: never more than -q transfers at a time, none    *)
(* lost, and never a second wait beside a stored one, which would throw.   *)
(***************************************************************************)
PermitsConserved ==
    /\ IF mt THEN MT!PermitsConserved /\ MT!NothingThrown
             ELSE ST!PermitsConserved /\ ST!NothingThrown
    /\ Client!PermitsConserved
    /\ Client!NothingThrown

(***************************************************************************)
(* The functions dispatched from within one another nest at most as deep as *)
(* the queue allows.                                                       *)
(***************************************************************************)
NestingBounded ==
    /\ IF mt THEN MT!NestingBounded ELSE ST!NestingBounded
    /\ Client!NestingBounded

(***************************************************************************)
(* Each program stops when it has transferred all its messages, with none   *)
(* left on its endpoint, and the client not before the server has sent      *)
(* them.  Its operations on ctrl_endpoint may be outstanding.              *)
(***************************************************************************)
StopsWhenDone ==
    /\ IF mt THEN MT!StopsWhenDone ELSE ST!StopsWhenDone
    /\ Client!StopsWhenDone
    /\ Client!Stopped => Sent = Iterations

(***************************************************************************)
(* When the client shuts its endpoint down the server has sent everything   *)
(* and the client has received it, the control messages too.  When the      *)
(* server does, and the provider does not buffer, the client has posted     *)
(* every receive and received every control message: the server's shutdown  *)
(* and end put a message at risk with a buffering provider only.           *)
(***************************************************************************)
ClientIsServed ==
    /\ clientShutdown => Received = Iterations /\ Sent = Iterations /\ onWire = 0
    /\ shutdown /\ ~eager => Received + clientInflight = Iterations /\ onWire = 0

(***************************************************************************)
(* Both programs end, no thread and no program waiting forever for another, *)
(* unless a provider that does not flush cuts something off.  Whether a     *)
(* program that was cut off waits forever or ends with the exception of an  *)
(* error is not modelled.                                                  *)
(***************************************************************************)
Terminates == <>((ServerDone /\ Client!Stopped) \/ cut # {})
=============================================================================
