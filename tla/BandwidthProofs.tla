--------------------------- MODULE BandwidthProofs ---------------------------
(***************************************************************************)
(* Proofs of the safety invariants of Bandwidth: for any number of messages *)
(* and any length of the queue, with every kind of server, with and without *)
(* a control band, whether or not the provider buffers messages and whether *)
(* or not it flushes them.                                                  *)
(***************************************************************************)
EXTENDS Bandwidth, SequenceTheorems, TLAPS

(* The lemmas about the single-threaded server and about the client. *)
Server == INSTANCE BandwidthSingleThreadedProofs WITH
    options <- [ctrl |-> ctrlBand, server |-> TRUE]

Receiver == INSTANCE BandwidthSingleThreadedProofs WITH
    options <- [ctrl |-> ctrlBand, server |-> FALSE],
    stack <- clientStack, count <- clientCount, stored <- clientStored,
    inflight <- clientInflight, ctrl <- clientCtrl,
    initiated <- clientInitiated, completed <- clientCompleted,
    shutdown <- clientShutdown

One(P) == IF P THEN 1 ELSE 0
TopOf(s) == Server!TopOf(s)

-----------------------------------------------------------------------------
(* The invariant of the multi-threaded server. *)

Top == TopOf(io)           \* what the I/O thread does
Pending == TopOf(posted)     \* what is posted to it

(* Only calls that are about to return have called something else, and never *)
(* more than one function is posted.                                        *)
Shape ==
    /\ Server!Nested(io, {"return"})
    /\ Len(posted) <= 1
    /\ Pending \in {"idle", "post_buffers", "pop_buffer", "stop"}
    /\ Pending = "post_buffers" => io = <<>> /\ inflight = 0
    /\ Pending = "stop" => Top \in {"idle", "return"}
    /\ Top # "terminate"
    /\ ~ctrlBand => Top # "send_ctrl"

(* The next transfer is in one place: posted, running or waiting for a      *)
(* permit.  That is why queue_pop is never waited for twice.               *)
OneTurn ==
    One(Top \in {"post_buffers", "pop_buffer", "send_ctrl", "send", "again"})
        + One(Pending \in {"post_buffers", "pop_buffer"}) + One(waits) <= 1

(* A permit of queue_push is free or stands for one transfer. *)
Pushes ==
    push + One(main = "push_buffer") + queue + inflight
        + One(Top \in {"send_ctrl", "send", "completed"}) = QueueSize

(* A permit of queue_pop, or what it became, stands for one buffer. *)
Pops ==
    queue = pop + One(Top = "pop_buffer") + One(Pending = "pop_buffer")
                + One(main = "signal")

(* The main thread counts a transfer after it announced it. *)
Begun ==
    /\ completed + inflight + queue + One(Top \in {"send_ctrl", "send"})
          + One(main = "push_buffer")
         = initiated + One(main \in {"push_buffer", "signal", "count"})
    /\ initiated + One(main \in {"push_buffer", "signal", "count"}) <= Iterations

(* Each round of calls leaves two frames and posts a send. *)
Spare ==
    IF Top \in {"pop_buffer", "send_ctrl", "send"} THEN 2
    ELSE IF Top = "again" THEN 0 ELSE 1

Depth == Len(io) <= 2 * inflight + Spare

EndsLast ==
    shutdown \/ Pending = "stop" \/ Top \in {"stop", "stopped"}
        => completed = Iterations

MTInv ==
    /\ MT!TypeOK
    /\ Shape
    /\ OneTurn
    /\ Pushes
    /\ Pops
    /\ Begun
    /\ Depth
    /\ EndsLast

-----------------------------------------------------------------------------
(* The transfers announced by a control message, which is sent before them. *)
MTAnnounced == Sent + One(Top = "send")
CtrlSent == IF mt THEN MTAnnounced ELSE Server!Announced

(* The invariant of a run. *)
IInv ==
    /\ mt \in BOOLEAN /\ ctrlBand \in BOOLEAN
    /\ eager \in BOOLEAN /\ flushes \in BOOLEAN
    /\ onWire \in Nat
    /\ cut \subseteq {"endpoint", "ctrl_endpoint"}
    /\ mt => MTInv
    /\ ~mt => Server!IInv
    /\ Receiver!IInv
    /\ Received <= Sent
    /\ ~eager => completed <= clientInflight + clientCompleted
    /\ ~ctrlBand => onWire = 0
    /\ ctrlBand => onWire + Receiver!Announced = CtrlSent

-----------------------------------------------------------------------------
(* Every step of the multi-threaded server keeps its invariant. *)

(* In the stack s, of n calls, the I/O thread is at label. *)
Runs(s, label, n) ==
    /\ s \in Seq(MT!Labels) /\ Len(s) = n /\ TopOf(s) = label
    /\ Server!Nested(s, {"return"})

LEMMA Types ==
    ASSUME MTInv
    PROVE  /\ io \in Seq(MT!Labels) /\ Len(io) \in Nat
           /\ posted \in Seq(MT!Labels) /\ Len(posted) \in Nat
           /\ main \in MT!MainLabels /\ waits \in BOOLEAN
           /\ push \in Nat /\ pop \in Nat /\ queue \in Nat
           /\ inflight \in Nat /\ ctrl \in Nat
           /\ initiated \in Nat /\ completed \in Nat
           /\ Iterations \in Nat /\ QueueSize \in Nat
  BY BandwidthAssumption DEF MTInv, MT!TypeOK

LEMMA Numbers ==
    ASSUME MTInv
    PROVE  /\ push \in Nat /\ pop \in Nat /\ queue \in Nat
           /\ inflight \in Nat /\ ctrl \in Nat
           /\ initiated \in Nat /\ completed \in Nat
           /\ Iterations \in Nat /\ QueueSize \in Nat
  BY Types

LEMMA AtTop ==
    ASSUME NEW label \in MT!Labels, MT!At(label)
    PROVE  Top = label /\ io # <<>>
  <1>1. io # <<>> /\ io[Len(io)] = label
    BY DEF MT!At, MT!Last
  <1>. QED
    BY <1>1 DEF Top, TopOf, Server!TopOf, Server!Last

LEMMA ProceedTop ==
    ASSUME MTInv, io # <<>>, NEW label \in MT!Labels, MT!Proceed(label, <<>>)
    PROVE  Runs(io', label, Len(io))
  <1>1. io \in Seq(MT!Labels) /\ Server!Nested(io, {"return"})
    BY DEF MTInv, MT!TypeOK, Shape
  <1>2. Server!Continues(io', io, label, <<>>)
    BY DEF MT!Proceed, MT!Front, Server!Continues, Server!Front
  <1>3. /\ io' \in Seq(MT!Labels) /\ Len(io') = Len(io)
        /\ Server!TopOf(io') = label /\ Server!Nested(io', {"return"})
    BY <1>1, <1>2, Server!ProceedFacts
  <1>. QED
    BY <1>3 DEF Runs, TopOf

LEMMA ProceedCall ==
    ASSUME MTInv, io # <<>>, NEW callee \in MT!Labels, MT!Proceed("return", <<callee>>)
    PROVE  Runs(io', callee, Len(io) + 1)
  <1>1. io \in Seq(MT!Labels) /\ Server!Nested(io, {"return"})
    BY DEF MTInv, MT!TypeOK, Shape
  <1>2. Server!Continues(io', io, "return", <<callee>>)
    BY DEF MT!Proceed, MT!Front, Server!Continues, Server!Front
  <1>3. "return" \in MT!Labels /\ "return" \in {"return"}
    BY DEF MT!Labels
  <1>4. /\ io' \in Seq(MT!Labels) /\ Len(io') = Len(io) + 1
        /\ Server!TopOf(io') = callee /\ Server!Nested(io', {"return"})
    BY <1>1, <1>2, <1>3, Server!CallFacts
  <1>. QED
    BY <1>4 DEF Runs, TopOf

LEMMA OneCall ==
    ASSUME NEW label \in MT!Labels, label # "idle"
    PROVE  Runs(<<label>>, label, 1)
  BY Server!SingleFacts DEF Runs, TopOf

LEMMA IdleIsEmpty ==
    ASSUME NEW s \in Seq(MT!Labels), TopOf(s) = "idle"
    PROVE  s = <<>>
  <1>1. CASE s # <<>>
    <2>1. Len(s) \in 1 .. Len(s) /\ TopOf(s) = s[Len(s)]
      BY <1>1 DEF TopOf, Server!TopOf, Server!Last
    <2>. QED
      BY <2>1 DEF MT!Labels
  <1>. QED
    BY <1>1

LEMMA MainWaitInv ==
    ASSUME MTInv, MT!MainWait
    PROVE  MTInv'
  BY Types
  DEF MT!MainWait, MT!MainLabels, MTInv, MT!TypeOK, Runs, Shape, Top, Pending, OneTurn, Pushes, Pops, Begun,
      Depth, Spare, EndsLast, One

LEMMA PushBufferInv ==
    ASSUME MTInv, MT!PushBuffer
    PROVE  MTInv'
  BY Types
  DEF MT!PushBuffer, MT!MainLabels, MTInv, MT!TypeOK, Runs, Shape, Top, Pending, OneTurn, Pushes, Pops, Begun,
      Depth, Spare, EndsLast, One

LEMMA SignalPopInv ==
    ASSUME MTInv, MT!SignalPop
    PROVE  MTInv'
  <1>1. /\ main = "signal" /\ main' = "count"
        /\ UNCHANGED <<ctrlBand, io, push, queue, inflight, ctrl, initiated, completed,
                       shutdown>>
    BY DEF MT!SignalPop
  <1>2. UNCHANGED Top
    BY <1>1 DEF Top
  <1>3. CASE waits
    <2>1. waits' = FALSE /\ posted' = Append(posted, "pop_buffer") /\ pop' = pop
      BY <1>3 DEF MT!SignalPop
    <2>2. Pending = "idle"
      BY <1>1, <1>3, Numbers DEF MTInv, Shape, OneTurn, Pops, Begun, EndsLast, One
    <2>3. posted = <<>>
      BY <2>2, IdleIsEmpty, Types DEF Pending
    <2>4. posted' = <<"pop_buffer">>
      BY <2>1, <2>3
    <2>5. Runs(posted', "pop_buffer", 1)
      BY <2>4, OneCall DEF MT!Labels
    <2>6. /\ posted' \in Seq(MT!Labels) /\ Len(posted') = 1 /\ Pending' = "pop_buffer"
      BY <2>5 DEF Runs, Pending
    <2>7. MT!TypeOK'
      BY <1>1, <2>1, <2>6, Types DEF MTInv, MT!TypeOK, MT!MainLabels
    <2>8. Shape'
      BY <1>1, <1>2, <2>6 DEF MTInv, Shape
    <2>9. OneTurn' /\ Pushes' /\ Begun' /\ Depth' /\ EndsLast'
      BY <1>1, <1>2, <1>3, <2>1, <2>2, <2>6, Types
      DEF MTInv, OneTurn, Pushes, Begun, Depth, Spare, EndsLast, One
    <2>10. Pops'
      BY <1>1, <1>2, <2>1, <2>2, <2>6, Types DEF MTInv, Pops, One
    <2>. QED
      BY <2>7, <2>8, <2>9, <2>10 DEF MTInv
  <1>4. CASE ~waits
    <2>1. pop' = pop + 1 /\ UNCHANGED <<waits, posted>>
      BY <1>4 DEF MT!SignalPop
    <2>2. UNCHANGED Pending
      BY <2>1 DEF Pending
    <2>. QED
      BY <1>1, <1>2, <1>4, <2>1, <2>2, Types
      DEF MT!MainLabels, MTInv, MT!TypeOK, Runs, Shape, Top, Pending, OneTurn, Pushes, Pops, Begun,
          Depth, Spare, EndsLast, One
  <1>. QED
    BY <1>3, <1>4, Types

LEMMA CountInitiatedInv ==
    ASSUME MTInv, MT!CountInitiated
    PROVE  MTInv'
  BY Types
  DEF MT!CountInitiated, MT!MainLabels, MTInv, MT!TypeOK, Runs, Shape, Top, Pending, OneTurn, Pushes, Pops, Begun,
      Depth, Spare, EndsLast, One

LEMMA LeaveInv ==
    ASSUME MTInv, MT!MainLoopEnds \/ MT!Join
    PROVE  MTInv'
  <1>1. /\ main' \in {"join", "exit"} /\ main \notin {"push_buffer", "signal", "count"}
        /\ UNCHANGED <<ctrlBand, io, posted, push, pop, waits, queue, inflight, ctrl,
                       initiated, completed, shutdown>>
    BY DEF MT!MainLoopEnds, MT!Join
  <1>. QED
    BY <1>1, Types
    DEF MT!MainLabels, MTInv, MT!TypeOK, Runs, Shape, Top, Pending, OneTurn, Pushes, Pops, Begun,
      Depth, Spare, EndsLast, One

(* The one function that is posted runs next. *)
LEMMA RunPostedFacts ==
    ASSUME MTInv, MT!RunPosted
    PROVE  /\ Len(posted) = 1 /\ Head(posted) = Pending
           /\ Pending \in {"post_buffers", "pop_buffer", "stop"}
  <1>1. posted # <<>> /\ Len(posted) = 1
    BY Types DEF MT!RunPosted, MTInv, Shape
  <1>2. Head(posted) = posted[1] /\ posted[1] \in MT!Labels
    BY <1>1, Types
  <1>3. Pending = posted[1]
    BY <1>1 DEF Pending, TopOf, Server!TopOf, Server!Last
  <1>. QED
    BY <1>1, <1>2, <1>3 DEF MTInv, Shape, MT!Labels

LEMMA RunPostedInv ==
    ASSUME MTInv, MT!RunPosted
    PROVE  MTInv'
  <1>1. /\ io = <<>> /\ posted # <<>> /\ io' = <<Head(posted)>> /\ posted' = Tail(posted)
        /\ UNCHANGED <<ctrlBand, main, push, pop, waits, queue, inflight, ctrl, initiated,
                       completed, shutdown>>
    BY DEF MT!RunPosted
  <1>2. Top = "idle"
    BY <1>1 DEF Top, TopOf, Server!TopOf
  <1>3. Len(posted) = 1
    BY RunPostedFacts
  <1>4. Head(posted) = Pending /\ Pending \in {"post_buffers", "pop_buffer", "stop"}
    BY RunPostedFacts
  <1>5. Runs(io', Pending, 1)
    BY <1>1, <1>4, OneCall DEF MT!Labels
  <1>6. posted' \in Seq(MT!Labels) /\ Len(posted') = 0 /\ Pending' = "idle"
    <2>1. posted \in Seq(MT!Labels)
      BY Types
    <2>2. Tail(posted) \in Seq(MT!Labels) /\ Len(Tail(posted)) = 0
      BY <1>1, <1>3, <2>1, HeadTailProperties
    <2>3. posted' = <<>>
      BY <1>1, <2>2, EmptySeq
    <2>. QED
      BY <2>3 DEF Pending, TopOf, Server!TopOf
  <1>. QED
    BY <1>1, <1>2, <1>4, <1>5, <1>6, Types
    DEF MTInv, MT!TypeOK, Runs, Shape, Top, OneTurn, Pushes, Pops, Begun, Depth,
        Spare, EndsLast, One

LEMMA PostBuffersInv ==
    ASSUME MTInv, MT!PostBuffers
    PROVE  MTInv'
  <1>1. Top = "post_buffers" /\ io # <<>>
    BY AtTop DEF MT!PostBuffers, MT!Labels
  <1>2. UNCHANGED <<ctrlBand, main, posted, push, queue, inflight, ctrl, initiated, completed,
                    shutdown>>
    BY DEF MT!PostBuffers
  <1>3. UNCHANGED Pending
    BY <1>2 DEF Pending
  <1>4. ~waits /\ Pending \notin {"post_buffers", "pop_buffer"}
    BY <1>1, Types DEF MTInv, OneTurn, One
  <1>5. CASE pop > 0
    <2>1. /\ pop' = pop - 1 /\ UNCHANGED waits
          /\ MT!Proceed("return", <<"pop_buffer">>)
      BY <1>5 DEF MT!PostBuffers
    <2>2. Runs(io', "pop_buffer", Len(io) + 1)
      BY <1>1, <2>1, ProceedCall DEF MT!Labels
    <2>. QED
      BY <1>1, <1>2, <1>3, <1>4, <1>5, <2>1, <2>2, Types
      DEF MTInv, MT!TypeOK, Runs, Shape, Top, OneTurn, Pushes, Pops, Begun, Depth,
          Spare, EndsLast, One
  <1>6. CASE ~(pop > 0)
    <2>1. /\ pop' = pop /\ waits' = TRUE
          /\ MT!Proceed("return", <<>>)
      BY <1>4, <1>6 DEF MT!PostBuffers
    <2>2. Runs(io', "return", Len(io))
      BY <1>1, <2>1, ProceedTop DEF MT!Labels
    <2>. QED
      BY <1>1, <1>2, <1>3, <1>4, <2>1, <2>2, Types
      DEF MTInv, MT!TypeOK, Runs, Shape, Top, OneTurn, Pushes, Pops, Begun, Depth,
          Spare, EndsLast, One
  <1>. QED
    BY <1>5, <1>6

(* The I/O thread finds a buffer in the queue. *)
LEMMA PopBufferInv ==
    ASSUME MTInv, MT!PopBuffer
    PROVE  MTInv'
  <1>1. Top = "pop_buffer" /\ io # <<>>
    BY AtTop DEF MT!PopBuffer, MT!Labels
  <1>2. /\ UNCHANGED <<ctrlBand, main, posted, push, pop, waits, inflight, ctrl, initiated,
                       completed, shutdown>>
        /\ queue' = queue - 1
    BY DEF MT!PopBuffer
  <1>3. UNCHANGED Pending
    BY <1>2 DEF Pending
  <1>4. queue > 0
    BY <1>1, Types DEF MTInv, Pops, One
  <1>5. PICK label \in {"send_ctrl", "send"} :
            MT!Proceed(label, <<>>) /\ (~ctrlBand => label = "send")
    BY DEF MT!PopBuffer, MT!CtrlBand
  <1>6. Runs(io', label, Len(io))
    BY <1>1, <1>5, ProceedTop DEF MT!Labels
  <1>7. MT!TypeOK' /\ Shape' /\ Depth' /\ EndsLast'
    BY <1>1, <1>2, <1>3, <1>4, <1>5, <1>6, Types
    DEF MTInv, MT!TypeOK, Runs, Top, Shape, Depth, Spare, EndsLast
  <1>8. OneTurn'
    BY <1>1, <1>2, <1>3, <1>6, Types DEF MTInv, Runs, Top, OneTurn, One
  <1>9. Pushes'
    <2>. DEFINE pushing == One(main = "push_buffer")
    <2>1. push + pushing + queue + inflight + 0 = QueueSize /\ pushing \in Nat
      BY <1>1 DEF MTInv, Pushes, One
    <2>2. One(Top' \in {"send_ctrl", "send", "completed"}) = 1
      BY <1>6 DEF Runs, Top, One
    <2>3. pushing' = pushing
      BY <1>2
    <2>4. push + pushing + (queue - 1) + inflight + 1 = QueueSize
      <3>. HIDE DEF pushing
      <3>. QED
        BY <2>1, Numbers
    <2>. QED
      BY <1>2, <2>2, <2>3, <2>4 DEF Pushes
  <1>10. Pops'
    BY <1>1, <1>2, <1>3, <1>6, Numbers DEF MTInv, Runs, Top, Pops, One
  <1>11. Begun'
    BY <1>1, <1>2, <1>6, Types DEF MTInv, Runs, Top, Begun, One
  <1>. QED
    BY <1>7, <1>8, <1>9, <1>10, <1>11 DEF MTInv

LEMMA SendCtrlInv ==
    ASSUME MTInv, MT!SendCtrl
    PROVE  MTInv'
  <1>1. Top = "send_ctrl" /\ io # <<>>
    BY AtTop DEF MT!SendCtrl, MT!Labels
  <1>2. /\ UNCHANGED <<ctrlBand, main, posted, push, pop, waits, queue, inflight,
                       initiated, completed, shutdown>>
        /\ ctrl' = ctrl + 1
    BY DEF MT!SendCtrl
  <1>3. UNCHANGED Pending
    BY <1>2 DEF Pending
  <1>4. Runs(io', "send", Len(io))
    BY <1>1, ProceedTop DEF MT!SendCtrl, MT!Labels
  <1>. QED
    BY <1>1, <1>2, <1>3, <1>4, Types
    DEF MTInv, MT!TypeOK, Runs, Shape, Top, OneTurn, Pushes, Pops, Begun, Depth,
        Spare, EndsLast, One

LEMMA SendInv ==
    ASSUME MTInv, MT!Send
    PROVE  MTInv'
  <1>1. Top = "send" /\ io # <<>>
    BY AtTop DEF MT!Send, MT!Labels
  <1>2. /\ UNCHANGED <<ctrlBand, main, posted, push, pop, waits, queue, ctrl,
                       initiated, completed, shutdown>>
        /\ inflight' = inflight + 1
    BY DEF MT!Send
  <1>3. UNCHANGED Pending
    BY <1>2 DEF Pending
  <1>4. Runs(io', "again", Len(io))
    BY <1>1, ProceedTop DEF MT!Send, MT!Labels
  <1>. QED
    BY <1>1, <1>2, <1>3, <1>4, Types
    DEF MTInv, MT!TypeOK, Runs, Shape, Top, OneTurn, Pushes, Pops, Begun, Depth,
        Spare, EndsLast, One

LEMMA AgainInv ==
    ASSUME MTInv, MT!Again
    PROVE  MTInv'
  <1>1. Top = "again" /\ io # <<>>
    BY AtTop DEF MT!Again, MT!Labels
  <1>2. UNCHANGED <<ctrlBand, main, posted, push, pop, waits, queue, inflight, ctrl,
                    initiated, completed, shutdown>>
    BY DEF MT!Again
  <1>3. UNCHANGED Pending
    BY <1>2 DEF Pending
  <1>4. Runs(io', "post_buffers", Len(io) + 1)
    BY <1>1, ProceedCall DEF MT!Again, MT!Labels
  <1>. QED
    BY <1>1, <1>2, <1>3, <1>4, Types
    DEF MTInv, MT!TypeOK, Runs, Shape, Top, OneTurn, Pushes, Pops, Begun, Depth,
        Spare, EndsLast, One

LEMMA ReturnIoInv ==
    ASSUME MTInv, MT!ReturnIo
    PROVE  MTInv'
  <1>1. Top = "return" /\ io # <<>>
    BY AtTop DEF MT!ReturnIo, MT!Labels
  <1>2. /\ UNCHANGED <<ctrlBand, main, posted, push, pop, waits, queue, inflight, ctrl,
                       initiated, completed, shutdown>>
        /\ io' = Server!Front(io)
    BY DEF MT!ReturnIo, MT!Front, Server!Front
  <1>3. UNCHANGED Pending
    BY <1>2 DEF Pending
  <1>4. io \in Seq(MT!Labels) /\ Server!Nested(io, {"return"})
    BY DEF MTInv, MT!TypeOK, Shape
  <1>5. /\ io' \in Seq(MT!Labels) /\ Len(io') = Len(io) - 1
        /\ Server!Nested(io', {"return"}) /\ Top' \in {"return", "idle"}
    BY <1>1, <1>2, <1>4, Server!FrontFacts DEF Top, TopOf
  <1>6. MT!TypeOK' /\ Shape' /\ Depth' /\ EndsLast'
    BY <1>1, <1>2, <1>3, <1>5, Types DEF MTInv, MT!TypeOK, Shape, Depth, Spare, EndsLast
  <1>7. OneTurn' /\ Pushes' /\ Pops' /\ Begun'
    BY <1>1, <1>2, <1>3, <1>5, Types DEF MTInv, OneTurn, Pushes, Pops, Begun, One
  <1>. QED
    BY <1>6, <1>7 DEF MTInv

LEMMA CompleteCtrlInv ==
    ASSUME MTInv, MT!CompleteCtrl
    PROVE  MTInv'
  <1>1. /\ UNCHANGED <<ctrlBand, main, io, posted, push, pop, waits, queue, inflight,
                       initiated, completed, shutdown>>
        /\ ctrl' \in Nat
    BY Types DEF MT!CompleteCtrl
  <1>2. UNCHANGED <<Top, Pending>>
    BY <1>1 DEF Top, Pending
  <1>. QED
    BY <1>1, <1>2, Types
    DEF MTInv, MT!TypeOK, Runs, Shape, Top, OneTurn, Pushes, Pops, Begun, Depth,
        Spare, EndsLast, One

LEMMA CompleteSendInv ==
    ASSUME MTInv, MT!CompleteSend
    PROVE  MTInv'
  <1>1. /\ UNCHANGED <<ctrlBand, main, posted, push, pop, waits, queue, ctrl, initiated,
                       shutdown>>
        /\ io = <<>> /\ io' = <<"completed">>
        /\ inflight > 0 /\ inflight' = inflight - 1 /\ completed' = completed + 1
    BY DEF MT!CompleteSend
  <1>2. UNCHANGED Pending
    BY <1>1 DEF Pending
  <1>3. Top = "idle"
    BY <1>1 DEF Top, TopOf, Server!TopOf
  <1>4. Runs(io', "completed", 1)
    BY <1>1, OneCall DEF MT!Labels
  <1>. QED
    BY <1>1, <1>2, <1>3, <1>4, Types
    DEF MTInv, MT!TypeOK, Runs, Shape, Top, OneTurn, Pushes, Pops, Begun, Depth,
        Spare, EndsLast, One

LEMMA SignalPushInv ==
    ASSUME MTInv, MT!SignalPush
    PROVE  MTInv'
  <1>1. Top = "completed" /\ io # <<>>
    BY AtTop DEF MT!SignalPush, MT!Labels
  <1>2. /\ UNCHANGED <<ctrlBand, main, posted, pop, waits, queue, inflight, ctrl,
                       initiated, completed, shutdown>>
        /\ push' = push + 1
    BY DEF MT!SignalPush
  <1>3. UNCHANGED Pending
    BY <1>2 DEF Pending
  <1>4. Runs(io', "check", Len(io))
    BY <1>1, ProceedTop DEF MT!SignalPush, MT!Labels
  <1>5. MT!TypeOK' /\ Shape' /\ Depth' /\ EndsLast'
    BY <1>1, <1>2, <1>3, <1>4, Types
    DEF MTInv, MT!TypeOK, Runs, Top, Shape, Depth, Spare, EndsLast
  <1>6. OneTurn' /\ Pops' /\ Begun'
    BY <1>1, <1>2, <1>3, <1>4, Types
    DEF MTInv, Runs, Top, OneTurn, Pops, Begun, One
  <1>7. Pushes'
    <2>. DEFINE pushing == One(main = "push_buffer")
    <2>1. push + pushing + queue + inflight + 1 = QueueSize /\ pushing \in Nat
      BY <1>1 DEF MTInv, Pushes, One
    <2>2. One(Top' \in {"send_ctrl", "send", "completed"}) = 0
      BY <1>4 DEF Runs, Top, One
    <2>3. pushing' = pushing
      BY <1>2
    <2>4. (push + 1) + pushing + queue + inflight + 0 = QueueSize
      <3>. HIDE DEF pushing
      <3>. QED
        BY <2>1, Numbers
    <2>. QED
      BY <1>2, <2>2, <2>3, <2>4 DEF Pushes
  <1>. QED
    BY <1>5, <1>6, <1>7 DEF MTInv

(* When the last send has completed nothing else is posted: the handler of  *)
(* queue_pop waits, and the main thread signals no more.                    *)
LEMMA CheckCompletedInv ==
    ASSUME MTInv, MT!CheckCompleted
    PROVE  MTInv'
  <1>1. Top = "check" /\ io # <<>>
    BY AtTop DEF MT!CheckCompleted, MT!Labels
  <1>2. /\ UNCHANGED <<ctrlBand, main, push, pop, waits, queue, inflight, ctrl, initiated,
                       completed>>
        /\ shutdown' = (shutdown \/ completed = Iterations)
    BY DEF MT!CheckCompleted
  <1>3. Runs(io', "return", Len(io))
    BY <1>1, ProceedTop DEF MT!CheckCompleted, MT!Labels
  <1>4. CASE completed = Iterations
    <2>1. Pending = "idle"
      BY <1>1, <1>4, Numbers DEF MTInv, Shape, Pops, Begun, One
    <2>2. posted = <<>>
      BY <2>1, IdleIsEmpty, Types DEF Pending
    <2>3. posted' = <<"stop">>
      BY <1>4, <2>2 DEF MT!CheckCompleted
    <2>4. Runs(posted', "stop", 1)
      BY <2>3, OneCall DEF MT!Labels
    <2>5. posted' \in Seq(MT!Labels) /\ Len(posted') = 1 /\ Pending' = "stop"
      BY <2>4 DEF Runs, Pending
    <2>. QED
      BY <1>1, <1>2, <1>3, <1>4, <2>1, <2>5, Types
      DEF MTInv, MT!TypeOK, Runs, Shape, Top, OneTurn, Pushes, Pops, Begun, Depth,
          Spare, EndsLast, One
  <1>5. CASE completed # Iterations
    <2>1. UNCHANGED <<posted, Pending>>
      BY <1>5 DEF MT!CheckCompleted, Pending
    <2>. QED
      BY <1>1, <1>2, <1>3, <2>1, Types
      DEF MTInv, MT!TypeOK, Runs, Shape, Top, OneTurn, Pushes, Pops, Begun, Depth,
          Spare, EndsLast, One
  <1>. QED
    BY <1>4, <1>5

LEMMA StopInv ==
    ASSUME MTInv, MT!Stop
    PROVE  MTInv'
  <1>1. Top = "stop" /\ io # <<>>
    BY AtTop DEF MT!Stop, MT!Labels
  <1>2. UNCHANGED <<ctrlBand, main, posted, push, pop, waits, queue, inflight, ctrl,
                    initiated, completed, shutdown>>
    BY DEF MT!Stop
  <1>3. UNCHANGED Pending
    BY <1>2 DEF Pending
  <1>4. Runs(io', "stopped", Len(io))
    BY <1>1, ProceedTop DEF MT!Stop, MT!Labels
  <1>. QED
    BY <1>1, <1>2, <1>3, <1>4, Types
    DEF MTInv, MT!TypeOK, Runs, Shape, Top, OneTurn, Pushes, Pops, Begun, Depth,
        Spare, EndsLast, One

-----------------------------------------------------------------------------
(* The single-threaded programs of Bandwidth are those of the lemmas. *)

LEMMA SameServer ==
    /\ ST!ThreadStep => Server!ThreadStep
    /\ ST!Complete => Server!Complete
    /\ ST!CompleteCtrl => Server!CompleteCtrl
  BY DEF ST!ThreadStep, Server!ThreadStep, ST!Complete, Server!Complete,
      ST!CompleteCtrl, Server!CompleteCtrl, ST!PostBuffers, Server!PostBuffers,
      ST!GrantedSem, Server!GrantedSem, ST!GrantedSem2, Server!GrantedSem2,
      ST!Transfer, Server!Transfer, ST!Again, Server!Again, ST!Return,
      Server!Return, ST!SignalPace, Server!SignalPace, ST!CheckCompleted,
      Server!CheckCompleted, ST!SignalSem, Server!SignalSem, ST!WaitSem2,
      Server!WaitSem2, ST!Stop, Server!Stop, ST!Proceed, Server!Proceed, ST!At,
      Server!At, ST!AsyncWait, Server!AsyncWait, ST!Signal, Server!Signal,
      ST!Granted, Server!Granted, ST!Front, Server!Front, ST!Last, Server!Last,
      ST!Pace, Server!Pace, ST!CtrlBand, Server!CtrlBand, ST!IsServer,
      Server!IsServer

LEMMA SameClient ==
    /\ Client!Init => Receiver!Init
    /\ Client!ThreadStep => Receiver!ThreadStep
    /\ Client!Complete => Receiver!Complete
    /\ Client!CompleteCtrl => Receiver!CompleteCtrl
  BY DEF Client!Init, Receiver!Init, Client!Options, Receiver!Options,
      Client!Semaphores, Receiver!Semaphores, Client!ThreadStep,
      Receiver!ThreadStep, Client!Complete, Receiver!Complete,
      Client!CompleteCtrl, Receiver!CompleteCtrl, Client!PostBuffers,
      Receiver!PostBuffers, Client!GrantedSem, Receiver!GrantedSem,
      Client!GrantedSem2, Receiver!GrantedSem2, Client!Transfer,
      Receiver!Transfer, Client!Again, Receiver!Again, Client!Return,
      Receiver!Return, Client!SignalPace, Receiver!SignalPace,
      Client!CheckCompleted, Receiver!CheckCompleted, Client!SignalSem,
      Receiver!SignalSem, Client!WaitSem2, Receiver!WaitSem2, Client!Stop,
      Receiver!Stop, Client!Proceed, Receiver!Proceed, Client!At, Receiver!At,
      Client!AsyncWait, Receiver!AsyncWait, Client!Signal, Receiver!Signal,
      Client!Granted, Receiver!Granted, Client!Front, Receiver!Front,
      Client!Last, Receiver!Last, Client!Pace, Receiver!Pace, Client!CtrlBand,
      Receiver!CtrlBand, Client!IsServer, Receiver!IsServer

LEMMA SameCardinality ==
    ASSUME NEW S
    PROVE  /\ ST!Cardinality(S) = Server!Cardinality(S)
           /\ Client!Cardinality(S) = Receiver!Cardinality(S)
           /\ MT!Cardinality(S) = Server!Cardinality(S)
  BY DEF ST!Cardinality, Server!Cardinality, Client!Cardinality,
         Receiver!Cardinality, MT!Cardinality

LEMMA SameServerProperties ==
    /\ Server!TypeOK => ST!TypeOK
    /\ Server!PermitsConserved => ST!PermitsConserved
    /\ Server!NothingThrown => ST!NothingThrown
    /\ Server!NestingBounded => ST!NestingBounded
    /\ Server!StopsWhenDone => ST!StopsWhenDone
    /\ Server!Stopped <=> ST!Stopped
  <1>1. Server!TypeOK => ST!TypeOK
    BY DEF ST!TypeOK, Server!TypeOK, ST!Options, Server!Options, ST!Semaphores,
        Server!Semaphores, ST!Labels, Server!Labels
  <1>2. \A l : ST!Frames(l) = Server!Frames(l)
    BY SameCardinality DEF ST!Frames, Server!Frames
  <1>3. ST!Pace = Server!Pace /\ \A s : ST!Granted(s) = Server!Granted(s)
    BY DEF ST!Pace, Server!Pace, ST!CtrlBand, Server!CtrlBand, ST!IsServer,
        Server!IsServer, ST!Granted, Server!Granted
  <1>4. \A s : ST!Holds(s) = Server!Holds(s)
    BY <1>2, <1>3 DEF ST!Holds, Server!Holds
  <1>5. Server!PermitsConserved => ST!PermitsConserved
    BY <1>3, <1>4 DEF ST!PermitsConserved, Server!PermitsConserved
  <1>6. /\ Server!NothingThrown => ST!NothingThrown
        /\ Server!NestingBounded => ST!NestingBounded
        /\ Server!StopsWhenDone => ST!StopsWhenDone
        /\ Server!Stopped <=> ST!Stopped
    BY DEF ST!NothingThrown, Server!NothingThrown, ST!At, Server!At, ST!Last,
        Server!Last, ST!NestingBounded, Server!NestingBounded,
        ST!StopsWhenDone, Server!StopsWhenDone, ST!Stopped, Server!Stopped
  <1>. QED
    BY <1>1, <1>5, <1>6

LEMMA SameClientProperties ==
    /\ Receiver!TypeOK => Client!TypeOK
    /\ Receiver!PermitsConserved => Client!PermitsConserved
    /\ Receiver!NothingThrown => Client!NothingThrown
    /\ Receiver!NestingBounded => Client!NestingBounded
    /\ Receiver!StopsWhenDone => Client!StopsWhenDone
    /\ Receiver!Stopped <=> Client!Stopped
  <1>1. Receiver!TypeOK => Client!TypeOK
    BY DEF Client!TypeOK, Receiver!TypeOK, Client!Options, Receiver!Options,
        Client!Semaphores, Receiver!Semaphores, Client!Labels, Receiver!Labels
  <1>2. \A l : Client!Frames(l) = Receiver!Frames(l)
    BY SameCardinality DEF Client!Frames, Receiver!Frames
  <1>3. Client!Pace = Receiver!Pace /\ \A s : Client!Granted(s) = Receiver!Granted(s)
    BY DEF Client!Pace, Receiver!Pace, Client!CtrlBand, Receiver!CtrlBand,
        Client!IsServer, Receiver!IsServer, Client!Granted, Receiver!Granted
  <1>4. \A s : Client!Holds(s) = Receiver!Holds(s)
    BY <1>2, <1>3 DEF Client!Holds, Receiver!Holds
  <1>5. Receiver!PermitsConserved => Client!PermitsConserved
    BY <1>3, <1>4 DEF Client!PermitsConserved, Receiver!PermitsConserved
  <1>6. /\ Receiver!NothingThrown => Client!NothingThrown
        /\ Receiver!NestingBounded => Client!NestingBounded
        /\ Receiver!StopsWhenDone => Client!StopsWhenDone
        /\ Receiver!Stopped <=> Client!Stopped
    BY DEF Client!NothingThrown, Receiver!NothingThrown, Client!At, Receiver!At,
        Client!Last, Receiver!Last, Client!NestingBounded,
        Receiver!NestingBounded, Client!StopsWhenDone, Receiver!StopsWhenDone,
        Client!Stopped, Receiver!Stopped
  <1>. QED
    BY <1>1, <1>5, <1>6

-----------------------------------------------------------------------------
(* What the invariant of the multi-threaded server implies. *)

LEMMA MTStepInv ==
    ASSUME MTInv, MT!MainStep \/ MT!IoStep \/ MT!CompleteCtrl \/ MT!CompleteSend
    PROVE  MTInv'
  BY MainWaitInv, PushBufferInv, SignalPopInv, CountInitiatedInv, LeaveInv,
     RunPostedInv, PostBuffersInv, PopBufferInv, SendCtrlInv, SendInv, AgainInv,
     ReturnIoInv, SignalPushInv, CheckCompletedInv, StopInv, CompleteCtrlInv,
     CompleteSendInv
  DEF MT!MainStep, MT!IoStep

(* A step of the server posts sends and forgets none, and each transfer is   *)
(* announced by the control message sent before it.                        *)
LEMMA MTStepCounts ==
    ASSUME MTInv, MT!MainStep \/ MT!IoStep \/ MT!CompleteCtrl \/ MT!CompleteSend
    PROVE  /\ Sent \in Nat /\ Sent' \in Nat /\ Sent' >= Sent
           /\ ctrlBand => MTAnnounced' = MTAnnounced + One(ctrl' > ctrl)
           /\ ~ctrlBand => ~(ctrl' > ctrl)
  <1>. DEFINE Counts ==
         /\ Sent' \in Nat /\ Sent' >= Sent
         /\ ctrlBand => MTAnnounced' = MTAnnounced + One(ctrl' > ctrl)
         /\ ~ctrlBand => ~(ctrl' > ctrl)
  <1>0. Sent \in Nat
    BY Types DEF Sent
  <1>1. ASSUME UNCHANGED <<inflight, completed, ctrl>>,
               ctrlBand => (Top # "send" /\ Top' # "send") \/ UNCHANGED io
        PROVE  Counts
    BY <1>0, <1>1, Types DEF Sent, MTAnnounced, Top, One
  <1>2. ASSUME MT!MainStep PROVE Counts
    BY <1>1, <1>2 DEF MT!MainStep, MT!MainWait, MT!PushBuffer, MT!SignalPop,
        MT!CountInitiated, MT!MainLoopEnds, MT!Join
  <1>3. ASSUME MT!RunPosted PROVE Counts
    <2>1. Top = "idle" /\ UNCHANGED <<inflight, completed, ctrl>>
      BY <1>3 DEF MT!RunPosted, Top, TopOf, Server!TopOf
    <2>2. io' = <<Pending>> /\ Pending \in {"post_buffers", "pop_buffer", "stop"}
      BY <1>3, RunPostedFacts DEF MT!RunPosted
    <2>3. Runs(io', Pending, 1)
      BY <2>2, OneCall DEF MT!Labels
    <2>4. Top' # "send"
      BY <2>2, <2>3 DEF Runs, Top
    <2>. QED
      BY <1>1, <2>1, <2>4
  <1>4. ASSUME MT!PostBuffers PROVE Counts
    <2>1. Top = "post_buffers" /\ io # <<>> /\ UNCHANGED <<inflight, completed, ctrl>>
      BY <1>4, AtTop DEF MT!PostBuffers, MT!Labels
    <2>2. CASE pop > 0
      <3>1. Runs(io', "pop_buffer", Len(io) + 1)
        BY <1>4, <2>1, <2>2, ProceedCall DEF MT!PostBuffers, MT!Labels
      <3>. QED
        BY <1>1, <2>1, <3>1 DEF Runs, Top
    <2>3. CASE ~(pop > 0)
      <3>1. PICK label \in {"terminate", "return"} : MT!Proceed(label, <<>>)
        BY <1>4, <2>3 DEF MT!PostBuffers
      <3>2. Runs(io', label, Len(io))
        BY <2>1, <3>1, ProceedTop DEF MT!Labels
      <3>. QED
        BY <1>1, <2>1, <3>2 DEF Runs, Top
    <2>. QED
      BY <2>2, <2>3
  <1>5. ASSUME MT!PopBuffer PROVE Counts
    <2>1. Top = "pop_buffer" /\ io # <<>> /\ UNCHANGED <<inflight, completed, ctrl>>
      BY <1>5, AtTop DEF MT!PopBuffer, MT!Labels
    <2>2. ASSUME ctrlBand PROVE Top' # "send"
      <3>1. MT!Proceed("send_ctrl", <<>>)
        BY <1>5, <2>2 DEF MT!PopBuffer, MT!CtrlBand
      <3>2. Runs(io', "send_ctrl", Len(io))
        BY <2>1, <3>1, ProceedTop DEF MT!Labels
      <3>. QED
        BY <3>2 DEF Runs, Top
    <2>. QED
      BY <1>1, <2>1, <2>2
  <1>6. ASSUME MT!SendCtrl PROVE Counts
    <2>1. /\ Top = "send_ctrl" /\ io # <<>> /\ UNCHANGED <<inflight, completed>>
          /\ ctrl' = ctrl + 1
      BY <1>6, AtTop DEF MT!SendCtrl, MT!Labels
    <2>2. Runs(io', "send", Len(io))
      BY <1>6, <2>1, ProceedTop DEF MT!SendCtrl, MT!Labels
    <2>3. One(Top = "send") = 0 /\ One(Top' = "send") = 1 /\ One(ctrl' > ctrl) = 1
      BY <2>1, <2>2, Types DEF Runs, Top, One
    <2>4. ctrlBand
      BY <2>1 DEF MTInv, Shape
    <2>. QED
      BY <1>0, <2>1, <2>3, <2>4, Types DEF Sent, MTAnnounced
  <1>7. ASSUME MT!Send PROVE Counts
    <2>1. /\ Top = "send" /\ io # <<>> /\ UNCHANGED <<ctrl, completed>>
          /\ inflight' = inflight + 1
      BY <1>7, AtTop DEF MT!Send, MT!Labels
    <2>2. Runs(io', "again", Len(io))
      BY <1>7, <2>1, ProceedTop DEF MT!Send, MT!Labels
    <2>3. One(Top = "send") = 1 /\ One(Top' = "send") = 0 /\ One(ctrl' > ctrl) = 0
      BY <2>1, <2>2, Types DEF Runs, Top, One
    <2>4. Sent' = Sent + 1 /\ MTAnnounced = Sent + 1 /\ MTAnnounced' = Sent' + 0
      BY <2>1, <2>3, Numbers DEF Sent, MTAnnounced
    <2>5. ~(ctrl' > ctrl)
      BY <2>1, Numbers
    <2>. QED
      BY <1>0, <2>3, <2>4, <2>5
  <1>8. ASSUME MT!Again PROVE Counts
    <2>1. Top = "again" /\ io # <<>> /\ UNCHANGED <<inflight, completed, ctrl>>
      BY <1>8, AtTop DEF MT!Again, MT!Labels
    <2>2. Runs(io', "post_buffers", Len(io) + 1)
      BY <1>8, <2>1, ProceedCall DEF MT!Again, MT!Labels
    <2>. QED
      BY <1>1, <2>1, <2>2 DEF Runs, Top
  <1>9. ASSUME MT!ReturnIo PROVE Counts
    <2>1. /\ Top = "return" /\ io # <<>> /\ UNCHANGED <<inflight, completed, ctrl>>
          /\ io' = Server!Front(io)
      BY <1>9, AtTop DEF MT!ReturnIo, MT!Labels, MT!Front, Server!Front
    <2>2. io \in Seq(MT!Labels) /\ Server!Nested(io, {"return"})
      BY DEF MTInv, MT!TypeOK, Shape
    <2>3. Top' \in {"return", "idle"}
      BY <2>1, <2>2, Server!FrontFacts DEF Top, TopOf
    <2>. QED
      BY <1>1, <2>1, <2>3
  <1>10. ASSUME MT!SignalPush \/ MT!CheckCompleted \/ MT!Stop PROVE Counts
    <2>1. /\ Top \in {"completed", "check", "stop"} /\ io # <<>>
          /\ UNCHANGED <<inflight, completed, ctrl>>
      BY <1>10, AtTop DEF MT!SignalPush, MT!CheckCompleted, MT!Stop, MT!Labels
    <2>2. PICK label \in {"check", "return", "stopped"} : MT!Proceed(label, <<>>)
      BY <1>10 DEF MT!SignalPush, MT!CheckCompleted, MT!Stop
    <2>3. Runs(io', label, Len(io))
      BY <2>1, <2>2, ProceedTop DEF MT!Labels
    <2>. QED
      BY <1>1, <2>1, <2>3 DEF Runs, Top
  <1>11. ASSUME MT!CompleteCtrl PROVE Counts
    <2>1. UNCHANGED <<inflight, completed, io>> /\ ctrl' = ctrl - 1
      BY <1>11 DEF MT!CompleteCtrl
    <2>2. One(ctrl' > ctrl) = 0 /\ ~(ctrl' > ctrl) /\ UNCHANGED One(Top = "send")
      BY <2>1, Types DEF One, Top
    <2>. QED
      BY <1>0, <2>1, <2>2, Types DEF Sent, MTAnnounced, One
  <1>12. ASSUME MT!CompleteSend PROVE Counts
    <2>1. /\ UNCHANGED ctrl /\ io = <<>> /\ io' = <<"completed">>
          /\ inflight' = inflight - 1 /\ completed' = completed + 1
      BY <1>12 DEF MT!CompleteSend
    <2>2. Runs(io', "completed", 1)
      BY <2>1, OneCall DEF MT!Labels
    <2>3. Top = "idle" /\ Top' = "completed"
      BY <2>1, <2>2 DEF Runs, Top, TopOf, Server!TopOf
    <2>4. Sent' = Sent /\ ~(ctrl' > ctrl)
      BY <2>1, Numbers DEF Sent
    <2>. QED
      BY <1>0, <2>3, <2>4 DEF MTAnnounced, One
  <1>. QED
    BY <1>0, <1>2, <1>3, <1>4, <1>5, <1>6, <1>7, <1>8, <1>9, <1>10, <1>11, <1>12
    DEF MT!IoStep

LEMMA MTStutterInv ==
    ASSUME MTInv,
           UNCHANGED <<ctrlBand, mtVars, inflight, ctrl, initiated, completed, shutdown>>
    PROVE  MTInv'
  BY DEF mtVars, MTInv, MT!TypeOK, MT!Options, Shape, Top, Pending, OneTurn, Pushes,
         Pops, Begun, Depth, Spare, EndsLast

LEMMA MTSafetyOfInv ==
    ASSUME MTInv
    PROVE  /\ MT!QueueMatchesPermits /\ MT!PermitsConserved
           /\ MT!NothingThrown /\ MT!NestingBounded /\ MT!StopsWhenDone
           /\ inflight + completed <= Iterations
  <1>1. \A l \in MT!Labels \ {"return"} : MT!Count(l) = One(Top = l)
    <2>. TAKE l \in MT!Labels \ {"return"}
    <2>1. /\ io \in Seq(MT!Labels) /\ Server!Nested(io, {"return"})
          /\ l \notin {"return"} /\ l # "idle"
      BY DEF MTInv, MT!TypeOK, Shape, MT!Labels
    <2>2. /\ Server!TopOf(io) = l => Server!Occurrences(io, l) = 1
          /\ Server!TopOf(io) # l => Server!Occurrences(io, l) = 0
      BY <2>1, Server!OnTopOnce
    <2>. QED
      BY <2>2, SameCardinality DEF MT!Count, Server!Occurrences, Top, TopOf, One
  <1>2. MT!CountPosted("pop_buffer") = One(Pending = "pop_buffer")
    <2>1. /\ posted \in Seq(MT!Labels) /\ Server!Nested(posted, {})
          /\ "pop_buffer" \notin {} /\ "pop_buffer" # "idle"
      BY Types DEF MTInv, MT!TypeOK, Shape, Server!Nested
    <2>2. /\ Server!TopOf(posted) = "pop_buffer"
                => Server!Occurrences(posted, "pop_buffer") = 1
          /\ Server!TopOf(posted) # "pop_buffer"
                => Server!Occurrences(posted, "pop_buffer") = 0
      BY <2>1, Server!OnTopOnce
    <2>. QED
      BY <2>2, SameCardinality DEF MT!CountPosted, Server!Occurrences, Pending, TopOf,
                                  One
  <1>3. /\ MT!Count("pop_buffer") = One(Top = "pop_buffer")
        /\ MT!Count("send_ctrl") = One(Top = "send_ctrl")
        /\ MT!Count("send") = One(Top = "send")
        /\ MT!Count("completed") = One(Top = "completed")
    BY <1>1 DEF MT!Labels
  <1>4. MT!QueueMatchesPermits
    BY <1>2, <1>3, Types DEF MTInv, Pops, MT!QueueMatchesPermits, MT!Announced, One
  <1>5. MT!PermitsConserved
    <2>1. CASE Top \in {"send_ctrl", "send", "completed"}
      <3>1. One(Top = "send_ctrl") + One(Top = "send") + One(Top = "completed") = 1
        BY <2>1 DEF One
      <3>2. One(Top \in {"send_ctrl", "send", "completed"}) = 1
        BY <2>1 DEF One
      <3>. DEFINE m == One(main = "push_buffer")
                  a == One(Top = "send_ctrl")
                  b == One(Top = "send")
                  c == One(Top = "completed")
      <3>3. m \in Nat /\ a \in Nat /\ b \in Nat /\ c \in Nat
        BY DEF One
      <3>4. push + m + queue + inflight + 1 = QueueSize
        BY <3>2 DEF MTInv, Pushes
      <3>5. MT!Transfers = m + queue + a + b + inflight + c
        BY <1>3 DEF MT!Transfers, One
      <3>6. a + b + c = 1
        BY <3>1
      <3>7. push \in Nat /\ queue \in Nat /\ inflight \in Nat /\ QueueSize \in Nat
        BY Types
      <3>. HIDE DEF m, a, b, c
      <3>8. push + (m + queue + a + b + inflight + c) = QueueSize
        BY <3>3, <3>4, <3>6, <3>7
      <3>. QED
        BY <3>5, <3>8 DEF MT!PermitsConserved
    <2>2. CASE Top \notin {"send_ctrl", "send", "completed"}
      BY <1>3, <2>2, Numbers DEF MTInv, Pushes, MT!PermitsConserved, MT!Transfers, One
    <2>. QED
      BY <2>1, <2>2
  <1>6. MT!NestingBounded
    <2>1. /\ inflight <= QueueSize
          /\ Top \in {"send_ctrl", "send"} => inflight + 1 <= QueueSize
          /\ Top = "pop_buffer" => inflight + 1 <= QueueSize
      <3>1. CASE Top \in {"send_ctrl", "send"}
        BY <3>1, Numbers DEF MTInv, Pushes, One
      <3>2. CASE Top = "pop_buffer"
        <4>1. queue > 0
          BY <3>2, Types DEF MTInv, Pops, One
        <4>. QED
          BY <3>2, <4>1, Numbers DEF MTInv, Pushes, One
      <3>3. CASE Top \notin {"pop_buffer", "send_ctrl", "send"}
        BY <3>3, Numbers DEF MTInv, Pushes, One
      <3>. QED
        BY <3>1, <3>2, <3>3
    <2>2. CASE Top \in {"pop_buffer", "send_ctrl", "send"}
      <3>1. Len(io) <= 2 * inflight + 2 /\ inflight + 1 <= QueueSize
        BY <2>1, <2>2 DEF MTInv, Depth, Spare
      <3>. QED
        BY <3>1, Numbers DEF MT!NestingBounded
    <2>3. CASE Top \notin {"pop_buffer", "send_ctrl", "send"}
      <3>1. Len(io) <= 2 * inflight + 1
        BY <2>3, Types DEF MTInv, Depth, Spare
      <3>. QED
        BY <2>1, <3>1, Types DEF MT!NestingBounded
    <2>. QED
      BY <2>2, <2>3
  <1>7. MT!Stopped => Top = "stopped"
    BY DEF MT!Stopped, Top, TopOf, Server!TopOf, Server!Last
  <1>8. inflight + completed + queue <= Iterations
    BY Types DEF MTInv, Begun, One
  <1>9. MT!StopsWhenDone
    BY <1>7, <1>8, Types DEF MTInv, EndsLast, MT!StopsWhenDone
  <1>10. MT!NothingThrown
    BY AtTop DEF MTInv, Shape, MT!NothingThrown, MT!Labels
  <1>. QED
    BY <1>4, <1>5, <1>6, <1>8, <1>9, <1>10, Types

-----------------------------------------------------------------------------
(* The run. *)

LEMMA ServerInit ==
    ASSUME Init
    PROVE  MTInv /\ Server!Init
  <1>1. /\ MT!TypeOK /\ main = "while" /\ io = <<>> /\ posted = <<"post_buffers">>
        /\ push = QueueSize /\ pop = 0 /\ waits = FALSE /\ queue = 0
        /\ inflight = 0 /\ initiated = 0 /\ completed = 0 /\ ~shutdown
    <2>1. posted \in Seq(MT!Labels) /\ io \in Seq(MT!Labels)
      <3>1. "post_buffers" \in MT!Labels
        BY DEF MT!Labels
      <3>2. posted = <<"post_buffers">> /\ io = <<>>
        BY DEF Init, MT!Init
      <3>. QED
        BY <3>1, <3>2
    <2>. QED
      BY <2>1, BandwidthAssumption DEF Init, MT!Init, MT!TypeOK, MT!MainLabels
  <1>2. Top = "idle"
    BY <1>1 DEF Top, TopOf, Server!TopOf
  <1>3. Runs(<<"post_buffers">>, "post_buffers", 1)
    BY OneCall DEF MT!Labels
  <1>4. Pending = "post_buffers" /\ Len(posted) = 1
    BY <1>1, <1>3 DEF Pending, Runs
  <1>5. Server!Nested(io, {"return"}) /\ Len(io) = 0
    BY <1>1 DEF Server!Nested
  <1>6. MTInv
    BY <1>1, <1>2, <1>4, <1>5, BandwidthAssumption
    DEF MTInv, Shape, OneTurn, Pushes, Pops, Begun, Depth, Spare, EndsLast, One
  <1>7. Server!Init
    BY DEF Init, MT!Init, Server!Init, Server!Options, ST!Semaphores,
           Server!Semaphores
  <1>. QED
    BY <1>6, <1>7

LEMMA ClientInit ==
    ASSUME Init
    PROVE  Receiver!Init
  BY DEF Init, Client!Init, Receiver!Init, Client!Options, Receiver!Options,
         Client!Semaphores, Receiver!Semaphores

LEMMA InitInv ==
    ASSUME Init
    PROVE  IInv
  <1>1. Server!IInv /\ Receiver!IInv
    BY ServerInit, ClientInit, Server!InitInv, Receiver!InitInv, BandwidthAssumption
  <1>2. Received = 0 /\ Sent = 0 /\ completed = 0
    BY DEF Init, MT!Init, Client!Init, Received, Sent
  <1>3. Received <= Sent /\ completed <= clientInflight + clientCompleted
    BY <1>2 DEF Init, Client!Init, Received
  <1>4. /\ mt \in BOOLEAN /\ ctrlBand \in BOOLEAN
        /\ eager \in BOOLEAN /\ flushes \in BOOLEAN
        /\ onWire \in Nat /\ onWire = 0 /\ cut \subseteq {"endpoint", "ctrl_endpoint"}
    BY DEF Init
  <1>5. Receiver!Announced = 0 /\ CtrlSent = 0
    <2>1. /\ stack = <<"post_buffers">> /\ clientStack = <<"post_buffers">>
          /\ ~stored["sem2"] /\ ~clientStored["sem2"]
          /\ initiated = 0 /\ clientInitiated = 0 /\ io = <<>>
      BY DEF Init, MT!Init, Client!Init, ST!Semaphores, Client!Semaphores
    <2>2. /\ Server!TopOf(<<"post_buffers">>) = "post_buffers"
          /\ Receiver!TopOf(<<"post_buffers">>) = "post_buffers"
          /\ Top = "idle"
      BY <2>1, Server!SingleFacts, Receiver!SingleFacts
      DEF Server!Labels, Receiver!Labels, Top, TopOf, Server!TopOf
    <2>3. Receiver!Announced = 0
      BY <2>1, <2>2 DEF Receiver!Announced, Receiver!Early, Receiver!Top, Receiver!One
    <2>4. Server!Announced = 0 /\ MTAnnounced = 0
      BY <1>2, <2>1, <2>2
      DEF Server!Announced, Server!Early, Server!Top, Server!One, MTAnnounced, One
    <2>. QED
      BY <2>3, <2>4 DEF CtrlSent
  <1>. QED
    BY <1>1, <1>3, <1>4, <1>5, ServerInit DEF IInv

LEMMA SentIsNat ==
    ASSUME IInv
    PROVE  /\ Sent \in Nat /\ Received \in Nat /\ completed \in Nat
           /\ clientInflight \in Nat /\ clientCompleted \in Nat
           /\ Receiver!Announced \in Nat /\ CtrlSent \in Nat
  <1>1. /\ Received \in Nat /\ clientInflight \in Nat /\ clientCompleted \in Nat
        /\ Receiver!Announced \in Nat
    BY Receiver!AllAnnounced, BandwidthAssumption
    DEF IInv, Received, Receiver!IInv, Receiver!TypeOK
  <1>2. CASE mt
    BY <1>1, <1>2, Types DEF IInv, Sent, CtrlSent, MTAnnounced, One
  <1>3. CASE ~mt
    <2>1. Server!Announced \in Nat
      BY <1>3, Server!AllAnnounced, BandwidthAssumption DEF IInv
    <2>. QED
      BY <1>1, <1>3, <2>1 DEF IInv, Sent, CtrlSent, Server!IInv, Server!TypeOK
  <1>. QED
    BY <1>2, <1>3

(* With a control band the server's semaphore is sem, the client's sem2.   *)
LEMMA Bands ==
    /\ Server!Pace = "sem" /\ (Server!CtrlBand <=> ctrlBand)
    /\ (ctrlBand => Receiver!Pace = "sem2") /\ (Receiver!CtrlBand <=> ctrlBand)
  BY DEF Server!Pace, Server!CtrlBand, Server!IsServer, Receiver!Pace,
         Receiver!CtrlBand, Receiver!IsServer

(* What a step of the server must do to the rest of the invariant. *)
LEMMA ServerKeeps ==
    ASSUME IInv, UNCHANGED <<configuration, clientVars, cut>>, Wire,
           mt => MTInv', ~mt => Server!IInv',
           Sent' \in Nat, Sent' >= Sent,
           ~eager => completed' <= clientInflight + clientCompleted,
           ctrlBand => CtrlSent' = CtrlSent + One(ctrl' > ctrl),
           ~ctrlBand => ~(ctrl' > ctrl)
    PROVE  IInv'
  <1>1. Receiver!IInv'
    BY Receiver!StutterInv DEF IInv, Receiver!vars, configuration, clientVars
  <1>2. onWire' = onWire + One(ctrl' > ctrl) /\ onWire' \in Nat
    BY DEF IInv, Wire, One
  <1>3. Received' <= Sent'
    <2>1. Received \in Nat /\ Sent \in Nat /\ Received' = Received
      BY SentIsNat DEF Received, clientVars
    <2>. QED
      BY <2>1 DEF IInv
  <1>4. UNCHANGED Receiver!Announced
    BY DEF clientVars, Receiver!Announced, Receiver!Top
  <1>5. ctrlBand => onWire' + Receiver!Announced' = CtrlSent'
    <2>1. One(ctrl' > ctrl) \in Nat
      BY DEF One
    <2>. QED
      BY <1>2, <1>4, <2>1, SentIsNat DEF IInv
  <1>6. ~ctrlBand => onWire' = 0
    BY DEF IInv, Wire
  <1>7. UNCHANGED <<mt, ctrlBand, eager, flushes, cut, clientInflight, clientCompleted>>
    BY DEF configuration, clientVars
  <1>. QED
    BY <1>1, <1>2, <1>3, <1>5, <1>6, <1>7 DEF IInv

(* A step of the multi-threaded server. *)
LEMMA MTKeeps ==
    ASSUME IInv, UNCHANGED <<configuration, clientVars, cut>>, Wire, mt,
           MT!MainStep \/ MT!IoStep \/ MT!CompleteCtrl \/ MT!CompleteSend,
           completed' = completed \/ (Matched /\ completed' = completed + 1)
    PROVE  IInv'
  <1>1. mt' /\ MTInv /\ MTInv'
    BY MTStepInv DEF IInv, configuration
  <1>2. /\ Sent' \in Nat /\ Sent' >= Sent
        /\ ctrlBand => MTAnnounced' = MTAnnounced + One(ctrl' > ctrl)
        /\ ~ctrlBand => ~(ctrl' > ctrl)
    BY <1>1, MTStepCounts
  <1>3. CtrlSent = MTAnnounced /\ CtrlSent' = MTAnnounced'
    BY <1>1 DEF CtrlSent
  <1>4. ~eager => completed' <= clientInflight + clientCompleted
    BY SentIsNat DEF IInv, Matched
  <1>. QED
    BY <1>1, <1>2, <1>3, <1>4, ServerKeeps

(* A step of the single-threaded server. *)
LEMMA STKeeps ==
    ASSUME IInv, UNCHANGED <<configuration, clientVars, cut>>, Wire, ~mt,
           Server!ThreadStep \/ Server!Complete \/ Server!CompleteCtrl,
           completed' = completed \/ (Matched /\ completed' = completed + 1),
           Sent' \in Nat, Sent' >= Sent
    PROVE  IInv'
  <1>1. ~mt' /\ Server!IInv /\ UNCHANGED ctrlBand
    BY DEF IInv, configuration
  <1>2. Server!IInv'
    BY <1>1, Server!StepInv, BandwidthAssumption
  <1>3. ctrlBand => Server!Announced' = Server!Announced + One(ctrl' > ctrl)
    BY <1>1, Bands, Server!AnnouncedStep DEF Server!AnnouncedNow, Server!One, One
  <1>4. ~ctrlBand => ~(ctrl' > ctrl)
    BY <1>1, <1>2 DEF Server!IInv, Server!BandsKept, Server!CtrlBand
  <1>5. CtrlSent = Server!Announced /\ CtrlSent' = Server!Announced'
    BY <1>1 DEF CtrlSent
  <1>6. ~eager => completed' <= clientInflight + clientCompleted
    BY SentIsNat DEF IInv, Matched
  <1>. QED
    BY <1>1, <1>2, <1>3, <1>4, <1>5, <1>6, ServerKeeps

LEMMA ServerMTThreadsInv ==
    ASSUME IInv, Serve(ServerMTThreads)
    PROVE  IInv'
  <1>1. completed' = completed
    BY DEF Serve, ServerMTThreads, MT!MainStep, MT!MainWait, MT!PushBuffer,
        MT!SignalPop, MT!CountInitiated, MT!MainLoopEnds, MT!Join, MT!IoStep,
        MT!RunPosted, MT!PostBuffers, MT!PopBuffer, MT!SendCtrl, MT!Send, MT!Again,
        MT!ReturnIo, MT!SignalPush, MT!CheckCompleted, MT!Stop
  <1>. QED
    BY <1>1, MTKeeps DEF Serve, ServerMTThreads

LEMMA ServerMTCompletesInv ==
    ASSUME IInv, Serve(ServerMTCompletes)
    PROVE  IInv'
  <1>1. completed' = completed + 1
    BY DEF Serve, ServerMTCompletes, MT!CompleteSend
  <1>. QED
    BY <1>1, MTKeeps DEF Serve, ServerMTCompletes

LEMMA ServerSTThreadInv ==
    ASSUME IInv, Serve(ServerSTThread)
    PROVE  IInv'
  <1>1. ~mt /\ Server!IInv /\ Server!ThreadStep
    BY SameServer DEF IInv, Serve, ServerSTThread
  <1>2. completed' = completed /\ inflight' \in {inflight, inflight + 1}
    BY <1>1, Server!StepCounts
  <1>3. Sent' \in Nat /\ Sent' >= Sent
    <2>1. inflight \in Nat /\ completed \in Nat
      BY <1>1 DEF Server!IInv, Server!TypeOK
    <2>2. CASE inflight' = inflight
      BY <1>2, <2>1, <2>2 DEF Sent
    <2>3. CASE inflight' = inflight + 1
      BY <1>2, <2>1, <2>3 DEF Sent
    <2>. QED
      BY <1>2, <2>2, <2>3
  <1>. QED
    BY <1>1, <1>2, <1>3, STKeeps DEF Serve

LEMMA ServerSTCompletesInv ==
    ASSUME IInv, Serve(ServerSTCompletes)
    PROVE  IInv'
  <1>1. ~mt /\ Server!IInv /\ Server!Complete /\ Matched
    BY SameServer DEF IInv, Serve, ServerSTCompletes
  <1>2. completed' = completed + 1 /\ inflight' = inflight - 1
    BY <1>1 DEF Server!Complete
  <1>3. Sent' \in Nat /\ Sent' >= Sent
    <2>1. inflight \in Nat /\ completed \in Nat
      BY <1>1 DEF Server!IInv, Server!TypeOK
    <2>. QED
      BY <1>2, <2>1, SentIsNat DEF Sent
  <1>. QED
    BY <1>1, <1>2, <1>3, STKeeps DEF Serve

LEMMA ServerCompletesCtrlInv ==
    ASSUME IInv, Serve(ServerCompletesCtrl)
    PROVE  IInv'
  <1>1. CASE mt
    <2>1. MT!CompleteCtrl
      BY <1>1 DEF Serve, ServerCompletesCtrl
    <2>2. completed' = completed
      BY <2>1 DEF MT!CompleteCtrl
    <2>. QED
      BY <1>1, <2>1, <2>2, MTKeeps DEF Serve
  <1>2. CASE ~mt
    <2>1. Server!CompleteCtrl
      BY <1>2, SameServer DEF Serve, ServerCompletesCtrl
    <2>2. completed' = completed /\ inflight' = inflight
      BY <2>1 DEF Server!CompleteCtrl
    <2>3. Sent' \in Nat /\ Sent' >= Sent
      BY <2>2, SentIsNat DEF Sent
    <2>. QED
      BY <1>2, <2>1, <2>2, <2>3, STKeeps DEF Serve
  <1>. QED
    BY <1>1, <1>2

(* What a step of the client, or of the connections, must do to the rest.   *)
LEMMA ClientKeeps ==
    ASSUME IInv, UNCHANGED <<configuration, serverVars>>, onWire' \in Nat,
           cut' \subseteq {"endpoint", "ctrl_endpoint"},
           Receiver!IInv', Received' <= Sent,
           clientInflight' + clientCompleted' >= clientInflight + clientCompleted,
           ctrlBand => onWire' + Receiver!Announced' = onWire + Receiver!Announced,
           ~ctrlBand => onWire' = 0
    PROVE  IInv'
  <1>1. mt => MTInv'
    BY MTStutterInv DEF IInv, configuration, serverVars
  <1>2. ~mt => Server!IInv'
    BY Server!StutterInv DEF IInv, Server!vars, configuration, serverVars, stVars
  <1>3. Sent' = Sent /\ completed' = completed
    BY DEF Sent, serverVars
  <1>4. CtrlSent' = CtrlSent
    <2>1. UNCHANGED <<mt, Top, inflight, completed, initiated, stack, stored>>
      BY DEF configuration, serverVars, mtVars, stVars, Top
    <2>. QED
      BY <2>1 DEF CtrlSent, MTAnnounced, Sent, Server!Announced, Server!Top
  <1>5. UNCHANGED <<mt, ctrlBand, eager, flushes>>
    BY DEF configuration
  <1>6. ~eager => completed' <= clientInflight' + clientCompleted'
    <2>1. clientInflight' \in Nat /\ clientCompleted' \in Nat
      BY DEF Receiver!IInv, Receiver!TypeOK
    <2>. QED
      BY <1>3, <2>1, SentIsNat DEF IInv
  <1>. QED
    BY <1>1, <1>2, <1>3, <1>4, <1>5, <1>6 DEF IInv

(* A step of the client; AnnouncedNow says whether it received a control    *)
(* message.                                                                *)
LEMMA ClientStep ==
    ASSUME IInv, UNCHANGED ctrlBand,
           Receiver!ThreadStep \/ Receiver!Complete \/ Receiver!CompleteCtrl
    PROVE  /\ Receiver!IInv'
           /\ ctrlBand => Receiver!Announced'
                             = Receiver!Announced + One(clientCtrl' < clientCtrl)
  <1>1. Receiver!IInv'
    BY Receiver!StepInv, BandwidthAssumption DEF IInv
  <1>2. ctrlBand => Receiver!Announced'
                      = Receiver!Announced + One(clientCtrl' < clientCtrl)
    BY Bands, Receiver!AnnouncedStep
    DEF IInv, Receiver!AnnouncedNow, Receiver!One, One
  <1>. QED
    BY <1>1, <1>2

LEMMA ClientThreadInv ==
    ASSUME IInv, ClientThread
    PROVE  IInv'
  <1>1. UNCHANGED ctrlBand /\ Receiver!ThreadStep
    BY SameClient DEF ClientThread, configuration
  <1>2. /\ Receiver!IInv'
        /\ ctrlBand => Receiver!Announced'
                          = Receiver!Announced + One(clientCtrl' < clientCtrl)
    BY <1>1, ClientStep
  <1>3. /\ Received' = Received
        /\ clientInflight' + clientCompleted' >= clientInflight + clientCompleted
    <2>1. clientCompleted' = clientCompleted
          /\ clientInflight' \in {clientInflight, clientInflight + 1}
      BY <1>1, Receiver!StepCounts DEF IInv
    <2>2. CASE clientInflight' = clientInflight
      BY <2>1, <2>2, SentIsNat DEF Received
    <2>3. CASE clientInflight' = clientInflight + 1
      BY <2>1, <2>3, SentIsNat DEF Received
    <2>. QED
      BY <2>1, <2>2, <2>3
  <1>4. ~(clientCtrl' < clientCtrl)
    <2>1. clientCtrl \in Nat
      BY DEF IInv, Receiver!IInv, Receiver!TypeOK
    <2>2. clientCtrl' \in {clientCtrl, clientCtrl + 1}
      BY <1>1 DEF Receiver!ThreadStep, Receiver!PostBuffers, Receiver!GrantedSem,
          Receiver!GrantedSem2, Receiver!Transfer, Receiver!Again, Receiver!Return,
          Receiver!SignalPace, Receiver!CheckCompleted, Receiver!SignalSem,
          Receiver!WaitSem2, Receiver!Stop
    <2>. QED
      BY <2>1, <2>2
  <1>5. ctrlBand => Receiver!Announced' = Receiver!Announced
    BY <1>2, <1>4, SentIsNat DEF One
  <1>6. UNCHANGED <<onWire, cut, configuration, serverVars>>
    BY DEF ClientThread
  <1>. QED
    BY <1>2, <1>3, <1>5, <1>6, ClientKeeps DEF IInv

LEMMA ClientReceivesInv ==
    ASSUME IInv, ClientReceives
    PROVE  IInv'
  <1>1. UNCHANGED ctrlBand /\ Receiver!Complete
    BY SameClient DEF ClientReceives, configuration
  <1>2. /\ Receiver!IInv'
        /\ ctrlBand => Receiver!Announced'
                          = Receiver!Announced + One(clientCtrl' < clientCtrl)
    BY <1>1, ClientStep
  <1>3. /\ Received' = Received + 1 /\ clientCtrl' = clientCtrl
        /\ clientInflight' = clientInflight - 1 /\ clientCompleted' = clientCompleted + 1
    BY <1>1 DEF Receiver!Complete, Received
  <1>4. Received' <= Sent
    BY <1>3, SentIsNat DEF ClientReceives
  <1>5. clientInflight' + clientCompleted' >= clientInflight + clientCompleted
    BY <1>3, SentIsNat
  <1>6. ctrlBand => Receiver!Announced' = Receiver!Announced
    <2>1. clientCtrl \in Nat
      BY DEF IInv, Receiver!IInv, Receiver!TypeOK
    <2>. QED
      BY <1>2, <1>3, <2>1, SentIsNat DEF One
  <1>7. UNCHANGED <<onWire, cut, configuration, serverVars>>
    BY DEF ClientReceives
  <1>. QED
    BY <1>2, <1>4, <1>5, <1>6, <1>7, ClientKeeps DEF IInv

LEMMA ClientReceivesCtrlInv ==
    ASSUME IInv, ClientReceivesCtrl
    PROVE  IInv'
  <1>1. UNCHANGED ctrlBand /\ Receiver!CompleteCtrl
    BY SameClient DEF ClientReceivesCtrl, configuration
  <1>2. /\ Receiver!IInv'
        /\ ctrlBand => Receiver!Announced'
                          = Receiver!Announced + One(clientCtrl' < clientCtrl)
    BY <1>1, ClientStep
  <1>3. /\ Received' = Received /\ clientInflight' = clientInflight
        /\ clientCompleted' = clientCompleted
        /\ clientCtrl > 0 /\ clientCtrl' = clientCtrl - 1
    BY <1>1 DEF Receiver!CompleteCtrl, Received
  <1>4. onWire \in Nat /\ onWire > 0 /\ onWire' = onWire - 1 /\ onWire' \in Nat
    BY DEF ClientReceivesCtrl, IInv
  <1>5. ctrlBand
    BY <1>4 DEF IInv
  <1>6. onWire' + Receiver!Announced' = onWire + Receiver!Announced
    <2>1. clientCtrl \in Nat
      BY DEF IInv, Receiver!IInv, Receiver!TypeOK
    <2>2. Receiver!Announced' = Receiver!Announced + 1
      BY <1>2, <1>3, <1>5, <2>1 DEF One
    <2>. QED
      BY <1>4, <2>2, SentIsNat
  <1>7. UNCHANGED <<cut, configuration, serverVars>>
    BY DEF ClientReceivesCtrl
  <1>. QED
    BY <1>2, <1>3, <1>4, <1>5, <1>6, <1>7, SentIsNat, ClientKeeps DEF IInv

LEMMA CutOffInv ==
    ASSUME IInv, CutOff \/ UNCHANGED vars
    PROVE  IInv'
  <1>1. UNCHANGED <<configuration, serverVars, clientVars, onWire>>
    BY DEF CutOff, vars
  <1>2. cut' \subseteq {"endpoint", "ctrl_endpoint"}
    BY DEF CutOff, vars, IInv
  <1>3. Receiver!IInv'
    BY <1>1, Receiver!StutterInv DEF IInv, Receiver!vars, configuration, clientVars
  <1>4. /\ UNCHANGED <<Received, Receiver!Announced, clientInflight, clientCompleted>>
    BY <1>1 DEF clientVars, Received, Receiver!Announced, Receiver!Top
  <1>. QED
    BY <1>1, <1>2, <1>3, <1>4, SentIsNat, ClientKeeps DEF IInv

LEMMA StepInv ==
    ASSUME IInv, [Next]_vars
    PROVE  IInv'
  BY ServerMTThreadsInv, ServerMTCompletesInv, ServerSTThreadInv,
     ServerSTCompletesInv, ServerCompletesCtrlInv, ClientThreadInv,
     ClientReceivesInv, ClientReceivesCtrlInv, CutOffInv
  DEF Next, ServerStep, Terminated

(* What is left to send and to receive when a program shuts down. *)
LEMMA ServedOfInv ==
    ASSUME IInv
    PROVE  ClientIsServed
  <1>1. Sent <= Iterations /\ (Sent = Iterations => CtrlSent = Iterations)
        /\ (shutdown => completed = Iterations)
    <2>1. CASE mt
      <3>1. MTInv
        BY <2>1 DEF IInv
      <3>2. shutdown => completed = Iterations
        BY <3>1 DEF MTInv, EndsLast
      <3>3. Sent <= Iterations
        BY <3>1, MTSafetyOfInv DEF Sent
      <3>4. ASSUME Sent = Iterations PROVE Top # "send"
        BY <3>1, <3>4, Numbers DEF MTInv, Begun, Sent, One
      <3>5. CtrlSent = Sent + One(Top = "send")
        BY <2>1 DEF CtrlSent, MTAnnounced
      <3>. QED
        BY <3>2, <3>3, <3>4, <3>5, SentIsNat DEF One
    <2>2. CASE ~mt
      <3>1. /\ initiated = inflight + completed /\ initiated <= Iterations
            /\ initiated = Iterations => Server!Announced = Iterations
            /\ shutdown => completed = Iterations
        BY <2>2, Bands, Server!AllAnnounced, BandwidthAssumption DEF IInv
      <3>. QED
        BY <2>2, <3>1 DEF Sent, CtrlSent
    <2>. QED
      BY <2>1, <2>2
  <1>2. /\ clientInitiated <= Receiver!Announced
        /\ clientInitiated = clientInflight + clientCompleted
        /\ clientInitiated <= Iterations
        /\ clientShutdown => clientCompleted = Iterations
    BY Receiver!AllAnnounced, BandwidthAssumption DEF IInv
  <1>3. ASSUME Sent = Iterations, clientInitiated = Iterations PROVE onWire = 0
    <2>1. CASE ctrlBand
      <3>1. onWire + Receiver!Announced = Iterations /\ onWire \in Nat
        BY <1>1, <1>3, <2>1 DEF IInv
      <3>. QED
        BY <1>2, <1>3, <3>1, SentIsNat, BandwidthAssumption
    <2>2. CASE ~ctrlBand
      BY <2>2 DEF IInv
    <2>. QED
      BY <2>1, <2>2
  <1>4. ASSUME clientShutdown
        PROVE  Received = Iterations /\ Sent = Iterations /\ onWire = 0
    <2>1. Received = Iterations
      BY <1>2, <1>4 DEF Received
    <2>2. Sent = Iterations
      BY <1>1, <2>1, SentIsNat, BandwidthAssumption DEF IInv
    <2>3. clientInitiated = Iterations
      BY <1>2, <2>1, SentIsNat, BandwidthAssumption DEF Received
    <2>. QED
      BY <1>3, <2>1, <2>2, <2>3
  <1>5. ASSUME shutdown, ~eager
        PROVE  Received + clientInflight = Iterations /\ onWire = 0
    <2>1. clientInitiated = Iterations
      BY <1>1, <1>2, <1>5, SentIsNat, BandwidthAssumption DEF IInv
    <2>2. Sent = Iterations
      <3>1. inflight \in Nat
        BY Types DEF IInv, Server!IInv, Server!TypeOK
      <3>. QED
        BY <1>1, <1>5, <3>1, SentIsNat, BandwidthAssumption DEF Sent
    <2>. QED
      BY <1>2, <1>3, <2>1, <2>2, SentIsNat DEF Received
  <1>. QED
    BY <1>4, <1>5 DEF ClientIsServed

LEMMA SafetyOfInv ==
    ASSUME IInv
    PROVE  /\ TypeOK /\ QueueMatchesPermits /\ PermitsConserved
           /\ NestingBounded /\ StopsWhenDone /\ ClientIsServed
  <1>1. mt => /\ MT!TypeOK /\ MT!QueueMatchesPermits /\ MT!PermitsConserved
              /\ MT!NothingThrown /\ MT!NestingBounded /\ MT!StopsWhenDone
              /\ Sent <= Iterations
    BY MTSafetyOfInv DEF IInv, MTInv, Sent
  <1>2. ~mt => /\ ST!TypeOK /\ ST!PermitsConserved /\ ST!NothingThrown
               /\ ST!NestingBounded /\ ST!StopsWhenDone
               /\ Sent <= Iterations
    <2>1. ~mt => /\ Server!TypeOK /\ Server!PermitsConserved /\ Server!NothingThrown
                 /\ Server!NestingBounded /\ Server!StopsWhenDone
                 /\ inflight + completed <= Iterations
      BY Server!SafetyOfInv, BandwidthAssumption DEF IInv, Server!IInv
    <2>. QED
      BY <2>1, SameServerProperties DEF Sent
  <1>3. /\ Receiver!TypeOK /\ Receiver!PermitsConserved /\ Receiver!NothingThrown
        /\ Receiver!NestingBounded /\ Receiver!StopsWhenDone
    BY Receiver!SafetyOfInv, BandwidthAssumption DEF IInv, Receiver!IInv
  <1>4. Receiver!Stopped => Received = Iterations
    BY <1>3 DEF Receiver!StopsWhenDone, Received
  <1>5. Receiver!Stopped => Sent = Iterations
    BY <1>1, <1>2, <1>4, SentIsNat, BandwidthAssumption DEF IInv
  <1>6. TypeOK
    BY <1>1, <1>2, <1>3, SameClientProperties DEF TypeOK, IInv
  <1>7. PermitsConserved /\ NestingBounded
    BY <1>1, <1>2, <1>3, SameClientProperties DEF PermitsConserved, NestingBounded
  <1>8. StopsWhenDone
    BY <1>1, <1>2, <1>3, <1>5, SameClientProperties DEF StopsWhenDone
  <1>. QED
    BY <1>1, <1>6, <1>7, <1>8, ServedOfInv DEF QueueMatchesPermits

-----------------------------------------------------------------------------
(***************************************************************************)
(* The state of either server, of the client and of the wire between them   *)
(* satisfies the inductive invariant in every reachable state.             *)
(***************************************************************************)
THEOREM Invariance == Spec => []IInv
  <1>1. Init => IInv
    BY InitInv
  <1>2. IInv /\ [Next]_vars => IInv'
    BY StepInv
  <1>. QED
    BY <1>1, <1>2, PTL DEF Spec

(***************************************************************************)
(* All the variables of msg_bw keep their types: no counter of permits, of   *)
(* buffers or of transfers ever runs below zero.                           *)
(***************************************************************************)
THEOREM TypeCorrect == Spec => []TypeOK
  BY Invariance, SafetyOfInv, PTL

(***************************************************************************)
(* The I/O thread of the multi-threaded server finds a buffer whenever it    *)
(* calls queue.front(): the queue holds what queue_pop has announced.      *)
(***************************************************************************)
THEOREM QueueNeverPoppedEmpty == Spec => []QueueMatchesPermits
  BY Invariance, SafetyOfInv, PTL

(***************************************************************************)
(* In both programs, and in both kinds of server, each of the -q permits is  *)
(* free or stands for one transfer, and async_wait never throws because a   *)
(* handler is stored already.                                              *)
(***************************************************************************)
THEOREM NoPermitLost == Spec => []PermitsConserved
  BY Invariance, SafetyOfInv, PTL

(***************************************************************************)
(* asio::dispatch of post_buffers from within its own handlers nests to a    *)
(* depth that -q bounds, however many messages are transferred.            *)
(***************************************************************************)
THEOREM StackBounded == Spec => []NestingBounded
  BY Invariance, SafetyOfInv, PTL

(***************************************************************************)
(* An io_context is stopped after the last transfer of its program on        *)
(* endpoint only, and the client's after the server has posted all of its   *)
(* sends.  Operations on ctrl_endpoint may be outstanding.                 *)
(***************************************************************************)
THEOREM StopsAfterLastTransfer == Spec => []StopsWhenDone
  BY Invariance, SafetyOfInv, PTL

(***************************************************************************)
(* The client shuts its endpoint down when it has received every message     *)
(* and every control message.  When the server does, and the provider does  *)
(* not buffer, the client has posted every receive and received every       *)
(* control message.                                                        *)
(***************************************************************************)
THEOREM ShutdownAfterService == Spec => []ClientIsServed
  BY Invariance, SafetyOfInv, PTL
=============================================================================
