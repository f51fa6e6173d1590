-------------------- MODULE BandwidthSingleThreadedProofs --------------------
(***************************************************************************)
(* Proofs about the single-threaded programs of msg_bw, for any number of   *)
(* iterations and any length of the queue.  The module has no specification *)
(* of its own: BandwidthProofs cites these lemmas for the server and for    *)
(* the client.                                                             *)
(***************************************************************************)
EXTENDS BandwidthSingleThreaded, FiniteSetTheorems, SequenceTheorems, TLAPS

One(P) == IF P THEN 1 ELSE 0

(* What the thread does now. *)
TopOf(s) == IF s = <<>> THEN "idle" ELSE Last(s)
Top == TopOf(stack)

(* Only calls that are about to return, or to look at the number of         *)
(* completions, have called something else.                                *)
Nested(s, below) == \A i \in 1 .. Len(s) - 1 : s[i] \in below
Outer == {"return", "check"}

(***************************************************************************)
(* The next transfer is in one place: it is about to wait for a permit,     *)
(* waits for one, or has one and is about to be posted; in the client with  *)
(* a control band it may also be waiting for its control message.  That is  *)
(* why no semaphore is ever waited for twice.                              *)
(***************************************************************************)
Turn ==
    One(Top \in {"post_buffers", "granted_sem", "granted_sem2", "transfer",
                 "ctrl_completed", "wait_sem2"})
        + One(stored["sem"]) + One(stored["sem2"])
        + (IF Pace = "sem2" THEN ctrl ELSE 0)

OneTurn ==
    /\ Turn + One(Top = "again") <= 1
    /\ Turn > 0 => initiated < Iterations
    /\ initiated <= Iterations

(* sem2 and the control messages are used with a control band only. *)
BandsKept ==
    /\ Pace = "sem" => /\ ~stored["sem2"]
                       /\ Top \notin {"granted_sem2", "ctrl_completed", "wait_sem2"}
    /\ ~CtrlBand => ctrl = 0

Counted == initiated = inflight + completed

Permits ==
    /\ Pace = "sem" =>
         count["sem"] + inflight + One(Top \in {"completed", "transfer", "granted_sem"})
             = QueueSize
    /\ Pace = "sem2" =>
         /\ count["sem2"] + inflight
              + One(Top \in {"completed", "transfer", "granted_sem2"}) = QueueSize
         /\ count["sem"] + ctrl + One(Top \in {"granted_sem", "ctrl_completed"})
              = QueueSize

(* Each round of calls leaves two frames and posts a transfer. *)
Spare ==
    IF Top \in {"granted_sem", "granted_sem2", "transfer", "return"} THEN 2
    ELSE IF Top = "again" THEN 0 ELSE 1

Depth == Len(stack) <= 2 * inflight + Spare

EndsLast == shutdown \/ Top = "stopped" => completed = Iterations

(* The transfers on endpoint that were posted, or that will be because of   *)
(* their control message: sent by the server, received by the client.      *)
Early == {"ctrl_completed", "wait_sem2", "granted_sem2", "transfer"}
Announced == initiated + One(Top \in Early) + One(stored["sem2"])

IInv ==
    /\ TypeOK
    /\ Nested(stack, Outer)
    /\ Top # "throw"
    /\ OneTurn
    /\ BandsKept
    /\ Counted
    /\ Permits
    /\ Depth
    /\ EndsLast

-----------------------------------------------------------------------------
(* t is s after its innermost call went on to l and called `nested'.       *)
Continues(t, s, l, nested) == t = Front(s) \o <<l>> \o nested

(* What the stack looks like after a step, and how many calls it holds.     *)

LEMMA FrontFacts ==
    ASSUME NEW L, NEW s \in Seq(L), s # <<>>, NEW below, Nested(s, below)
    PROVE  /\ Len(s) \in Nat \ {0}
           /\ Front(s) \in Seq(L)
           /\ Len(Front(s)) = Len(s) - 1
           /\ \A i \in 1 .. Len(s) - 1 : Front(s)[i] = s[i]
           /\ Nested(Front(s), below)
           /\ TopOf(Front(s)) \in below \cup {"idle"}
  <1>1. Len(s) \in Nat \ {0}
    BY EmptySeq
  <1>2. /\ Front(s) \in Seq(L) /\ Len(Front(s)) = Len(s) - 1
        /\ \A i \in 1 .. Len(s) - 1 : Front(s)[i] = s[i]
    <2>1. Len(s) - 1 \in Nat /\ 1 \in Int /\ \A i \in 1 .. Len(s) - 1 : s[i] \in L
      BY <1>1
    <2>. DEFINE f == SubSeq(s, 1, Len(s) - 1)
    <2>2. /\ f \in Seq(L) /\ \A i \in 1 .. (Len(s) - 1) - 1 + 1 : f[i] = s[1 + i - 1]
          /\ Len(f) = IF 1 <= Len(s) - 1 THEN (Len(s) - 1) - 1 + 1 ELSE 0
      BY <2>1, SubSeqProperties
    <2>3. f = Front(s)
      BY DEF Front
    <2>. HIDE DEF f
    <2>4. ASSUME NEW n \in Nat \ {0}
          PROVE  /\ (IF 1 <= n - 1 THEN (n - 1) - 1 + 1 ELSE 0) = n - 1
                 /\ (n - 1) - 1 + 1 = n - 1
                 /\ \A i \in 1 .. n - 1 : 1 + i - 1 = i
      OBVIOUS
    <2>5. Len(f) = Len(s) - 1 /\ \A i \in 1 .. Len(s) - 1 : f[i] = s[i]
      BY <1>1, <2>2, <2>4
    <2>. QED
      BY <2>2, <2>3, <2>5
  <1>3. Nested(Front(s), below)
    BY <1>1, <1>2 DEF Nested
  <1>4. TopOf(Front(s)) \in below \cup {"idle"}
    <2>1. CASE Len(s) = 1
      <3>1. Len(Front(s)) = 0
        BY <1>2, <2>1
      <3>2. Front(s) = <<>>
        BY <1>2, <3>1, EmptySeq
      <3>. QED
        BY <3>2 DEF TopOf
    <2>2. CASE Len(s) # 1
      <3>. \A n \in Nat \ {0} : n # 1 => n - 1 \in 1 .. n - 1
        OBVIOUS
      <3>1. Len(s) - 1 \in 1 .. Len(s) - 1
        BY <1>1, <2>2
      <3>2. Last(Front(s)) \in below
        BY <1>2, <3>1 DEF Last, Nested
      <3>. QED
        BY <3>2 DEF TopOf
    <2>. QED
      BY <2>1, <2>2
  <1>. QED
    BY <1>1, <1>2, <1>3, <1>4

LEMMA ProceedFacts ==
    ASSUME NEW L, NEW s \in Seq(L), s # <<>>, NEW below, Nested(s, below),
           NEW l \in L, NEW t, Continues(t, s, l, <<>>)
    PROVE  t \in Seq(L) /\ Len(t) = Len(s) /\ TopOf(t) = l /\ Nested(t, below)
  <1>1. /\ Len(s) \in Nat \ {0} /\ Front(s) \in Seq(L) /\ Len(Front(s)) = Len(s) - 1
        /\ \A i \in 1 .. Len(s) - 1 : Front(s)[i] = s[i]
    BY FrontFacts
  <1>2. t = Append(Front(s), l)
    BY <1>1 DEF Continues
  <1>3. /\ t \in Seq(L) /\ Len(t) = Len(s) /\ t[Len(s)] = l
        /\ \A i \in 1 .. Len(s) - 1 : t[i] = s[i]
    BY <1>1, <1>2
  <1>. QED
    BY <1>1, <1>3 DEF TopOf, Last, Nested

LEMMA CallFacts ==
    ASSUME NEW L, NEW s \in Seq(L), s # <<>>, NEW below, Nested(s, below),
           NEW l \in L, l \in below, NEW m \in L, NEW t, Continues(t, s, l, <<m>>)
    PROVE  t \in Seq(L) /\ Len(t) = Len(s) + 1 /\ TopOf(t) = m /\ Nested(t, below)
  <1>. DEFINE u == Front(s) \o <<l>>
  <1>1. /\ Len(s) \in Nat \ {0} /\ Front(s) \in Seq(L) /\ Len(Front(s)) = Len(s) - 1
        /\ \A i \in 1 .. Len(s) - 1 : Front(s)[i] = s[i]
    BY FrontFacts
  <1>2. /\ u \in Seq(L) /\ Len(u) = Len(s) /\ u[Len(s)] = l
        /\ \A i \in 1 .. Len(s) - 1 : u[i] = s[i]
    BY <1>1
  <1>3. \A i \in 1 .. Len(s) : u[i] \in below
    BY <1>1, <1>2 DEF Nested
  <1>4. t = Append(u, m)
    BY <1>2 DEF Continues
  <1>5. /\ t \in Seq(L) /\ Len(t) = Len(s) + 1 /\ t[Len(s) + 1] = m
        /\ \A i \in 1 .. Len(s) : t[i] = u[i]
    <2>. HIDE DEF u
    <2>1. /\ Append(u, m) \in Seq(L) /\ Len(Append(u, m)) = Len(u) + 1
          /\ \A i \in 1 .. Len(u) : Append(u, m)[i] = u[i]
          /\ Append(u, m)[Len(u) + 1] = m
      BY <1>2, AppendProperties
    <2>. QED
      BY <1>2, <1>4, <2>1
  <1>6. TopOf(t) = m
    BY <1>1, <1>5 DEF TopOf, Last
  <1>7. Nested(t, below)
    BY <1>1, <1>3, <1>5 DEF Nested
  <1>. QED
    BY <1>5, <1>6, <1>7

LEMMA SingleFacts ==
    ASSUME NEW L, NEW l \in L, NEW below, l # "idle"
    PROVE  /\ <<l>> \in Seq(L) /\ Len(<<l>>) = 1
           /\ TopOf(<<l>>) = l /\ Nested(<<l>>, below)
  BY DEF TopOf, Last, Nested

LEMMA OnTopFacts ==
    ASSUME NEW s, NEW l, l # "idle"
    PROVE  (s # <<>> /\ Last(s) = l) <=> TopOf(s) = l
  BY DEF TopOf

Occurrences(s, l) == Cardinality({i \in DOMAIN s : s[i] = l})

(* A call that never calls another is on the stack only when it is on top.  *)
LEMMA OnTopOnce ==
    ASSUME NEW L, NEW s \in Seq(L), NEW below, Nested(s, below),
           NEW l, l \notin below, l # "idle"
    PROVE  /\ TopOf(s) = l => Occurrences(s, l) = 1
           /\ TopOf(s) # l => Occurrences(s, l) = 0
  <1>. DEFINE S == {i \in DOMAIN s : s[i] = l}
  <1>1. DOMAIN s = 1 .. Len(s) /\ Len(s) \in Nat
    OBVIOUS
  <1>2. CASE TopOf(s) = l
    <2>1. s # <<>> /\ s[Len(s)] = l
      BY <1>2 DEF TopOf, Last
    <2>2. Len(s) \in 1 .. Len(s)
      BY <1>1, <2>1, EmptySeq
    <2>3. S = {Len(s)}
      <3>1. ASSUME NEW i \in S PROVE i = Len(s)
        BY <1>1 DEF Nested
      <3>. QED
        BY <1>1, <2>1, <2>2, <3>1
    <2>. QED
      BY <1>2, <2>3, FS_Singleton DEF Occurrences
  <1>3. CASE TopOf(s) # l
    <2>1. S = {}
      <3>. SUFFICES ASSUME NEW i \in S PROVE FALSE
        OBVIOUS
      <3>1. i \in 1 .. Len(s) /\ s[i] = l
        BY <1>1
      <3>2. i = Len(s)
        BY <1>1, <3>1 DEF Nested
      <3>3. s # <<>>
        BY <1>1, <3>1
      <3>. QED
        BY <1>3, <3>1, <3>2, <3>3 DEF TopOf, Last
    <2>. QED
      BY <1>3, <2>1, FS_EmptySet DEF Occurrences
  <1>. QED
    BY <1>2, <1>3

-----------------------------------------------------------------------------
(* Every step keeps the invariant. *)

(* In the stack s, of n calls, the thread is at label. *)
Runs(s, label, n) ==
    s \in Seq(Labels) /\ Len(s) = n /\ TopOf(s) = label /\ Nested(s, Outer)

LEMMA AtTop ==
    ASSUME NEW label \in Labels, At(label), IInv
    PROVE  Top = label /\ stack # <<>> /\ Len(stack) \in Nat
  <1>1. label # "idle"
    BY DEF Labels
  <1>2. Top = label /\ stack # <<>>
    BY <1>1, OnTopFacts DEF At, Top
  <1>3. Len(stack) \in Nat
    BY DEF IInv, TypeOK
  <1>. QED
    BY <1>2, <1>3

LEMMA ProceedTop ==
    ASSUME IInv, stack # <<>>, NEW label \in Labels, Proceed(label, <<>>)
    PROVE  Runs(stack', label, Len(stack))
  <1>1. stack \in Seq(Labels) /\ Nested(stack, Outer)
    BY DEF IInv, TypeOK
  <1>2. Continues(stack', stack, label, <<>>)
    BY DEF Proceed, Continues
  <1>3. /\ stack' \in Seq(Labels) /\ Len(stack') = Len(stack)
        /\ TopOf(stack') = label /\ Nested(stack', Outer)
    BY <1>1, <1>2, ProceedFacts
  <1>. QED
    BY <1>3 DEF Runs

LEMMA ProceedCall ==
    ASSUME IInv, stack # <<>>, NEW label \in Outer, NEW callee \in Labels,
           Proceed(label, <<callee>>)
    PROVE  Runs(stack', callee, Len(stack) + 1)
  <1>1. stack \in Seq(Labels) /\ Nested(stack, Outer)
    BY DEF IInv, TypeOK
  <1>2. Continues(stack', stack, label, <<callee>>)
    BY DEF Proceed, Continues
  <1>3. label \in Labels
    BY DEF Outer, Labels
  <1>4. /\ stack' \in Seq(Labels) /\ Len(stack') = Len(stack) + 1
        /\ TopOf(stack') = callee /\ Nested(stack', Outer)
    BY <1>1, <1>2, <1>3, CallFacts
  <1>. QED
    BY <1>4 DEF Runs

LEMMA Types ==
    ASSUME IInv
    PROVE  /\ options \in Options /\ Pace \in {"sem", "sem2"}
           /\ count \in [Semaphores -> Nat] /\ stored \in [Semaphores -> BOOLEAN]
           /\ count["sem"] \in Nat /\ count["sem2"] \in Nat
           /\ stored["sem"] \in BOOLEAN /\ stored["sem2"] \in BOOLEAN
           /\ inflight \in Nat /\ ctrl \in Nat
           /\ initiated \in Nat /\ completed \in Nat /\ shutdown \in BOOLEAN
           /\ stack \in Seq(Labels) /\ Len(stack) \in Nat
  BY DEF IInv, TypeOK, Semaphores, Pace

LEMMA PostBuffersInv ==
    ASSUME Iterations \in Nat, QueueSize \in Nat, IInv, PostBuffers
    PROVE  IInv'
  <1>1. Top = "post_buffers" /\ stack # <<>>
    BY AtTop DEF PostBuffers, Labels
  <1>2. UNCHANGED <<options, inflight, ctrl, initiated, completed, shutdown>>
    BY DEF PostBuffers
  <1>3. Pace' = Pace /\ CtrlBand' = CtrlBand
    BY <1>2 DEF Pace, CtrlBand, IsServer
  <1>4. CASE count["sem"] > 0
    <2>1. /\ count' = [count EXCEPT !["sem"] = @ - 1] /\ UNCHANGED stored
          /\ Proceed("return", <<"granted_sem">>)
      BY <1>4 DEF PostBuffers, AsyncWait, Granted
    <2>2. Runs(stack', "granted_sem", Len(stack) + 1)
      BY <1>1, <2>1, ProceedCall DEF Outer, Labels
    <2>3. count'["sem"] = count["sem"] - 1 /\ count'["sem2"] = count["sem2"]
      BY <2>1, Types DEF Semaphores
    <2>4. count' \in [Semaphores -> Nat]
      BY <1>4, <2>1, <2>3, Types DEF Semaphores
    <2>. QED
      BY <1>1, <1>2, <1>3, <2>1, <2>2, <2>3, <2>4, Types
      DEF IInv, TypeOK, Runs, Top, OneTurn, Turn, BandsKept, Counted, Depth, Spare,
          EndsLast, Permits, One
  <1>5. CASE ~(count["sem"] > 0)
    <2>1. ~stored["sem"]
      BY <1>1, Types DEF IInv, OneTurn, Turn, One
    <2>2. /\ stored' = [stored EXCEPT !["sem"] = TRUE] /\ UNCHANGED count
          /\ Proceed("return", <<>>)
      BY <1>5, <2>1 DEF PostBuffers, AsyncWait
    <2>3. Runs(stack', "return", Len(stack))
      BY <1>1, <2>2, ProceedTop DEF Labels
    <2>4. /\ stored'["sem"] = TRUE /\ stored'["sem2"] = stored["sem2"]
          /\ stored' \in [Semaphores -> BOOLEAN]
      BY <2>2, Types DEF Semaphores
    <2>. QED
      BY <1>1, <1>2, <1>3, <2>1, <2>2, <2>3, <2>4, Types
      DEF IInv, TypeOK, Runs, Top, OneTurn, Turn, BandsKept, Counted, Depth, Spare,
          EndsLast, Permits, One
  <1>. QED
    BY <1>4, <1>5

LEMMA GrantedSemInv ==
    ASSUME Iterations \in Nat, QueueSize \in Nat, IInv, GrantedSem
    PROVE  IInv'
  <1>1. Top = "granted_sem" /\ stack # <<>>
    BY AtTop DEF GrantedSem, Labels
  <1>2. UNCHANGED <<options, count, stored, inflight, initiated, completed, shutdown>>
    BY DEF GrantedSem
  <1>3. Pace' = Pace /\ CtrlBand' = CtrlBand
    BY <1>2 DEF Pace, CtrlBand, IsServer
  <1>4. ctrl' \in Nat /\ (CtrlBand => ctrl' = ctrl + 1) /\ (~CtrlBand => ctrl' = ctrl)
    BY Types DEF GrantedSem
  <1>5. CASE Pace = "sem"
    <2>1. Runs(stack', "transfer", Len(stack))
      BY <1>1, <1>5, ProceedTop DEF GrantedSem, Labels
    <2>. QED
      BY <1>1, <1>2, <1>3, <1>4, <1>5, <2>1, Types
      DEF IInv, TypeOK, Runs, Top, OneTurn, Turn, BandsKept, Counted, Depth, Spare,
          EndsLast, Permits, One
  <1>6. CASE Pace = "sem2"
    <2>1. Runs(stack', "return", Len(stack))
      BY <1>1, <1>6, ProceedTop DEF GrantedSem, Labels
    <2>2. CtrlBand
      BY <1>6 DEF Pace
    <2>. QED
      BY <1>1, <1>2, <1>3, <1>4, <1>6, <2>1, <2>2, Types
      DEF IInv, TypeOK, Runs, Top, OneTurn, Turn, BandsKept, Counted, Depth, Spare,
          EndsLast, Permits, One
  <1>. QED
    BY <1>5, <1>6, Types

LEMMA GrantedSem2Inv ==
    ASSUME Iterations \in Nat, QueueSize \in Nat, IInv, GrantedSem2
    PROVE  IInv'
  <1>1. Top = "granted_sem2" /\ stack # <<>>
    BY AtTop DEF GrantedSem2, Labels
  <1>2. UNCHANGED <<options, count, stored, inflight, ctrl, initiated, completed, shutdown>>
    BY DEF GrantedSem2
  <1>3. Pace' = Pace /\ CtrlBand' = CtrlBand
    BY <1>2 DEF Pace, CtrlBand, IsServer
  <1>4. Runs(stack', "transfer", Len(stack))
    BY <1>1, ProceedTop DEF GrantedSem2, Labels
  <1>. QED
    BY <1>1, <1>2, <1>3, <1>4, Types
    DEF IInv, TypeOK, Runs, Top, OneTurn, Turn, BandsKept, Counted, Depth, Spare,
        EndsLast, Permits, One

LEMMA TransferInv ==
    ASSUME Iterations \in Nat, QueueSize \in Nat, IInv, Transfer
    PROVE  IInv'
  <1>1. Top = "transfer" /\ stack # <<>>
    BY AtTop DEF Transfer, Labels
  <1>2. /\ UNCHANGED <<options, count, stored, ctrl, completed, shutdown>>
        /\ inflight' = inflight + 1 /\ initiated' = initiated + 1
    BY DEF Transfer
  <1>3. Pace' = Pace /\ CtrlBand' = CtrlBand
    BY <1>2 DEF Pace, CtrlBand, IsServer
  <1>4. Runs(stack', "again", Len(stack))
    BY <1>1, ProceedTop DEF Transfer, Labels
  <1>5. TypeOK' /\ Counted' /\ Depth'
    BY <1>1, <1>2, <1>4, Types DEF IInv, TypeOK, Runs, Top, Counted, Depth, Spare
  <1>6. OneTurn' /\ BandsKept' /\ EndsLast'
    BY <1>1, <1>2, <1>3, <1>4, Types
    DEF IInv, Runs, Top, OneTurn, Turn, BandsKept, Counted, EndsLast, One
  <1>7. Permits'
    <2>1. /\ Pace = "sem" => count["sem"] + inflight + 1 = QueueSize
          /\ Pace = "sem2" => /\ count["sem2"] + inflight + 1 = QueueSize
                             /\ count["sem"] + ctrl + 0 = QueueSize
      BY <1>1 DEF IInv, Permits, One
    <2>2. /\ Pace = "sem" => count["sem"] + (inflight + 1) + 0 = QueueSize
          /\ Pace = "sem2" => count["sem2"] + (inflight + 1) + 0 = QueueSize
      BY <2>1, Types
    <2>. QED
      BY <1>2, <1>3, <1>4, <2>1, <2>2 DEF Permits, One, Runs, Top
  <1>. QED
    BY <1>4, <1>5, <1>6, <1>7 DEF IInv, Runs, Top

LEMMA AgainInv ==
    ASSUME Iterations \in Nat, QueueSize \in Nat, IInv, Again
    PROVE  IInv'
  <1>1. Top = "again" /\ stack # <<>>
    BY AtTop DEF Again, Labels
  <1>2. UNCHANGED <<options, count, stored, inflight, ctrl, initiated, completed, shutdown>>
    BY DEF Again
  <1>3. Pace' = Pace /\ CtrlBand' = CtrlBand
    BY <1>2 DEF Pace, CtrlBand, IsServer
  <1>4. CASE initiated < Iterations
    <2>1. Proceed("return", <<"post_buffers">>)
      BY <1>4 DEF Again
    <2>2. Runs(stack', "post_buffers", Len(stack) + 1)
      BY <1>1, <2>1, ProceedCall DEF Outer, Labels
    <2>. QED
      BY <1>1, <1>2, <1>3, <1>4, <2>2, Types
      DEF IInv, TypeOK, Runs, Top, OneTurn, Turn, BandsKept, Counted, Depth, Spare,
          EndsLast, Permits, One
  <1>5. CASE ~(initiated < Iterations)
    <2>1. Proceed("return", <<>>)
      BY <1>5 DEF Again
    <2>2. Runs(stack', "return", Len(stack))
      BY <1>1, <2>1, ProceedTop DEF Labels
    <2>. QED
      BY <1>1, <1>2, <1>3, <2>2, Types
      DEF IInv, TypeOK, Runs, Top, OneTurn, Turn, BandsKept, Counted, Depth, Spare,
          EndsLast, Permits, One
  <1>. QED
    BY <1>4, <1>5

LEMMA ReturnInv ==
    ASSUME Iterations \in Nat, QueueSize \in Nat, IInv, Return
    PROVE  IInv'
  <1>1. Top = "return" /\ stack # <<>>
    BY AtTop DEF Return, Labels
  <1>2. /\ UNCHANGED <<options, count, stored, inflight, ctrl, initiated, completed,
                       shutdown>>
        /\ stack' = Front(stack)
    BY DEF Return
  <1>3. Pace' = Pace /\ CtrlBand' = CtrlBand
    BY <1>2 DEF Pace, CtrlBand, IsServer
  <1>4. stack \in Seq(Labels) /\ Nested(stack, Outer)
    BY DEF IInv, TypeOK
  <1>5. /\ stack' \in Seq(Labels) /\ Len(stack') = Len(stack) - 1
        /\ Nested(stack', Outer) /\ Top' \in {"return", "check", "idle"}
    BY <1>1, <1>2, <1>4, FrontFacts DEF Top, Outer
  <1>. QED
    BY <1>1, <1>2, <1>3, <1>5, Types
    DEF IInv, TypeOK, Runs, Top, OneTurn, Turn, BandsKept, Counted, Depth, Spare,
        EndsLast, Permits, One

LEMMA CompleteInv ==
    ASSUME Iterations \in Nat, QueueSize \in Nat, IInv, Complete
    PROVE  IInv'
  <1>1. Top = "idle"
    BY DEF Complete, Top, TopOf
  <1>2. /\ UNCHANGED <<options, count, stored, ctrl, initiated, shutdown>>
        /\ inflight > 0 /\ inflight' = inflight - 1 /\ completed' = completed + 1
        /\ stack' = <<"completed">>
    BY DEF Complete
  <1>3. Pace' = Pace /\ CtrlBand' = CtrlBand
    BY <1>2 DEF Pace, CtrlBand, IsServer
  <1>4. Runs(stack', "completed", 1)
    BY <1>2, SingleFacts DEF Runs, Labels
  <1>. QED
    BY <1>1, <1>2, <1>3, <1>4, Types
    DEF IInv, TypeOK, Runs, Top, OneTurn, Turn, BandsKept, Counted, Depth, Spare,
        EndsLast, Permits, One

LEMMA CheckCompletedInv ==
    ASSUME Iterations \in Nat, QueueSize \in Nat, IInv, CheckCompleted
    PROVE  IInv'
  <1>1. Top = "check" /\ stack # <<>>
    BY AtTop DEF CheckCompleted, Labels
  <1>2. /\ UNCHANGED <<options, count, stored, inflight, ctrl, initiated, completed>>
        /\ shutdown' = (shutdown \/ completed = Iterations)
    BY DEF CheckCompleted
  <1>3. Pace' = Pace /\ CtrlBand' = CtrlBand
    BY <1>2 DEF Pace, CtrlBand, IsServer
  <1>4. Runs(stack', "return", Len(stack))
    BY <1>1, ProceedTop DEF CheckCompleted, Labels
  <1>. QED
    BY <1>1, <1>2, <1>3, <1>4, Types
    DEF IInv, TypeOK, Runs, Top, OneTurn, Turn, BandsKept, Counted, Depth, Spare,
        EndsLast, Permits, One

LEMMA CompleteCtrlInv ==
    ASSUME Iterations \in Nat, QueueSize \in Nat, IInv, CompleteCtrl
    PROVE  IInv'
  <1>1. Top = "idle"
    BY DEF CompleteCtrl, Top, TopOf
  <1>2. /\ UNCHANGED <<options, count, stored, inflight, initiated, completed, shutdown>>
        /\ ctrl > 0 /\ ctrl' = ctrl - 1
    BY DEF CompleteCtrl
  <1>3. Pace' = Pace /\ CtrlBand' = CtrlBand
    BY <1>2 DEF Pace, CtrlBand, IsServer
  <1>4. CASE IsServer
    <2>1. UNCHANGED stack /\ Pace = "sem"
      BY <1>4 DEF CompleteCtrl, Pace
    <2>. QED
      BY <1>1, <1>2, <1>3, <2>1, Types
      DEF IInv, TypeOK, Runs, Top, OneTurn, Turn, BandsKept, Counted, Depth, Spare,
          EndsLast, Permits, One
  <1>5. CASE ~IsServer
    <2>1. stack' = <<"ctrl_completed">>
      BY <1>5 DEF CompleteCtrl
    <2>2. Runs(stack', "ctrl_completed", 1)
      BY <2>1, SingleFacts DEF Runs, Labels
    <2>3. Pace = "sem2"
      BY <1>2, <1>5, Types DEF IInv, BandsKept, Pace
    <2>. QED
      BY <1>1, <1>2, <1>3, <2>2, <2>3, Types
      DEF IInv, TypeOK, Runs, Top, OneTurn, Turn, BandsKept, Counted, Depth, Spare,
          EndsLast, Permits, One
  <1>. QED
    BY <1>4, <1>5

LEMMA StopInv ==
    ASSUME Iterations \in Nat, QueueSize \in Nat, IInv, Stop
    PROVE  IInv'
  <1>1. Top = "idle"
    BY DEF Stop, Top, TopOf
  <1>2. /\ UNCHANGED <<options, count, stored, inflight, ctrl, initiated, completed,
                       shutdown>>
        /\ shutdown /\ stack' = <<"stopped">>
    BY DEF Stop
  <1>3. Pace' = Pace /\ CtrlBand' = CtrlBand
    BY <1>2 DEF Pace, CtrlBand, IsServer
  <1>4. Runs(stack', "stopped", 1)
    BY <1>2, SingleFacts DEF Runs, Labels
  <1>. QED
    BY <1>1, <1>2, <1>3, <1>4, Types
    DEF IInv, TypeOK, Runs, Top, OneTurn, Turn, BandsKept, Counted, Depth, Spare,
        EndsLast, Permits, One

LEMMA SignalPaceInv ==
    ASSUME Iterations \in Nat, QueueSize \in Nat, IInv, SignalPace
    PROVE  IInv'
  <1>1. Top = "completed" /\ stack # <<>>
    BY AtTop DEF SignalPace, Labels
  <1>2. UNCHANGED <<options, inflight, ctrl, initiated, completed, shutdown>>
    BY DEF SignalPace
  <1>3. Pace' = Pace /\ CtrlBand' = CtrlBand
    BY <1>2 DEF Pace, CtrlBand, IsServer
  <1>4. Pace \in Semaphores
    BY Types DEF Semaphores
  <1>5. CASE stored[Pace]
    <2>1. /\ stored' = [stored EXCEPT ![Pace] = FALSE] /\ UNCHANGED count
          /\ Proceed("check", Granted(Pace))
      BY <1>5 DEF SignalPace, Signal
    <2>2. stored' \in [Semaphores -> BOOLEAN]
      BY <1>4, <2>1, Types
    <2>3. CASE Pace = "sem"
      <3>1. Runs(stack', "granted_sem", Len(stack) + 1)
        BY <1>1, <2>1, <2>3, ProceedCall DEF Granted, Outer, Labels
      <3>2. stored["sem"] /\ stored'["sem"] = FALSE /\ stored'["sem2"] = stored["sem2"]
        BY <1>5, <2>1, <2>3, Types DEF Semaphores
      <3>. QED
        BY <1>1, <1>2, <1>3, <2>1, <2>2, <2>3, <3>1, <3>2, Types
        DEF IInv, TypeOK, Runs, Top, OneTurn, Turn, BandsKept, Counted, Depth, Spare,
            EndsLast, Permits, One
    <2>4. CASE Pace = "sem2"
      <3>1. Runs(stack', "granted_sem2", Len(stack) + 1)
        BY <1>1, <2>1, <2>4, ProceedCall DEF Granted, Outer, Labels
      <3>2. stored["sem2"] /\ stored'["sem2"] = FALSE /\ stored'["sem"] = stored["sem"]
        BY <1>5, <2>1, <2>4, Types DEF Semaphores
      <3>. QED
        BY <1>1, <1>2, <1>3, <2>1, <2>2, <2>4, <3>1, <3>2, Types
        DEF IInv, TypeOK, Runs, Top, OneTurn, Turn, BandsKept, Counted, Depth, Spare,
            EndsLast, Permits, One
    <2>. QED
      BY <2>3, <2>4, Types
  <1>6. CASE ~stored[Pace]
    <2>1. /\ count' = [count EXCEPT ![Pace] = @ + 1] /\ UNCHANGED stored
          /\ Proceed("check", <<>>)
      BY <1>6 DEF SignalPace, Signal
    <2>2. Runs(stack', "check", Len(stack))
      BY <1>1, <2>1, ProceedTop DEF Labels
    <2>3. count' \in [Semaphores -> Nat]
      BY <1>4, <2>1, Types
    <2>4. CASE Pace = "sem"
      <3>1. count'["sem"] = count["sem"] + 1 /\ count'["sem2"] = count["sem2"]
        BY <2>1, <2>4, Types DEF Semaphores
      <3>. QED
        BY <1>1, <1>2, <1>3, <2>1, <2>2, <2>3, <2>4, <3>1, Types
        DEF IInv, TypeOK, Runs, Top, OneTurn, Turn, BandsKept, Counted, Depth, Spare,
            EndsLast, Permits, One
    <2>5. CASE Pace = "sem2"
      <3>1. count'["sem2"] = count["sem2"] + 1 /\ count'["sem"] = count["sem"]
        BY <2>1, <2>5, Types DEF Semaphores
      <3>. QED
        BY <1>1, <1>2, <1>3, <2>1, <2>2, <2>3, <2>5, <3>1, Types
        DEF IInv, TypeOK, Runs, Top, OneTurn, Turn, BandsKept, Counted, Depth, Spare,
            EndsLast, Permits, One
    <2>. QED
      BY <2>4, <2>5, Types
  <1>. QED
    BY <1>5, <1>6

(* No transfer waits for a permit of sem while a control message is there. *)
LEMMA SignalSemInv ==
    ASSUME Iterations \in Nat, QueueSize \in Nat, IInv, SignalSem
    PROVE  IInv'
  <1>1. Top = "ctrl_completed" /\ stack # <<>>
    BY AtTop DEF SignalSem, Labels
  <1>2. UNCHANGED <<options, inflight, ctrl, initiated, completed, shutdown>>
    BY DEF SignalSem
  <1>3. Pace' = Pace /\ CtrlBand' = CtrlBand
    BY <1>2 DEF Pace, CtrlBand, IsServer
  <1>4. ~stored["sem"] /\ Pace = "sem2"
    BY <1>1, Types DEF IInv, OneTurn, Turn, One, BandsKept
  <1>5. /\ count' = [count EXCEPT !["sem"] = @ + 1] /\ UNCHANGED stored
        /\ Proceed("wait_sem2", <<>>)
    BY <1>4 DEF SignalSem, Signal
  <1>6. Runs(stack', "wait_sem2", Len(stack))
    BY <1>1, <1>5, ProceedTop DEF Labels
  <1>7. /\ count'["sem"] = count["sem"] + 1 /\ count'["sem2"] = count["sem2"]
        /\ count' \in [Semaphores -> Nat]
    BY <1>5, Types DEF Semaphores
  <1>. QED
    BY <1>1, <1>2, <1>3, <1>4, <1>5, <1>6, <1>7, Types
    DEF IInv, TypeOK, Runs, Top, OneTurn, Turn, BandsKept, Counted, Depth, Spare,
        EndsLast, Permits, One

LEMMA WaitSem2Inv ==
    ASSUME Iterations \in Nat, QueueSize \in Nat, IInv, WaitSem2
    PROVE  IInv'
  <1>1. Top = "wait_sem2" /\ stack # <<>>
    BY AtTop DEF WaitSem2, Labels
  <1>2. UNCHANGED <<options, inflight, ctrl, initiated, completed, shutdown>>
    BY DEF WaitSem2
  <1>3. Pace' = Pace /\ CtrlBand' = CtrlBand
    BY <1>2 DEF Pace, CtrlBand, IsServer
  <1>4. ~stored["sem2"] /\ Pace = "sem2"
    BY <1>1, Types DEF IInv, OneTurn, Turn, One, BandsKept
  <1>5. CASE count["sem2"] > 0
    <2>1. /\ count' = [count EXCEPT !["sem2"] = @ - 1] /\ UNCHANGED stored
          /\ Proceed("return", <<"granted_sem2">>)
      BY <1>5 DEF WaitSem2, AsyncWait, Granted
    <2>2. Runs(stack', "granted_sem2", Len(stack) + 1)
      BY <1>1, <2>1, ProceedCall DEF Outer, Labels
    <2>3. count'["sem2"] = count["sem2"] - 1 /\ count'["sem"] = count["sem"]
      BY <2>1, Types DEF Semaphores
    <2>4. count' \in [Semaphores -> Nat]
      BY <1>5, <2>1, <2>3, Types DEF Semaphores
    <2>. QED
      BY <1>1, <1>2, <1>3, <1>4, <2>1, <2>2, <2>3, <2>4, Types
      DEF IInv, TypeOK, Runs, Top, OneTurn, Turn, BandsKept, Counted, Depth, Spare,
          EndsLast, Permits, One
  <1>6. CASE ~(count["sem2"] > 0)
    <2>1. /\ stored' = [stored EXCEPT !["sem2"] = TRUE] /\ UNCHANGED count
          /\ Proceed("return", <<>>)
      BY <1>4, <1>6 DEF WaitSem2, AsyncWait
    <2>2. Runs(stack', "return", Len(stack))
      BY <1>1, <2>1, ProceedTop DEF Labels
    <2>3. /\ stored'["sem2"] = TRUE /\ stored'["sem"] = stored["sem"]
          /\ stored' \in [Semaphores -> BOOLEAN]
      BY <2>1, Types DEF Semaphores
    <2>. QED
      BY <1>1, <1>2, <1>3, <1>4, <2>1, <2>2, <2>3, Types
      DEF IInv, TypeOK, Runs, Top, OneTurn, Turn, BandsKept, Counted, Depth, Spare,
          EndsLast, Permits, One
  <1>. QED
    BY <1>5, <1>6

-----------------------------------------------------------------------------
(* What the proofs about a run of both programs use. *)

LEMMA InitInv ==
    ASSUME Iterations \in Nat \ {0}, QueueSize \in Nat, Init
    PROVE  IInv
  <1>1. Runs(stack, "post_buffers", 1)
    BY SingleFacts DEF Init, Runs, Labels
  <1>2. /\ count["sem"] = QueueSize /\ count["sem2"] = QueueSize
        /\ ~stored["sem"] /\ ~stored["sem2"]
    BY DEF Init, Semaphores
  <1>3. TypeOK
    BY <1>1 DEF Init, TypeOK, Runs, Semaphores
  <1>. QED
    BY <1>1, <1>2, <1>3
    DEF Init, IInv, Runs, Top, OneTurn, Turn, BandsKept, Counted, Depth, Spare,
        EndsLast, Permits, One

LEMMA StepInv ==
    ASSUME Iterations \in Nat, QueueSize \in Nat, IInv,
           ThreadStep \/ Complete \/ CompleteCtrl
    PROVE  IInv'
  BY PostBuffersInv, GrantedSemInv, GrantedSem2Inv, TransferInv, AgainInv, ReturnInv,
     SignalPaceInv, CheckCompletedInv, SignalSemInv, WaitSem2Inv, StopInv,
     CompleteInv, CompleteCtrlInv
  DEF ThreadStep

LEMMA StutterInv ==
    ASSUME IInv, UNCHANGED vars
    PROVE  IInv'
  BY DEF vars, IInv, TypeOK, Top, OneTurn, Turn, BandsKept, Counted, Depth, Spare,
         EndsLast, Permits, Pace, CtrlBand, IsServer

(* A step of the thread starts transfers and forgets none; only Complete    *)
(* counts one as completed, and takes it from those in flight.             *)
LEMMA StepCounts ==
    ASSUME IInv, ThreadStep \/ CompleteCtrl
    PROVE  completed' = completed /\ inflight' \in {inflight, inflight + 1}
  BY DEF ThreadStep, PostBuffers, GrantedSem, GrantedSem2, Transfer, Again, Return,
         SignalPace, CheckCompleted, SignalSem, WaitSem2, Stop, CompleteCtrl

(* The server announces a transfer when it sends its control message, the   *)
(* client when it has received it.                                         *)
AnnouncedNow == IF Pace = "sem" THEN ctrl' > ctrl ELSE ctrl' < ctrl

LEMMA AnnouncedStep ==
    ASSUME IInv, CtrlBand, ThreadStep \/ Complete \/ CompleteCtrl
    PROVE  /\ Announced \in Nat
           /\ Announced' = Announced + One(AnnouncedNow)
  <1>. DEFINE Step == Announced' = Announced + One(AnnouncedNow)
  <1>0. Announced \in Nat
    BY Types DEF Announced, One
  <1>1. ASSUME UNCHANGED <<ctrl, initiated>>,
               One(Top' \in Early) + One(stored'["sem2"])
                 = One(Top \in Early) + One(stored["sem2"])
        PROVE  Step
    BY <1>1, Types DEF Announced, AnnouncedNow, One
  <1>2. ASSUME PostBuffers PROVE Step
    <2>1. Top = "post_buffers" /\ stack # <<>> /\ UNCHANGED <<ctrl, initiated>>
      BY <1>2, AtTop DEF PostBuffers, Labels
    <2>2. stored'["sem2"] = stored["sem2"]
      BY <1>2, Types DEF PostBuffers, AsyncWait, Semaphores
    <2>3. ~stored["sem"]
      BY <2>1, Types DEF IInv, OneTurn, Turn, One
    <2>4. CASE count["sem"] > 0
      <3>1. Runs(stack', "granted_sem", Len(stack) + 1)
        BY <1>2, <2>1, <2>4, ProceedCall DEF PostBuffers, AsyncWait, Granted, Outer, Labels
      <3>. QED
        BY <1>1, <2>1, <2>2, <3>1 DEF Runs, Top, Early, One
    <2>5. CASE ~(count["sem"] > 0)
      <3>1. Runs(stack', "return", Len(stack))
        BY <1>2, <2>1, <2>3, <2>5, ProceedTop DEF PostBuffers, AsyncWait, Labels
      <3>. QED
        BY <1>1, <2>1, <2>2, <3>1 DEF Runs, Top, Early, One
    <2>. QED
      BY <2>4, <2>5
  <1>3. ASSUME GrantedSem PROVE Step
    <2>1. /\ Top = "granted_sem" /\ stack # <<>> /\ UNCHANGED <<initiated, stored>>
          /\ ctrl' = ctrl + 1
      BY <1>3, AtTop DEF GrantedSem, Labels
    <2>2. CASE Pace = "sem"
      <3>1. Runs(stack', "transfer", Len(stack))
        BY <1>3, <2>1, <2>2, ProceedTop DEF GrantedSem, Labels
      <3>2. One(Top' \in Early) = 1 /\ One(Top \in Early) = 0 /\ One(AnnouncedNow) = 1
        BY <2>1, <2>2, <3>1, Types DEF Runs, Top, Early, One, AnnouncedNow
      <3>. QED
        BY <2>1, <3>2, Types DEF Announced, One
    <2>3. CASE Pace = "sem2"
      <3>1. Runs(stack', "return", Len(stack))
        BY <1>3, <2>1, <2>3, ProceedTop DEF GrantedSem, Labels
      <3>2. One(Top' \in Early) = 0 /\ One(Top \in Early) = 0 /\ One(AnnouncedNow) = 0
        BY <2>1, <2>3, <3>1, Types DEF Runs, Top, Early, One, AnnouncedNow
      <3>. QED
        BY <2>1, <3>2, Types DEF Announced, One
    <2>. QED
      BY <2>2, <2>3, Types
  <1>4. ASSUME GrantedSem2 PROVE Step
    <2>1. /\ Top = "granted_sem2" /\ stack # <<>>
          /\ UNCHANGED <<ctrl, initiated, stored>>
      BY <1>4, AtTop DEF GrantedSem2, Labels
    <2>2. Runs(stack', "transfer", Len(stack))
      BY <1>4, <2>1, ProceedTop DEF GrantedSem2, Labels
    <2>. QED
      BY <1>1, <2>1, <2>2 DEF Runs, Top, Early, One
  <1>5. ASSUME Transfer PROVE Step
    <2>1. /\ Top = "transfer" /\ stack # <<>> /\ UNCHANGED <<ctrl, stored>>
          /\ initiated' = initiated + 1
      BY <1>5, AtTop DEF Transfer, Labels
    <2>2. Runs(stack', "again", Len(stack))
      BY <1>5, <2>1, ProceedTop DEF Transfer, Labels
    <2>3. One(Top' \in Early) = 0 /\ One(Top \in Early) = 1 /\ One(AnnouncedNow) = 0
      BY <2>1, <2>2, Types DEF Runs, Top, Early, One, AnnouncedNow
    <2>. QED
      BY <2>1, <2>3, Types DEF Announced, One
  <1>6. ASSUME Again PROVE Step
    <2>1. Top = "again" /\ stack # <<>> /\ UNCHANGED <<ctrl, initiated, stored>>
      BY <1>6, AtTop DEF Again, Labels
    <2>2. Top' \in {"return", "post_buffers"}
      <3>1. CASE initiated < Iterations
        <4>1. Runs(stack', "post_buffers", Len(stack) + 1)
          BY <1>6, <2>1, <3>1, ProceedCall DEF Again, Outer, Labels
        <4>. QED
          BY <4>1 DEF Runs, Top
      <3>2. CASE ~(initiated < Iterations)
        <4>1. Runs(stack', "return", Len(stack))
          BY <1>6, <2>1, <3>2, ProceedTop DEF Again, Labels
        <4>. QED
          BY <4>1 DEF Runs, Top
      <3>. QED
        BY <3>1, <3>2
    <2>. QED
      BY <1>1, <2>1, <2>2 DEF Early, One
  <1>7. ASSUME Return PROVE Step
    <2>1. /\ Top = "return" /\ stack # <<>> /\ UNCHANGED <<ctrl, initiated, stored>>
          /\ stack' = Front(stack)
      BY <1>7, AtTop DEF Return, Labels
    <2>2. stack \in Seq(Labels) /\ Nested(stack, Outer)
      BY DEF IInv, TypeOK
    <2>3. Top' \in {"return", "check", "idle"}
      BY <2>1, <2>2, FrontFacts DEF Top, Outer
    <2>. QED
      BY <1>1, <2>1, <2>3 DEF Early, One
  <1>8. ASSUME SignalPace PROVE Step
    <2>1. Top = "completed" /\ stack # <<>> /\ UNCHANGED <<ctrl, initiated>>
      BY <1>8, AtTop DEF SignalPace, Labels
    <2>2. CASE stored[Pace]
      <3>1. /\ stored' = [stored EXCEPT ![Pace] = FALSE]
            /\ Proceed("check", Granted(Pace))
        BY <1>8, <2>2 DEF SignalPace, Signal
      <3>2. CASE Pace = "sem"
        <4>1. Runs(stack', "granted_sem", Len(stack) + 1)
          BY <2>1, <3>1, <3>2, ProceedCall DEF Granted, Outer, Labels
        <4>2. stored'["sem2"] = stored["sem2"]
          BY <3>1, <3>2, Types DEF Semaphores
        <4>. QED
          BY <1>1, <2>1, <4>1, <4>2 DEF Runs, Top, Early, One
      <3>3. CASE Pace = "sem2"
        <4>1. Runs(stack', "granted_sem2", Len(stack) + 1)
          BY <2>1, <3>1, <3>3, ProceedCall DEF Granted, Outer, Labels
        <4>2. stored["sem2"] /\ stored'["sem2"] = FALSE
          BY <2>2, <3>1, <3>3, Types DEF Semaphores
        <4>. QED
          BY <1>1, <2>1, <4>1, <4>2 DEF Runs, Top, Early, One
      <3>. QED
        BY <3>2, <3>3, Types
    <2>3. CASE ~stored[Pace]
      <3>1. Proceed("check", <<>>) /\ UNCHANGED stored
        BY <1>8, <2>3 DEF SignalPace, Signal
      <3>2. Runs(stack', "check", Len(stack))
        BY <2>1, <3>1, ProceedTop DEF Labels
      <3>. QED
        BY <1>1, <2>1, <3>1, <3>2 DEF Runs, Top, Early, One
    <2>. QED
      BY <2>2, <2>3
  <1>9. ASSUME CheckCompleted PROVE Step
    <2>1. Top = "check" /\ stack # <<>> /\ UNCHANGED <<ctrl, initiated, stored>>
      BY <1>9, AtTop DEF CheckCompleted, Labels
    <2>2. Runs(stack', "return", Len(stack))
      BY <1>9, <2>1, ProceedTop DEF CheckCompleted, Labels
    <2>. QED
      BY <1>1, <2>1, <2>2 DEF Runs, Top, Early, One
  <1>10. ASSUME SignalSem PROVE Step
    <2>1. Top = "ctrl_completed" /\ stack # <<>> /\ UNCHANGED <<ctrl, initiated>>
      BY <1>10, AtTop DEF SignalSem, Labels
    <2>2. ~stored["sem"]
      BY <2>1, Types DEF IInv, OneTurn, Turn, One
    <2>3. Proceed("wait_sem2", <<>>) /\ UNCHANGED stored
      BY <1>10, <2>2 DEF SignalSem, Signal
    <2>4. Runs(stack', "wait_sem2", Len(stack))
      BY <2>1, <2>3, ProceedTop DEF Labels
    <2>. QED
      BY <1>1, <2>1, <2>3, <2>4 DEF Runs, Top, Early, One
  <1>11. ASSUME WaitSem2 PROVE Step
    <2>1. Top = "wait_sem2" /\ stack # <<>> /\ UNCHANGED <<ctrl, initiated>>
      BY <1>11, AtTop DEF WaitSem2, Labels
    <2>2. ~stored["sem2"]
      BY <2>1, Types DEF IInv, OneTurn, Turn, One
    <2>3. CASE count["sem2"] > 0
      <3>1. Proceed("return", <<"granted_sem2">>) /\ UNCHANGED stored
        BY <1>11, <2>3 DEF WaitSem2, AsyncWait, Granted
      <3>2. Runs(stack', "granted_sem2", Len(stack) + 1)
        BY <2>1, <3>1, ProceedCall DEF Outer, Labels
      <3>. QED
        BY <1>1, <2>1, <3>1, <3>2 DEF Runs, Top, Early, One
    <2>4. CASE ~(count["sem2"] > 0)
      <3>1. /\ stored' = [stored EXCEPT !["sem2"] = TRUE]
            /\ Proceed("return", <<>>)
        BY <1>11, <2>2, <2>4 DEF WaitSem2, AsyncWait
      <3>2. Runs(stack', "return", Len(stack))
        BY <2>1, <3>1, ProceedTop DEF Labels
      <3>3. stored'["sem2"]
        BY <3>1, Types DEF Semaphores
      <3>. QED
        BY <1>1, <2>1, <2>2, <3>2, <3>3 DEF Runs, Top, Early, One
    <2>. QED
      BY <2>3, <2>4
  <1>12. ASSUME Stop \/ Complete PROVE Step
    <2>1. /\ Top = "idle" /\ UNCHANGED <<ctrl, initiated, stored>>
          /\ stack' = <<"stopped">> \/ stack' = <<"completed">>
      BY <1>12 DEF Stop, Complete, Top, TopOf
    <2>2. Top' \in {"stopped", "completed"}
      BY <2>1, SingleFacts DEF Top, Labels
    <2>. QED
      BY <1>1, <2>1, <2>2 DEF Early, One
  <1>13. ASSUME CompleteCtrl PROVE Step
    <2>1. /\ Top = "idle" /\ UNCHANGED <<initiated, stored>> /\ ctrl' = ctrl - 1
          /\ stack' = IF IsServer THEN <<>> ELSE <<"ctrl_completed">>
      BY <1>13 DEF CompleteCtrl, Top, TopOf
    <2>2. CASE IsServer
      <3>1. Pace = "sem" /\ Top' = "idle"
        BY <2>1, <2>2 DEF Pace, Top, TopOf
      <3>2. One(Top' \in Early) = 0 /\ One(Top \in Early) = 0 /\ One(AnnouncedNow) = 0
        BY <2>1, <3>1, Types DEF Early, One, AnnouncedNow
      <3>. QED
        BY <2>1, <3>2, Types DEF Announced, One
    <2>3. CASE ~IsServer
      <3>1. Pace = "sem2" /\ Top' = "ctrl_completed"
        BY <2>1, <2>3, SingleFacts DEF Pace, Top, Labels
      <3>2. One(Top' \in Early) = 1 /\ One(Top \in Early) = 0 /\ One(AnnouncedNow) = 1
        BY <2>1, <3>1, Types DEF Early, One, AnnouncedNow
      <3>. QED
        BY <2>1, <3>2, Types DEF Announced, One
    <2>. QED
      BY <2>2, <2>3
  <1>. QED
    BY <1>0, <1>2, <1>3, <1>4, <1>5, <1>6, <1>7, <1>8, <1>9, <1>10, <1>11, <1>12, <1>13
    DEF ThreadStep

(* What is announced when the last transfer was posted. *)
LEMMA AllAnnounced ==
    ASSUME Iterations \in Nat, IInv
    PROVE  /\ Announced \in Nat /\ initiated <= Announced
           /\ initiated = inflight + completed /\ initiated <= Iterations
           /\ initiated = Iterations /\ Pace = "sem" => Announced = Iterations
           /\ shutdown => completed = Iterations
  <1>1. /\ Announced \in Nat /\ initiated <= Announced
        /\ initiated = inflight + completed /\ initiated <= Iterations
        /\ shutdown => completed = Iterations
    BY Types DEF Announced, One, IInv, Counted, OneTurn, EndsLast
  <1>2. ASSUME initiated = Iterations, Pace = "sem" PROVE Announced = Iterations
    <2>1. Turn = 0
      BY <1>2, Types DEF IInv, OneTurn, Turn, One
    <2>2. Top \notin Early /\ ~stored["sem2"]
      BY <1>2, <2>1, Types DEF IInv, BandsKept, Turn, Early, One
    <2>. QED
      BY <1>2, <2>2, Types DEF Announced, One
  <1>. QED
    BY <1>1, <1>2

LEMMA SafetyOfInv ==
    ASSUME Iterations \in Nat, QueueSize \in Nat, IInv
    PROVE  /\ PermitsConserved /\ NothingThrown /\ NestingBounded /\ StopsWhenDone
           /\ inflight + completed <= Iterations
  <1>1. \A l \in Labels \ Outer : Frames(l) = One(Top = l)
    <2>. TAKE l \in Labels \ Outer
    <2>1. stack \in Seq(Labels) /\ Nested(stack, Outer) /\ l \notin Outer /\ l # "idle"
      BY DEF IInv, TypeOK, Labels
    <2>2. /\ TopOf(stack) = l => Occurrences(stack, l) = 1
          /\ TopOf(stack) # l => Occurrences(stack, l) = 0
      BY <2>1, OnTopOnce
    <2>. QED
      BY <2>2 DEF Frames, Occurrences, Top, One
  <1>2. /\ Frames("completed") = One(Top = "completed")
        /\ Frames("transfer") = One(Top = "transfer")
        /\ Frames("granted_sem") = One(Top = "granted_sem")
        /\ Frames("granted_sem2") = One(Top = "granted_sem2")
        /\ Frames("ctrl_completed") = One(Top = "ctrl_completed")
    BY <1>1 DEF Labels, Outer
  <1>3. Head(Granted("sem")) = "granted_sem" /\ Head(Granted("sem2")) = "granted_sem2"
    BY DEF Granted
  <1>4. PermitsConserved
    BY <1>2, <1>3, Types DEF IInv, Permits, PermitsConserved, Holds, One
  <1>5. NothingThrown
    BY OnTopFacts DEF IInv, NothingThrown, At, Top
  <1>6. NestingBounded
    <2>1. inflight <= QueueSize
      BY Types DEF IInv, Permits, One
    <2>2. Len(stack) <= 2 * inflight + 2
      BY Types DEF IInv, Depth, Spare
    <2>. QED
      BY <2>1, <2>2, Types DEF NestingBounded
  <1>7. Stopped => Top = "stopped"
    BY DEF Stopped, Top, TopOf, Last
  <1>8. StopsWhenDone /\ inflight + completed <= Iterations
    BY <1>7, Types DEF IInv, StopsWhenDone, EndsLast, Counted, OneTurn
  <1>. QED
    BY <1>4, <1>5, <1>6, <1>8
=============================================================================
