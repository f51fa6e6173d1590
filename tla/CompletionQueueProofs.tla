------------------------ MODULE CompletionQueueProofs ------------------------
(***************************************************************************)
(* Proofs of the safety invariants of CompletionQueue, for any number of    *)
(* operations, any depth of the provider, and whether or not operations     *)
(* fail and handlers throw.                                                *)
(***************************************************************************)
EXTENDS CompletionQueue, SequenceTheorems, TLAPS

(* Every item of f is in h, at its own position or behind it. *)
Covers(h, f) == \A i \in 1 .. Len(f) : \E j \in i .. Len(h) : h[j] = f[i]

(***************************************************************************)
(* The handler of an operation in flight is queued with at least as many    *)
(* handlers before it as there are operations before the operation: those a *)
(* refusal left behind only add to them, so that no pop takes it before its *)
(* turn.                                                                   *)
(***************************************************************************)
Covered == Covers(handlers, InFlight)

(* The reader does not wait unless the descriptor will wake it. *)
WakesUp == reader = "waiting" => signalled \/ (armed /\ entries = <<>>)

IInv == TypeOK /\ WakesUp /\ Covered /\ HandlersFollowPosts

-----------------------------------------------------------------------------
(* Sequences. *)

LEMMA CoversAppend ==
    ASSUME NEW h \in Seq(Ops), NEW f \in Seq(Ops), NEW op \in Ops, Covers(h, f)
    PROVE  Covers(Append(h, op), f) /\ Covers(Append(h, op), Append(f, op))
  <1>1. /\ Append(h, op) \in Seq(Ops) /\ Len(Append(h, op)) = Len(h) + 1
        /\ \A j \in 1 .. Len(h) : Append(h, op)[j] = h[j]
        /\ Append(h, op)[Len(h) + 1] = op
    BY AppendProperties
  <1>2. /\ Len(Append(f, op)) = Len(f) + 1
        /\ \A i \in 1 .. Len(f) : Append(f, op)[i] = f[i]
        /\ Append(f, op)[Len(f) + 1] = op
    BY AppendProperties
  <1>3. Len(h) \in Nat /\ Len(f) \in Nat
    OBVIOUS
  <1>4. Len(f) <= Len(h)
    <2>1. CASE Len(f) = 0
      BY <2>1, <1>3
    <2>2. CASE Len(f) # 0
      <3>1. Len(f) \in 1 .. Len(f)
        BY <2>2, <1>3
      <3>. QED
        BY <3>1, <1>3 DEF Covers
    <2>. QED
      BY <2>1, <2>2
  <1>5. \A i \in 1 .. Len(f) : \E j \in i .. Len(h) + 1 : Append(h, op)[j] = f[i]
    <2>. TAKE i \in 1 .. Len(f)
    <2>1. PICK j \in i .. Len(h) : h[j] = f[i]
      BY DEF Covers
    <2>2. j \in 1 .. Len(h) /\ j \in i .. Len(h) + 1
      BY <1>3
    <2>. QED
      BY <2>1, <2>2, <1>1
  <1>6. Covers(Append(h, op), f)
    BY <1>1, <1>5 DEF Covers
  <1>7. ASSUME NEW i \in 1 .. Len(f) + 1
        PROVE  \E j \in i .. Len(h) + 1 : Append(h, op)[j] = Append(f, op)[i]
    <2>1. CASE i \in 1 .. Len(f)
      BY <2>1, <1>2, <1>5
    <2>2. CASE i = Len(f) + 1
      <3>1. Len(h) + 1 \in i .. Len(h) + 1
        BY <2>2, <1>3, <1>4
      <3>. QED
        BY <3>1, <2>2, <1>1, <1>2
    <2>. QED
      BY <2>1, <2>2, <1>3
  <1>. QED
    BY <1>1, <1>2, <1>6, <1>7 DEF Covers

LEMMA CoversTail ==
    ASSUME NEW h \in Seq(Ops), NEW f \in Seq(Ops), f # <<>>, Covers(h, f)
    PROVE  h # <<>> /\ Covers(h, Tail(f)) /\ Covers(Tail(h), Tail(f))
  <1>1. /\ Len(f) \in Nat /\ Len(h) \in Nat /\ Len(f) > 0
        /\ Len(Tail(f)) = Len(f) - 1
        /\ \A i \in 1 .. Len(Tail(f)) : Tail(f)[i] = f[i + 1]
    BY HeadTailProperties, EmptySeq
  <1>2. Len(h) > 0 /\ h # <<>>
    BY <1>1 DEF Covers
  <1>3. /\ Len(Tail(h)) = Len(h) - 1
        /\ \A i \in 1 .. Len(Tail(h)) : Tail(h)[i] = h[i + 1]
    BY <1>2, HeadTailProperties
  <1>4. ASSUME NEW i \in 1 .. Len(Tail(f))
        PROVE  /\ \E j \in i .. Len(h) : h[j] = Tail(f)[i]
               /\ \E j \in i .. Len(Tail(h)) : Tail(h)[j] = Tail(f)[i]
    <2>1. i + 1 \in 1 .. Len(f) /\ i \in Nat \ {0}
      BY <1>1
    <2>2. PICK j \in i + 1 .. Len(h) : h[j] = f[i + 1]
      BY <2>1 DEF Covers
    <2>3. j \in i .. Len(h) /\ j - 1 \in i .. Len(Tail(h)) /\ j - 1 \in 1 .. Len(Tail(h))
      BY <2>1, <1>1, <1>3
    <2>4. Tail(h)[j - 1] = h[(j - 1) + 1] /\ (j - 1) + 1 = j
      BY <2>3, <1>3
    <2>. QED
      BY <2>2, <2>3, <2>4, <1>1
  <1>. QED
    BY <1>2, <1>4 DEF Covers

(* What the operations of the provider's queue do to the operations in it.  *)
LEMMA OpsOfType ==
    ASSUME NEW es \in Seq(Entries)
    PROVE  /\ OpsOf(es) \in Seq(Ops) /\ Len(OpsOf(es)) = Len(es)
           /\ \A i \in 1 .. Len(es) : OpsOf(es)[i] = es[i].op
  <1>1. Len(es) \in Nat /\ \A i \in 1 .. Len(es) : es[i] \in Entries
    BY ElementOfSeq
  <1>2. \A i \in 1 .. Len(es) : es[i].op \in Ops
    BY <1>1 DEF Entries
  <1>3. OpsOf(es) \in [1 .. Len(es) -> Ops]
    BY <1>2 DEF OpsOf
  <1>4. OpsOf(es) \in Seq(Ops)
    BY <1>1, <1>3, SeqDef
  <1>5. DOMAIN OpsOf(es) = 1 .. Len(OpsOf(es)) /\ Len(OpsOf(es)) \in Nat
    BY <1>4
  <1>6. DOMAIN OpsOf(es) = 1 .. Len(es)
    BY DEF OpsOf
  <1>. QED
    BY <1>1, <1>4, <1>5, <1>6 DEF OpsOf

LEMMA OpsOfAppend ==
    ASSUME NEW es \in Seq(Entries), NEW e \in Entries
    PROVE  OpsOf(Append(es, e)) = Append(OpsOf(es), e.op)
  <1>1. e.op \in Ops
    BY DEF Entries
  <1>2. /\ Append(es, e) \in Seq(Entries) /\ Len(Append(es, e)) = Len(es) + 1
        /\ \A i \in 1 .. Len(es) : Append(es, e)[i] = es[i]
        /\ Append(es, e)[Len(es) + 1] = e
    BY AppendProperties
  <1>3. /\ Append(OpsOf(es), e.op) \in Seq(Ops)
        /\ Len(Append(OpsOf(es), e.op)) = Len(es) + 1
        /\ \A i \in 1 .. Len(es) : Append(OpsOf(es), e.op)[i] = OpsOf(es)[i]
        /\ Append(OpsOf(es), e.op)[Len(es) + 1] = e.op
    BY <1>1, OpsOfType, AppendProperties
  <1>4. \A i \in 1 .. Len(es) + 1 : OpsOf(Append(es, e))[i] = Append(OpsOf(es), e.op)[i]
    <2>1. \A i \in 1 .. Len(es) + 1 : OpsOf(Append(es, e))[i] = Append(es, e)[i].op
      BY <1>2, OpsOfType
    <2>2. \A i \in 1 .. Len(es) : OpsOf(es)[i] = es[i].op
      BY OpsOfType
    <2>3. Len(es) \in Nat
      OBVIOUS
    <2>. TAKE i \in 1 .. Len(es) + 1
    <2>4. CASE i \in 1 .. Len(es)
      BY <2>1, <2>2, <2>4, <1>2, <1>3
    <2>5. CASE i = Len(es) + 1
      BY <2>1, <2>5, <1>2, <1>3
    <2>6. i \in 1 .. Len(es) \/ i = Len(es) + 1
      BY <2>3
    <2>. QED
      BY <2>4, <2>5, <2>6
  <1>5. OpsOf(Append(es, e)) \in Seq(Ops) /\ Len(OpsOf(Append(es, e))) = Len(es) + 1
    BY <1>2, OpsOfType
  <1>. QED
    BY <1>3, <1>4, <1>5, SeqEqual

LEMMA OpsOfTail ==
    ASSUME NEW es \in Seq(Entries), es # <<>>
    PROVE  OpsOf(es) = <<Head(es).op>> \o OpsOf(Tail(es))
  <1>1. /\ Head(es) \in Entries /\ Tail(es) \in Seq(Entries)
        /\ Len(Tail(es)) = Len(es) - 1 /\ Head(es) = es[1]
        /\ \A i \in 1 .. Len(Tail(es)) : Tail(es)[i] = es[i + 1]
        /\ Len(es) \in Nat /\ Len(es) > 0
    BY HeadTailProperties, EmptySeq
  <1>2. <<Head(es).op>> \in Seq(Ops) /\ Len(<<Head(es).op>>) = 1
    BY <1>1 DEF Entries
  <1>. DEFINE both == <<Head(es).op>> \o OpsOf(Tail(es))
  <1>3. OpsOf(Tail(es)) \in Seq(Ops) /\ Len(OpsOf(Tail(es))) = Len(es) - 1
    BY <1>1, OpsOfType
  <1>4. /\ both \in Seq(Ops)
        /\ Len(both) = 1 + (Len(es) - 1)
        /\ \A i \in 1 .. 1 + (Len(es) - 1) :
              both[i] = IF i <= 1 THEN <<Head(es).op>>[i] ELSE OpsOf(Tail(es))[i - 1]
    BY <1>2, <1>3, ConcatProperties
  <1>5. 1 + (Len(es) - 1) = Len(es)
    BY <1>1
  <1>6. \A i \in 1 .. Len(es) : OpsOf(es)[i] = both[i]
    <2>. TAKE i \in 1 .. Len(es)
    <2>0. OpsOf(es)[i] = es[i].op
      BY OpsOfType
    <2>1. CASE i = 1
      BY <2>0, <2>1, <1>1, <1>4, <1>5
    <2>2. CASE i # 1
      <3>1. i - 1 \in 1 .. Len(Tail(es)) /\ (i - 1) + 1 = i
        BY <2>2, <1>1
      <3>2. Tail(es)[i - 1] = es[i] /\ OpsOf(Tail(es))[i - 1] = Tail(es)[i - 1].op
        BY <3>1, <1>1, OpsOfType
      <3>3. both[i] = OpsOf(Tail(es))[i - 1]
        BY <2>2, <1>4, <1>5
      <3>. QED
        BY <3>2, <3>3, <2>0
    <2>. QED
      BY <2>1, <2>2
  <1>7. OpsOf(es) \in Seq(Ops) /\ Len(OpsOf(es)) = Len(both)
    BY <1>4, <1>5, OpsOfType
  <1>. QED
    BY <1>4, <1>5, <1>6, <1>7, SeqEqual

LEMMA TailOfConcat ==
    ASSUME NEW x \in Ops, NEW s \in Seq(Ops)
    PROVE  <<x>> \o s # <<>> /\ Tail(<<x>> \o s) = s
  <1>. DEFINE both == <<x>> \o s
  <1>1. <<x>> \in Seq(Ops) /\ Len(<<x>>) = 1 /\ Len(s) \in Nat
    OBVIOUS
  <1>2. /\ both \in Seq(Ops) /\ Len(both) = 1 + Len(s)
        /\ \A i \in 1 .. 1 + Len(s) : both[i] = IF i <= 1 THEN <<x>>[i] ELSE s[i - 1]
    BY <1>1, ConcatProperties
  <1>3. both # <<>>
    BY <1>1, <1>2
  <1>. HIDE DEF both
  <1>4. /\ Tail(both) \in Seq(Ops) /\ Len(Tail(both)) = Len(both) - 1
        /\ \A i \in 1 .. Len(Tail(both)) : Tail(both)[i] = both[i + 1]
    BY <1>2, <1>3, HeadTailProperties
  <1>5. Len(Tail(both)) = Len(s)
    BY <1>1, <1>2, <1>4
  <1>6. ASSUME NEW i \in 1 .. Len(s)
        PROVE  Tail(both)[i] = s[i]
    <2>1. i + 1 \in 1 .. 1 + Len(s) /\ ~(i + 1 <= 1) /\ (i + 1) - 1 = i
      BY <1>1
    <2>. QED
      BY <2>1, <1>2, <1>4, <1>5
  <1>7. Tail(both) = s
    BY <1>4, <1>5, <1>6, SeqEqual
  <1>. QED
    BY <1>3, <1>7 DEF both

-----------------------------------------------------------------------------
(* The operations in flight: the one being executed, those whose entries    *)
(* wait to be read, those posted.                                          *)
Executing == IF reader = "executing" THEN <<current.op>> ELSE <<>>

LEMMA FlightParts ==
    ASSUME TypeOK
    PROVE  /\ Executing \in Seq(Ops) /\ OpsOf(entries) \in Seq(Ops) /\ posted \in Seq(Ops)
           /\ InFlight = Executing \o (OpsOf(entries) \o posted)
           /\ OpsOf(entries) \o posted \in Seq(Ops)
           /\ InFlight \in Seq(Ops)
  <1>1. Executing \in Seq(Ops)
    <2>1. CASE reader = "executing"
      <3>1. current \in Entries
        BY <2>1 DEF TypeOK
      <3>2. current.op \in Ops
        BY <3>1 DEF Entries
      <3>. QED
        BY <2>1, <3>2 DEF Executing
    <2>2. CASE reader # "executing"
      BY <2>2 DEF Executing
    <2>. QED
      BY <2>1, <2>2
  <1>2. OpsOf(entries) \in Seq(Ops) /\ posted \in Seq(Ops)
    BY OpsOfType DEF TypeOK
  <1>3. InFlight = Executing \o (OpsOf(entries) \o posted)
    <2>1. InFlight = (Executing \o OpsOf(entries)) \o posted
      BY DEF InFlight, Executing
    <2>. QED
      BY <1>1, <1>2, <2>1, ConcatAssociative
  <1>4. OpsOf(entries) \o posted \in Seq(Ops)
    BY <1>2, ConcatProperties
  <1>. QED
    BY <1>1, <1>2, <1>3, <1>4, ConcatProperties

(* An accepted operation is the last in flight. *)
LEMMA FlightGrows ==
    ASSUME TypeOK, NEW op \in Ops, PostAccepted(op)
    PROVE  InFlight' = Append(InFlight, op)
  <1>. DEFINE A == Executing
              B == OpsOf(entries)
  <1>1. InFlight' = (A \o B) \o Append(posted, op)
    BY DEF PostAccepted, InFlight, Executing
  <1>2. A \in Seq(Ops) /\ B \in Seq(Ops) /\ posted \in Seq(Ops)
    BY FlightParts
  <1>3. InFlight = (A \o B) \o posted
    BY DEF InFlight, Executing
  <1>. HIDE DEF A, B
  <1>4. A \o B \in Seq(Ops) /\ (A \o B) \o posted \in Seq(Ops) /\ <<op>> \in Seq(Ops)
    BY <1>2, ConcatProperties
  <1>5. Append(posted, op) = posted \o <<op>>
    BY <1>2, AppendIsConcat
  <1>6. (A \o B) \o (posted \o <<op>>) = ((A \o B) \o posted) \o <<op>>
    BY <1>2, <1>4, ConcatAssociative
  <1>7. ((A \o B) \o posted) \o <<op>> = Append((A \o B) \o posted, op)
    BY <1>4, AppendIsConcat
  <1>. QED
    BY <1>1, <1>3, <1>5, <1>6, <1>7

(* A completion moves an operation from what is posted to the entries. *)
LEMMA CompleteKeepsFlight ==
    ASSUME TypeOK, NEW ok \in BOOLEAN, Complete(ok)
    PROVE  InFlight' = InFlight /\ OpsOf(entries)' \o posted' = OpsOf(entries) \o posted
  <1>. DEFINE e == [op |-> Head(posted), ok |-> ok]
              B == OpsOf(entries)
  <1>1. /\ posted \in Seq(Ops) /\ posted # <<>> /\ B \in Seq(Ops)
        /\ Head(posted) \in Ops /\ Tail(posted) \in Seq(Ops)
    BY FlightParts, HeadTailProperties DEF Complete
  <1>2. e \in Entries /\ entries \in Seq(Entries) /\ e.op = Head(posted)
    BY <1>1 DEF Entries, TypeOK
  <1>3. OpsOf(entries)' = OpsOf(Append(entries, e))
    BY DEF Complete, OpsOf
  <1>4. OpsOf(entries)' = Append(B, Head(posted))
    BY <1>2, <1>3, OpsOfAppend
  <1>5. Append(B, Head(posted)) = B \o <<Head(posted)>> /\ <<Head(posted)>> \in Seq(Ops)
    BY <1>1, AppendIsConcat
  <1>6. posted = <<Head(posted)>> \o Tail(posted)
    BY <1>1
  <1>. HIDE DEF B
  <1>7. (B \o <<Head(posted)>>) \o Tail(posted) = B \o (<<Head(posted)>> \o Tail(posted))
    BY <1>1, <1>5, ConcatAssociative
  <1>8. OpsOf(entries)' \o posted' = B \o posted
    <2>1. posted' = Tail(posted)
      BY DEF Complete
    <2>. QED
      BY <2>1, <1>4, <1>5, <1>6, <1>7
  <1>9. OpsOf(entries)' \in Seq(Ops) /\ posted' \in Seq(Ops)
    <2>1. Append(B, Head(posted)) \in Seq(Ops)
      BY <1>1, AppendProperties
    <2>2. posted' = Tail(posted)
      BY DEF Complete
    <2>. QED
      BY <1>1, <1>4, <2>1, <2>2
  <1>10. Executing \in Seq(Ops) /\ InFlight = Executing \o (B \o posted)
    BY FlightParts DEF B
  <1>11. InFlight' = Executing \o (OpsOf(entries)' \o posted')
    <2>1. InFlight' = (Executing \o OpsOf(entries)') \o posted'
      BY DEF InFlight, Executing, Complete
    <2>. QED
      BY <2>1, <1>9, <1>10, ConcatAssociative
  <1>. QED
    BY <1>8, <1>10, <1>11 DEF B

(* An entry that is read leaves the rest of the entries and of what is      *)
(* posted.                                                                 *)
LEMMA ReadSplits ==
    ASSUME TypeOK, entries # <<>>
    PROVE  /\ OpsOf(entries) \o posted
                = <<Head(entries).op>> \o (OpsOf(Tail(entries)) \o posted)
           /\ Head(entries).op \in Ops /\ Head(entries) \in Entries
           /\ Tail(entries) \in Seq(Entries)
           /\ OpsOf(Tail(entries)) \o posted \in Seq(Ops)
  <1>1. entries \in Seq(Entries) /\ posted \in Seq(Ops)
    BY DEF TypeOK
  <1>2. Head(entries) \in Entries /\ Tail(entries) \in Seq(Entries)
    BY <1>1, HeadTailProperties
  <1>3. Head(entries).op \in Ops
    BY <1>2 DEF Entries
  <1>4. <<Head(entries).op>> \in Seq(Ops) /\ OpsOf(Tail(entries)) \in Seq(Ops)
    <2>1. OpsOf(Tail(entries)) \in Seq(Ops)
      BY <1>2, OpsOfType
    <2>. QED
      BY <1>3, <2>1
  <1>5. OpsOf(entries) = <<Head(entries).op>> \o OpsOf(Tail(entries))
    BY <1>1, OpsOfTail
  <1>6. (<<Head(entries).op>> \o OpsOf(Tail(entries))) \o posted
            = <<Head(entries).op>> \o (OpsOf(Tail(entries)) \o posted)
    BY <1>1, <1>4, ConcatAssociative
  <1>7. OpsOf(Tail(entries)) \o posted \in Seq(Ops)
    BY <1>1, <1>4, ConcatProperties
  <1>. QED
    BY <1>2, <1>3, <1>5, <1>6, <1>7

(* The operation whose entry is read is the first in flight.  It stays so   *)
(* while its handler is executed, else it leaves.                          *)
LEMMA ReadFlight ==
    ASSUME TypeOK, ReadSuccess \/ ReadError
    PROVE  /\ InFlight # <<>>
           /\ InFlight' = IF reader' = "executing" THEN InFlight ELSE Tail(InFlight)
  <1>. DEFINE rest == OpsOf(Tail(entries)) \o posted
              first == Head(entries).op
  <1>1. /\ reader = "reading" /\ entries # <<>> /\ reader' \in {"executing", "stopped"}
        /\ current' = Head(entries) /\ entries' = Tail(entries) /\ posted' = posted
    BY DEF ReadSuccess, ReadError
  <1>2. /\ OpsOf(entries) \o posted = <<first>> \o rest
        /\ first \in Ops /\ rest \in Seq(Ops) /\ OpsOf(Tail(entries)) \in Seq(Ops)
    BY <1>1, ReadSplits, OpsOfType
  <1>3. InFlight = <<first>> \o rest
    <2>1. InFlight = (<<>> \o OpsOf(entries)) \o posted
      BY <1>1 DEF InFlight
    <2>2. <<>> \o OpsOf(entries) = OpsOf(entries)
      BY FlightParts, ConcatEmptySeq
    <2>. QED
      BY <1>2, <2>1, <2>2
  <1>4. OpsOf(entries)' = OpsOf(Tail(entries))
    BY <1>1 DEF OpsOf
  <1>5. posted \in Seq(Ops)
    BY DEF TypeOK
  <1>6. CASE reader' = "executing"
    <2>1. InFlight' = (<<first>> \o OpsOf(Tail(entries))) \o posted
      BY <1>1, <1>4, <1>6 DEF InFlight
    <2>2. <<first>> \in Seq(Ops)
      BY <1>2
    <2>3. InFlight' = <<first>> \o rest
      BY <1>2, <1>5, <2>1, <2>2, ConcatAssociative
    <2>. QED
      BY <1>2, <1>3, <1>6, <2>3, TailOfConcat
  <1>7. CASE reader' # "executing"
    <2>1. InFlight' = (<<>> \o OpsOf(Tail(entries))) \o posted
      BY <1>1, <1>4, <1>7 DEF InFlight
    <2>2. InFlight' = rest
      BY <1>2, <2>1, ConcatEmptySeq
    <2>. HIDE DEF rest, first
    <2>. QED
      BY <1>2, <1>3, <1>7, <2>2, TailOfConcat
  <1>. QED
    BY <1>6, <1>7

(* The operation leaves when its handler returns or throws. *)
LEMMA ExecutedLeaves ==
    ASSUME TypeOK, HandlerReturns \/ HandlerThrows
    PROVE  InFlight # <<>> /\ InFlight' = Tail(InFlight)
  <1>. DEFINE rest == OpsOf(entries) \o posted
  <1>1. /\ reader = "executing" /\ reader' # "executing"
        /\ entries' = entries /\ posted' = posted
    BY DEF HandlerReturns, HandlerThrows
  <1>2. current \in Entries
    BY <1>1 DEF TypeOK
  <1>3. current.op \in Ops
    BY <1>2 DEF Entries
  <1>4. rest \in Seq(Ops) /\ InFlight = <<current.op>> \o rest
    BY <1>1, FlightParts DEF Executing
  <1>5. InFlight' = (<<>> \o OpsOf(entries)) \o posted
    BY <1>1 DEF InFlight, OpsOf
  <1>6. InFlight' = rest
    BY <1>5, FlightParts, ConcatEmptySeq
  <1>. HIDE DEF rest
  <1>. QED
    BY <1>3, <1>4, <1>6, TailOfConcat

(* The steps of the reader that neither take an entry nor pop a handler.    *)
Idling == DescriptorReady \/ ReaderStarts \/ ReadAgain \/ PostReaderWait \/ PostReaderPost

LEMMA IdlingKeepsFlight ==
    ASSUME Idling \/ UNCHANGED vars
    PROVE  InFlight' = InFlight
  <1>1. CASE Idling
    <2>1. /\ reader # "executing" /\ reader' # "executing"
          /\ entries' = entries /\ posted' = posted
      BY <1>1 DEF Idling, DescriptorReady, ReaderStarts, ReadAgain, PostReaderWait,
                  PostReaderPost
    <2>. QED
      BY <2>1 DEF InFlight, OpsOf
  <1>2. CASE UNCHANGED vars
    BY <1>2 DEF vars, InFlight, OpsOf
  <1>. QED
    BY <1>1, <1>2

LEMMA StepCases ==
    ASSUME [Next]_vars
    PROVE  \/ \E op \in Ops : PostAccepted(op) \/ PostRefused(op)
           \/ \E ok \in BOOLEAN : Complete(ok)
           \/ ReadSuccess \/ ReadError
           \/ HandlerReturns \/ HandlerThrows
           \/ Idling \/ UNCHANGED vars
  BY DEF Next, PostStep, ReaderStep, Idling

-----------------------------------------------------------------------------
(* The invariant. *)

LEMMA Initially == Init => IInv
  <1>. SUFFICES ASSUME Init PROVE IInv
    OBVIOUS
  <1>1. TypeOK
    <2>1. <<>> \in Seq(Ops) /\ <<>> \in Seq(Entries)
      BY EmptySeq
    <2>2. handlers \in Seq(Ops) /\ posted \in Seq(Ops) /\ entries \in Seq(Entries)
      BY <2>1 DEF Init
    <2>3. refused \subseteq Ops /\ current = NoEntry /\ reader = "waiting"
          /\ armed \in BOOLEAN /\ signalled \in BOOLEAN
      BY DEF Init
    <2>. QED
      BY <2>2, <2>3 DEF TypeOK, ReaderStates
  <1>2. OpsOf(entries) = <<>>
    <2>1. entries = <<>> /\ entries \in Seq(Entries)
      BY <1>1 DEF Init, TypeOK
    <2>2. OpsOf(entries) \in Seq(Ops) /\ Len(OpsOf(entries)) = Len(entries)
      BY <2>1, OpsOfType
    <2>. QED
      BY <2>1, <2>2, EmptySeq
  <1>3. InFlight = <<>>
    <2>1. InFlight = (<<>> \o OpsOf(entries)) \o <<>>
      BY DEF Init, InFlight
    <2>. QED
      BY <1>2, <2>1
  <1>4. Covered /\ HandlersFollowPosts
    BY <1>3 DEF Init, Covered, Covers, HandlersFollowPosts
  <1>5. WakesUp
    BY DEF Init, WakesUp
  <1>. QED
    BY <1>1, <1>4, <1>5 DEF IInv

(* That m_read_handler_queue.pop() finds a handler to pop is not a matter   *)
(* of types: it is Covered.                                                *)
LEMMA TypeStep ==
    ASSUME TypeOK, Covered, [Next]_vars
    PROVE  TypeOK'
  <1>1. ASSUME NEW op \in Ops, PostAccepted(op) \/ PostRefused(op)
        PROVE  TypeOK'
    <2>1. handlers \in Seq(Ops) /\ posted \in Seq(Ops)
      BY DEF TypeOK
    <2>2. Append(handlers, op) \in Seq(Ops) /\ Append(posted, op) \in Seq(Ops)
      BY <2>1
    <2>. QED
      BY <1>1, <2>1, <2>2 DEF TypeOK, PostAccepted, PostRefused, AsyncRead
  <1>2. ASSUME NEW ok \in BOOLEAN, Complete(ok)
        PROVE  TypeOK'
    <2>1. posted \in Seq(Ops) /\ posted # <<>> /\ entries \in Seq(Entries)
      BY <1>2 DEF TypeOK, Complete
    <2>2. Head(posted) \in Ops /\ Tail(posted) \in Seq(Ops)
      BY <2>1, HeadTailProperties
    <2>3. [op |-> Head(posted), ok |-> ok] \in Entries
      BY <2>2 DEF Entries
    <2>4. Append(entries, [op |-> Head(posted), ok |-> ok]) \in Seq(Entries)
      BY <2>1, <2>3, AppendProperties
    <2>. QED
      BY <1>2, <2>2, <2>4 DEF TypeOK, Complete
  <1>3. CASE ReadSuccess \/ ReadError
    <2>1. Head(entries) \in Entries /\ Tail(entries) \in Seq(Entries)
      BY <1>3, ReadSplits DEF ReadSuccess, ReadError
    <2>2. Head(entries) # NoEntry
      BY <2>1, QueueAssumption DEF Entries
    <2>3. reader' \in {"executing", "stopped"} /\ current' = Head(entries)
          /\ entries' = Tail(entries)
          /\ UNCHANGED <<handlers, posted, armed, signalled, refused>>
      BY <1>3 DEF ReadSuccess, ReadError
    <2>. QED
      BY <2>1, <2>2, <2>3 DEF TypeOK, ReaderStates
  <1>4. CASE HandlerReturns
    <2>1. handlers \in Seq(Ops) /\ InFlight \in Seq(Ops) /\ InFlight # <<>>
      BY <1>4, FlightParts, ExecutedLeaves DEF TypeOK
    <2>2. handlers # <<>>
      BY <2>1, CoversTail DEF Covered
    <2>3. Tail(handlers) \in Seq(Ops)
      BY <2>1, <2>2, HeadTailProperties
    <2>. QED
      BY <1>4, <2>3 DEF TypeOK, HandlerReturns, ReaderStates
  <1>5. CASE HandlerThrows
    BY <1>5 DEF TypeOK, HandlerThrows, ReaderStates
  <1>6. CASE Idling
    BY <1>6 DEF TypeOK, Idling, DescriptorReady, ReaderStarts, ReadAgain, PostReaderWait,
                PostReaderPost, ReaderStates
  <1>7. CASE UNCHANGED vars
    BY <1>7 DEF TypeOK, vars
  <1>. QED
    BY <1>1, <1>2, <1>3, <1>4, <1>5, <1>6, <1>7, StepCases

LEMMA WakesUpStep ==
    ASSUME TypeOK, WakesUp, [Next]_vars
    PROVE  WakesUp'
  <1>1. ASSUME NEW op \in Ops, PostAccepted(op) \/ PostRefused(op)
        PROVE  WakesUp'
    BY <1>1 DEF WakesUp, PostAccepted, PostRefused
  <1>2. ASSUME NEW ok \in BOOLEAN, Complete(ok)
        PROVE  WakesUp'
    BY <1>2 DEF WakesUp, Complete, TypeOK
  <1>3. CASE ReadSuccess \/ ReadError
    BY <1>3 DEF WakesUp, ReadSuccess, ReadError
  <1>4. CASE HandlerReturns \/ HandlerThrows
    BY <1>4 DEF WakesUp, HandlerReturns, HandlerThrows
  <1>5. CASE Idling
    BY <1>5 DEF WakesUp, Idling, DescriptorReady, ReaderStarts, ReadAgain, PostReaderWait,
                PostReaderPost
  <1>6. CASE UNCHANGED vars
    BY <1>6 DEF WakesUp, vars
  <1>. QED
    BY <1>1, <1>2, <1>3, <1>4, <1>5, <1>6, StepCases

LEMMA CoveredStep ==
    ASSUME TypeOK, Covered, [Next]_vars
    PROVE  Covered'
  <1>. USE DEF Covered
  <1>0. handlers \in Seq(Ops) /\ InFlight \in Seq(Ops) /\ Covers(handlers, InFlight)
    BY FlightParts DEF TypeOK
  <1>1. ASSUME NEW op \in Ops, PostAccepted(op) \/ PostRefused(op)
        PROVE  Covers(handlers', InFlight')
    <2>1. handlers' = Append(handlers, op)
      BY <1>1 DEF PostAccepted, PostRefused, AsyncRead
    <2>2. PostRefused(op) => InFlight' = InFlight
      BY DEF PostRefused, InFlight, OpsOf
    <2>. QED
      BY <1>0, <1>1, <2>1, <2>2, FlightGrows, CoversAppend
  <1>2. ASSUME NEW ok \in BOOLEAN, Complete(ok)
        PROVE  Covers(handlers', InFlight')
    <2>1. handlers' = handlers
      BY <1>2 DEF Complete
    <2>. QED
      BY <1>0, <1>2, <2>1, CompleteKeepsFlight
  <1>3. CASE ReadSuccess \/ ReadError
    <2>1. handlers' = handlers
      BY <1>3 DEF ReadSuccess, ReadError
    <2>. QED
      BY <1>0, <1>3, <2>1, ReadFlight, CoversTail
  <1>4. CASE HandlerReturns \/ HandlerThrows
    <2>1. handlers' = handlers \/ handlers' = Tail(handlers)
      BY <1>4 DEF HandlerReturns, HandlerThrows
    <2>. QED
      BY <1>0, <1>4, <2>1, ExecutedLeaves, CoversTail
  <1>5. CASE Idling \/ UNCHANGED vars
    <2>1. handlers' = handlers
      BY <1>5 DEF Idling, DescriptorReady, ReaderStarts, ReadAgain, PostReaderWait,
                  PostReaderPost, vars
    <2>. QED
      BY <1>0, <1>5, <2>1, IdlingKeepsFlight
  <1>. QED
    BY <1>1, <1>2, <1>3, <1>4, <1>5, StepCases

LEMMA FollowStep ==
    ASSUME TypeOK, HandlersFollowPosts, [Next]_vars
    PROVE  HandlersFollowPosts'
  <1>. SUFFICES ASSUME Healthy'
                PROVE  handlers' = InFlight'
    BY DEF HandlersFollowPosts
  <1>0. Healthy => handlers = InFlight
    BY DEF HandlersFollowPosts
  <1>1. ASSUME NEW op \in Ops, PostAccepted(op)
        PROVE  handlers' = InFlight'
    <2>1. handlers' = Append(handlers, op) /\ Healthy
      BY <1>1 DEF PostAccepted, AsyncRead, Healthy
    <2>. QED
      BY <1>0, <1>1, <2>1, FlightGrows
  <1>2. ASSUME NEW op \in Ops, PostRefused(op)
        PROVE  FALSE
    BY <1>2 DEF PostRefused, Healthy
  <1>3. ASSUME NEW ok \in BOOLEAN, Complete(ok)
        PROVE  handlers' = InFlight'
    <2>1. handlers' = handlers /\ Healthy
      BY <1>3 DEF Complete, Healthy
    <2>. QED
      BY <1>0, <1>3, <2>1, CompleteKeepsFlight
  <1>4. CASE ReadSuccess \/ ReadError
    <2>1. handlers' = handlers /\ Healthy /\ reader' = "executing"
      BY <1>4 DEF ReadSuccess, ReadError, Healthy
    <2>. QED
      BY <1>0, <1>4, <2>1, ReadFlight
  <1>5. CASE HandlerReturns \/ HandlerThrows
    <2>1. handlers' = Tail(handlers) /\ Healthy
      BY <1>5 DEF HandlerReturns, HandlerThrows, Healthy
    <2>. QED
      BY <1>0, <1>5, <2>1, ExecutedLeaves
  <1>6. CASE Idling \/ UNCHANGED vars
    <2>1. handlers' = handlers /\ Healthy
      BY <1>6 DEF Idling, DescriptorReady, ReaderStarts, ReadAgain, PostReaderWait,
                  PostReaderPost, vars, Healthy
    <2>. QED
      BY <1>0, <1>6, <2>1, IdlingKeepsFlight
  <1>. QED
    BY <1>1, <1>2, <1>3, <1>4, <1>5, <1>6, StepCases

(* The inductive invariant. *)
THEOREM Invariance == Spec => []IInv
  <1>1. IInv /\ [Next]_vars => IInv'
    BY TypeStep, WakesUpStep, CoveredStep, FollowStep DEF IInv
  <1>. QED
    BY Initially, <1>1, PTL DEF Spec

-----------------------------------------------------------------------------
(* The state keeps its types; in particular the reader pops handlers only   *)
(* from a queue that has one.                                              *)
THEOREM TypeCorrect == Spec => []TypeOK
  <1>1. IInv => TypeOK
    BY DEF IInv
  <1>. QED
    BY Invariance, <1>1, PTL

(* Whenever the reader waits beside an unread entry its descriptor is       *)
(* readable, whatever the provider does between fi_cq_read and fi_trywait.  *)
THEOREM EntriesAreNoticed == Spec => []NoMissedNotification
  <1>1. IInv => NoMissedNotification
    BY DEF IInv, WakesUp, NoMissedNotification
  <1>. QED
    BY Invariance, <1>1, PTL

(* Until something is refused or thrown, m_read_handler_queue holds the     *)
(* handlers of the operations in flight, in their order.                   *)
THEOREM HandlersInOrder == Spec => []HandlersFollowPosts
  <1>1. IInv => HandlersFollowPosts
    BY DEF IInv
  <1>. QED
    BY Invariance, <1>1, PTL

(* No fi_context is freed while the provider may write to it, refusals,     *)
(* error entries and throwing handlers included.                           *)
THEOREM ContextsKept == Spec => []ContextsOutliveOperations
  <1>1. IInv => ContextsOutliveOperations
    <2>. SUFFICES ASSUME IInv, NEW op \in Ops, Contains(OpsOf(entries) \o posted, op)
                  PROVE  Contains(handlers, op)
      BY DEF ContextsOutliveOperations
    <2>. DEFINE rest == OpsOf(entries) \o posted
    <2>1. /\ Executing \in Seq(Ops) /\ rest \in Seq(Ops) /\ InFlight = Executing \o rest
          /\ handlers \in Seq(Ops) /\ Covers(handlers, InFlight)
      BY FlightParts DEF IInv, TypeOK, Covered
    <2>2. PICK i \in 1 .. Len(rest) : rest[i] = op
      BY DEF Contains
    <2>. HIDE DEF rest
    <2>3. /\ Len(InFlight) = Len(Executing) + Len(rest)
          /\ \A k \in 1 .. Len(Executing) + Len(rest) : InFlight[k] =
                IF k <= Len(Executing) THEN Executing[k] ELSE rest[k - Len(Executing)]
      BY <2>1, ConcatProperties
    <2>4. Len(Executing) \in Nat /\ Len(rest) \in Nat
      BY <2>1
    <2>. DEFINE k == Len(Executing) + i
    <2>5. /\ k \in 1 .. Len(InFlight) /\ ~(k <= Len(Executing)) /\ k - Len(Executing) = i
          /\ k \in Nat \ {0}
      BY <2>3, <2>4
    <2>6. InFlight[k] = op
      BY <2>2, <2>3, <2>5
    <2>. HIDE DEF k
    <2>7. PICK j \in k .. Len(handlers) : handlers[j] = op
      BY <2>1, <2>5, <2>6 DEF Covers
    <2>8. j \in 1 .. Len(handlers)
      BY <2>1, <2>5
    <2>. QED
      BY <2>7, <2>8 DEF Contains
  <1>. QED
    BY Invariance, <1>1, PTL
=============================================================================
