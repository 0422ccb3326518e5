--------------------------- MODULE OutboxTheorems ---------------------------
(***************************************************************************)
(* Proofs about Outbox, for any partitions, event types, fault models and  *)
(* bounds: each step of emitEventP, of Recover and of the environment      *)
(* keeps the inductive invariant, so it always holds; and what follows     *)
(* from it: nothing is lost or reordered, nil means published, and Outbox  *)
(* implements AtLeastOnce up to liveness.                                  *)
(***************************************************************************)
EXTENDS Outbox, SequenceTheorems, TLAPS

-----------------------------------------------------------------------------
(* Sequences and their elements *)

\* The elements of a sequence are its values at 1..Len.
LEMMA InRange ==
  ASSUME NEW S, NEW s \in Seq(S), NEW y
  PROVE  y \in Range(s) <=> \E i \in 1..Len(s) : y = s[i]
<1>1. DOMAIN s = 1..Len(s)
  OBVIOUS
<1> QED
  BY <1>1, Zenon DEF Range

\* Appending adds one element.
LEMMA RangeOfAppend ==
  ASSUME NEW S, NEW s \in Seq(S), NEW x \in S
  PROVE  /\ Append(s, x) \in Seq(S)
         /\ Range(Append(s, x)) = Range(s) \cup {x}
<1> DEFINE t == Append(s, x)
<1>1. /\ t \in Seq(S) /\ Len(s) \in Nat /\ Len(t) = Len(s) + 1
      /\ t[Len(s) + 1] = x /\ \A i \in 1..Len(s) : t[i] = s[i]
  OBVIOUS
<1> HIDE DEF t
<1>2. ASSUME NEW y PROVE y \in Range(t) <=> y \in Range(s) \cup {x}
  <2>1. y \in Range(t) <=> \E i \in 1..Len(t) : y = t[i]
    BY <1>1, InRange
  <2>2. y \in Range(s) <=> \E i \in 1..Len(s) : y = s[i]
    BY InRange
  <2> QED
    BY <1>1, <2>1, <2>2
<1> QED
  BY <1>1, <1>2, Zenon DEF t

\* The first element, and those of the rest.
LEMMA RangeOfTail ==
  ASSUME NEW S, NEW s \in Seq(S), s # <<>>
  PROVE  /\ Head(s) \in S
         /\ Tail(s) \in Seq(S)
         /\ Head(s) \in Range(s)
         /\ Range(Tail(s)) \subseteq Range(s)
         /\ \A x \in Range(s) : x = Head(s) \/ x \in Range(Tail(s))
<1> DEFINE t == Tail(s)
<1>1. /\ Head(s) = s[1] /\ Head(s) \in S /\ t \in Seq(S)
      /\ Len(s) \in Nat \ {0} /\ Len(t) = Len(s) - 1
      /\ \A i \in 1..Len(t) : t[i] = s[i + 1]
  OBVIOUS
<1> HIDE DEF t
<1>2. \A y : /\ y \in Range(t) <=> \E i \in 1..Len(t) : y = t[i]
             /\ y \in Range(s) <=> \E i \in 1..Len(s) : y = s[i]
  BY <1>1, InRange
<1>3. Head(s) \in Range(s)
  BY <1>1, <1>2
<1>4. Range(t) \subseteq Range(s)
  BY <1>1, <1>2
<1>5. ASSUME NEW x \in Range(s), x # Head(s) PROVE x \in Range(t)
  <2>1. PICK i \in 1..Len(s) : x = s[i]
    BY <1>2
  <2>2. i - 1 \in 1..Len(t) /\ t[i - 1] = x
    BY <1>1, <1>5, <2>1
  <2> QED
    BY <1>2, <2>2
<1> QED
  BY <1>1, <1>3, <1>4, <1>5, Zenon DEF t

\* The empty and the one-element sequence.
LEMMA RangeOfSmall ==
  /\ Range(<<>>) = {}
  /\ \A x : Range(<<x>>) = {x}
  BY DEF Range

\* The envelope is on the stream and, where it goes there, on the channel.
Accepted(x) ==
    /\ x \in Range(stream)
    /\ IsBroadcast(x) => x \in published

\* The types, those of the history variables included.
WellTyped ==
    /\ TypeOK
    /\ emitted \in [Partitions -> 0..MaxEmits]
    /\ partitionSeq \in [Partitions -> Nat]
    /\ \A p \in Partitions : partitionSeq[p] <= emitted[p]
    /\ journaled \subseteq Envelope
    /\ succeeded \subseteq Envelope
    /\ pushed \in BOOLEAN

\* What a worker may rely on between its calls: it holds emitMu from the
\* journal on, and has done what its place in emitEventP says.
Emitting ==
    \A p \in Partitions :
        /\ pc[p] \in {"journaled", "streamed", "accepted"} <=> emitMu = p
        /\ pc[p] # "idle" =>
             /\ engine = "running"
             /\ cur[p] \in Envelope
             /\ cur[p].partition = p
             /\ cur[p].n = emitted[p]
        /\ pc[p] = "streamed" => IsBroadcast(cur[p])
        /\ pc[p] \in {"streamed", "accepted"} => cur[p] \in Range(stream)
        /\ pc[p] = "accepted" => Accepted(cur[p])

\* What Recover may rely on: a line it is done with has been accepted.
Recovering ==
    /\ engine # "recovering" => todo = <<>> /\ ~pushed
    /\ engine = "recovering" =>
         /\ Range(todo) \subseteq Range(journal)
         /\ \A x \in Envelopes(journal) : x \in Range(todo) \/ Accepted(x)
    /\ pushed => /\ todo # <<>>
                 /\ Head(todo) \in Range(stream)
                 /\ Head(todo) \in Envelope
                 /\ IsBroadcast(Head(todo))

\* An envelope that has just been stamped is new.
Fresh ==
    \A x \in Envelopes(journal) \cup Range(stream) :
        /\ x.n <= emitted[x.partition]
        /\ pc[x.partition] = "stamped" => x.n < emitted[x.partition]

\* Without failing calls the journal never holds more than the emission in
\* progress, or the one a crash has interrupted.
OneLine ==
    Reliable =>
        /\ \/ journal = <<>>
           \/ \E x \in Envelope : journal = <<x>> /\ x.n = emitted[x.partition]
        /\ engine = "running" =>
             journal = IF emitMu = NoOne THEN <<>> ELSE <<cur[emitMu]>>

\* The inductive invariant.
IInv ==
    /\ WellTyped
    /\ Emitting
    /\ Recovering
    /\ Fresh
    /\ OneLine
    /\ NilMeansPublished
    /\ NothingLost
    /\ FirstDeliveriesInOrder

-----------------------------------------------------------------------------
(* The journal and the stream *)

\* What a line does to the journal, whatever the journal ends with.
LEMMA AppendLineProperty ==
  ASSUME NEW s \in Seq(Line), NEW x \in Line
  PROVE  /\ AppendLine(s, x) \in Seq(Line)
         /\ Envelopes(AppendLine(s, x)) \subseteq Envelopes(s) \cup {x}
         /\ s = <<>> => AppendLine(s, x) = <<x>>
<1>1. CASE s # <<>> /\ s[Len(s)] = Fragment
  <2> DEFINE t == [s EXCEPT ![Len(s)] = Corrupt]
  <2>1. /\ t \in Seq(Line) /\ Len(t) = Len(s)
        /\ \A i \in 1..Len(s) : t[i] = Corrupt \/ t[i] = s[i]
    <3>1. /\ Len(s) \in Nat /\ s \in [1..Len(s) -> Line]
      OBVIOUS
    <3>2. t \in [1..Len(s) -> Line]
      BY <3>1, Zenon DEF Line
    <3>3. \A i \in 1..Len(s) : t[i] = Corrupt \/ t[i] = s[i]
      BY <3>1, Zenon
    <3> HIDE DEF t
    <3> QED
      BY <3>1, <3>2, <3>3
  <2> HIDE DEF t
  <2>2. ASSUME NEW y \in Range(t) PROVE y = Corrupt \/ y \in Range(s)
    <3>1. PICK i \in 1..Len(t) : y = t[i]
      BY <2>1, InRange
    <3>2. CASE t[i] = s[i]
      BY <2>1, <3>1, <3>2, InRange, Zenon
    <3> QED
      BY <2>1, <3>1, <3>2, Zenon
  <2>3. AppendLine(s, x) = t
    BY <1>1, Zenon DEF AppendLine, t
  <2>4. Envelopes(t) \subseteq Envelopes(s)
    BY <2>2, Zenon DEF Envelopes
  <2> QED
    BY <1>1, <2>1, <2>3, <2>4, Zenon
<1>2. CASE ~(s # <<>> /\ s[Len(s)] = Fragment)
  <2>1. AppendLine(s, x) = Append(s, x)
    BY <1>2, Zenon DEF AppendLine
  <2>2. Append(s, x) \in Seq(Line) /\ Range(Append(s, x)) = Range(s) \cup {x}
    BY RangeOfAppend
  <2>3. s = <<>> => Append(s, x) = <<x>>
    OBVIOUS
  <2> QED
    BY <2>1, <2>2, <2>3, Zenon DEF Envelopes
<1> QED
  BY <1>1, <1>2, Zenon

\* What is read back from the journal and the stream are envelopes.
LEMMA ElementsTyped ==
  ASSUME WellTyped
  PROVE  /\ Envelopes(journal) \subseteq Envelope
         /\ Range(stream) \subseteq Envelope
         /\ Range(todo) \subseteq Line
<1>1. ASSUME NEW S, NEW s \in Seq(S) PROVE Range(s) \subseteq S
  <2> SUFFICES ASSUME NEW y \in Range(s) PROVE y \in S
    BY Zenon
  <2>1. PICK i \in 1..Len(s) : y = s[i]
    BY InRange, Zenon
  <2> QED
    BY <2>1
<1>2. Range(journal) \subseteq Line /\ Range(todo) \subseteq Line
  BY <1>1, Zenon DEF WellTyped, TypeOK
<1>3. Range(stream) \subseteq Envelope
  BY <1>1, Zenon DEF WellTyped, TypeOK
<1> QED
  BY <1>2, <1>3, Zenon DEF Envelopes, Line

-----------------------------------------------------------------------------
(* emitEventP *)

\* Taking the next sequence number (emitEventP before emitMu).
LEMMA StampKeeps ==
  ASSUME IInv, NEW p \in Partitions, StampEnvelope(p)
  PROVE  IInv'
<1>1. /\ engine = "running" /\ pc[p] = "idle" /\ emitted[p] < MaxEmits
      /\ emitted' = [emitted EXCEPT ![p] = @ + 1]
      /\ partitionSeq' = [partitionSeq EXCEPT ![p] = @ + 1]
      /\ pc' = [pc EXCEPT ![p] = "stamped"]
      /\ UNCHANGED <<engine, journal, stream, published, emitMu, todo, pushed,
                     journaled, succeeded, faultModel, faults>>
  BY Zenon DEF StampEnvelope, redis, recovery, faultVars
<1>2. /\ WellTyped /\ TypeOK /\ Emitting /\ Recovering /\ Fresh /\ OneLine
      /\ emitted \in [Partitions -> 0..MaxEmits]
      /\ partitionSeq \in [Partitions -> Nat]
      /\ partitionSeq[p] <= emitted[p]
  BY Zenon DEF IInv, WellTyped
<1>3. /\ emitted'[p] = emitted[p] + 1 /\ emitted'[p] \in 1..MaxEmits
      /\ partitionSeq'[p] = partitionSeq[p] + 1 /\ partitionSeq'[p] \in 1..MaxEmits
      /\ emitted' \in [Partitions -> 0..MaxEmits]
      /\ partitionSeq' \in [Partitions -> Nat]
  BY <1>1, <1>2, OutboxAssumption
<1>4. PICK x \in Envelope : /\ x.partition = p /\ x.n = emitted'[p]
                            /\ cur' = [cur EXCEPT ![p] = x]
  <2>1. PICK type \in Types :
          cur' = [cur EXCEPT ![p] = [partition |-> p, n |-> emitted'[p],
                                     sequence |-> partitionSeq'[p],
                                     type |-> type]]
    BY Zenon DEF StampEnvelope
  <2>2. [partition |-> p, n |-> emitted'[p], sequence |-> partitionSeq'[p],
         type |-> type] \in Envelope
    BY <1>3, Zenon DEF Envelope
  <2> QED
    BY <2>1, <2>2, Zenon
<1>5. WellTyped'
  <2>1. TypeOK'
    BY <1>1, <1>2, <1>4, Zenon DEF TypeOK
  <2>2. \A q \in Partitions : partitionSeq'[q] <= emitted'[q]
    BY <1>1, <1>2, <1>3 DEF WellTyped
  <2> QED
    BY <1>1, <1>2, <1>3, <2>1, <2>2, Zenon DEF WellTyped
<1>6. Emitting'
  BY <1>1, <1>2, <1>4 DEF WellTyped, TypeOK, Emitting, Accepted, IsBroadcast
<1>7. Recovering'
  BY <1>1, <1>2, Zenon DEF Recovering, Accepted, Envelopes
<1>8. Fresh'
  <2> SUFFICES ASSUME NEW y \in Envelopes(journal) \cup Range(stream)
               PROVE  /\ y.n <= emitted'[y.partition]
                      /\ pc'[y.partition] = "stamped" => y.n < emitted'[y.partition]
    BY <1>1, Zenon DEF Fresh
  <2>1. y \in Envelope
    BY <1>2, ElementsTyped, Zenon
  <2>2. y.partition \in Partitions /\ y.n \in Nat
    BY <2>1 DEF Envelope
  <2>3. /\ y.n <= emitted[y.partition]
        /\ pc[y.partition] = "stamped" => y.n < emitted[y.partition]
    BY <1>2, Zenon DEF Fresh
  <2> QED
    BY <1>1, <1>2, <1>3, <2>2, <2>3 DEF TypeOK
<1>9. OneLine'
  <2> SUFFICES ASSUME Reliable PROVE OneLine'
    BY <1>1, Zenon DEF OneLine, Reliable
  <2>1. CASE emitMu = NoOne
    BY <1>1, <1>2, <2>1, Zenon DEF OneLine
  <2>2. CASE emitMu # NoOne
    <3>1. emitMu \in Partitions /\ emitMu # p
      BY <1>1, <1>2, <2>2, Zenon DEF TypeOK, Emitting
    <3>2. cur[emitMu] \in Envelope /\ cur[emitMu].partition = emitMu
          /\ cur[emitMu].n = emitted[emitMu]
      BY <1>2, <3>1, Zenon DEF Emitting
    <3>3. cur'[emitMu] = cur[emitMu] /\ emitted'[emitMu] = emitted[emitMu]
      BY <1>1, <1>2, <1>4, <3>1, Zenon DEF TypeOK
    <3> QED
      BY <1>1, <1>2, <2>2, <3>2, <3>3, Zenon DEF OneLine
  <2> QED
    BY <2>1, <2>2, Zenon
<1>10. NilMeansPublished'
  BY <1>1, Zenon DEF IInv, NilMeansPublished
<1>11. NothingLost'
  BY <1>1, Zenon DEF IInv, NothingLost, Recoverable, Envelopes, Reliable
<1>12. FirstDeliveriesInOrder'
  BY <1>1, Zenon DEF IInv, FirstDeliveriesInOrder, Reliable
<1> QED
  BY <1>5, <1>6, <1>7, <1>8, <1>9, <1>10, <1>11, <1>12, Zenon DEF IInv

\* With failing calls, the statements about reliable behaviours are void.
LEMMA FaultUnreliable ==
  ASSUME Fault("file") \/ Fault("redis")
  PROVE  /\ OneLine' /\ NothingLost' /\ FirstDeliveriesInOrder'
         /\ faultModel' = faultModel
<1>1. ~Reliable /\ faultModel' = faultModel
  BY Zenon DEF Fault, Reliable
<1>2. ~Reliable'
  BY <1>1, Zenon DEF Reliable
<1> QED
  BY <1>1, <1>2, Zenon DEF OneLine, NothingLost, FirstDeliveriesInOrder

\* A write to the journal, which may have left the line, a fragment or
\* nothing, keeps envelopes fresh if it is no longer taken for a new one.
LEMMA JournalWrite ==
  ASSUME IInv, NEW p \in Partitions, pc[p] = "stamped",
         NEW next \in {"idle", "journaled"}, pc' = [pc EXCEPT ![p] = next],
         journal' \in {journal, AppendLine(journal, Fragment),
                       AppendLine(journal, cur[p])},
         UNCHANGED <<emitted, stream>>
  PROVE  journal' \in Seq(Line) /\ Fresh'
<1>1. /\ journal \in Seq(Line) /\ cur[p] \in Envelope
      /\ cur[p].partition = p /\ cur[p].n = emitted[p]
      /\ emitted \in [Partitions -> 0..MaxEmits]
      /\ pc \in [Partitions ->
                   {"idle", "stamped", "journaled", "streamed", "accepted"}]
  BY Zenon DEF IInv, WellTyped, TypeOK, Emitting
<1>2. /\ journal' \in Seq(Line)
      /\ Envelopes(journal') \subseteq Envelopes(journal) \cup {cur[p]}
  <2>1. cur[p] \in Line /\ Fragment \in Line
    BY <1>1, Zenon DEF Line
  <2>2. Fragment \notin Envelopes(AppendLine(journal, Fragment))
    BY Zenon DEF Envelopes
  <2>3. \A x \in Line :
          /\ AppendLine(journal, x) \in Seq(Line)
          /\ Envelopes(AppendLine(journal, x)) \subseteq Envelopes(journal) \cup {x}
    BY <1>1, AppendLineProperty, Zenon
  <2> HIDE DEF Line
  <2> QED
    BY <1>1, <2>1, <2>2, <2>3, SMTT(30)
<1>3. SUFFICES ASSUME NEW y \in Envelopes(journal') \cup Range(stream)
      PROVE  /\ y.n <= emitted[y.partition]
             /\ pc'[y.partition] = "stamped" => y.n < emitted[y.partition]
  BY <1>2, Zenon DEF Fresh
<1>4. CASE y = cur[p]
  BY <1>1, <1>4
<1>5. CASE y # cur[p]
  <2>1. y \in Envelopes(journal) \cup Range(stream)
    BY <1>2, <1>5, Zenon
  <2>2. y \in Envelope
    BY <2>1, ElementsTyped, Zenon DEF IInv
  <2>3. y.partition \in Partitions
    BY <2>2, Zenon DEF Envelope
  <2>4. /\ y.n <= emitted[y.partition]
        /\ pc[y.partition] = "stamped" => y.n < emitted[y.partition]
    BY <2>1, Zenon DEF IInv, Fresh
  <2> QED
    BY <1>1, <2>3, <2>4, Zenon
<1> QED
  BY <1>4, <1>5, Zenon

\* Journaling the envelope: the worker now holds emitMu.
LEMMA AppendKeeps ==
  ASSUME IInv, NEW p \in Partitions, AppendEnvelope(p)
  PROVE  IInv'
<1>1. /\ emitMu = NoOne /\ pc[p] = "stamped"
      /\ emitMu' = p
      /\ journal' = AppendLine(journal, cur[p])
      /\ journaled' = journaled \cup {cur[p]}
      /\ pc' = [pc EXCEPT ![p] = "journaled"]
      /\ UNCHANGED <<engine, stream, published, cur, partitionSeq, todo, pushed,
                     emitted, succeeded, faultModel, faults>>
  BY Zenon DEF AppendEnvelope, AppendEnvelope_unlocked, redis, recovery, faultVars
<1>2. /\ WellTyped /\ TypeOK /\ Emitting /\ Recovering /\ Fresh /\ OneLine
      /\ engine = "running"
      /\ cur[p] \in Envelope /\ cur[p].partition = p /\ cur[p].n = emitted[p]
  BY <1>1, Zenon DEF IInv, WellTyped, Emitting
<1>3. journal' \in Seq(Line) /\ Fresh'
  BY <1>1, JournalWrite, Zenon
<1>4. WellTyped'
  <2>1. TypeOK'
    BY <1>1, <1>2, <1>3, Zenon DEF TypeOK
  <2> QED
    BY <1>1, <1>2, <2>1, Zenon DEF WellTyped
<1>5. Emitting'
  BY <1>1, <1>2, OutboxAssumption DEF TypeOK, Emitting, Accepted, IsBroadcast
<1>6. Recovering'
  BY <1>1, <1>2, Zenon DEF Recovering
<1>7. Reliable => journal' = <<cur[p]>>
  <2>1. Reliable => journal = <<>>
    BY <1>1, <1>2, Zenon DEF OneLine
  <2>2. journal \in Seq(Line) /\ cur[p] \in Line
    BY <1>2, Zenon DEF TypeOK, Line
  <2> QED
    BY <1>1, <2>1, <2>2, AppendLineProperty, Zenon
<1>8. OneLine'
  <2>1. emitMu' # NoOne /\ Reliable' = Reliable
    BY <1>1, OutboxAssumption, Zenon DEF Reliable
  <2> QED
    BY <1>1, <1>2, <1>7, <2>1, Zenon DEF OneLine
<1>9. NilMeansPublished'
  BY <1>1, Zenon DEF IInv, NilMeansPublished
<1>10. NothingLost'
  <2> SUFFICES ASSUME Reliable PROVE Recoverable'
    BY <1>1, Zenon DEF NothingLost, Reliable
  <2>1. journal = <<>> /\ Envelopes(journal) = {}
    BY <1>1, <1>2, RangeOfSmall, Zenon DEF OneLine, Envelopes
  <2>2. cur[p] \in Envelopes(journal')
    BY <1>2, <1>7, RangeOfSmall, OutboxAssumption DEF Envelopes
  <2>3. journaled \subseteq Range(stream)
    BY <2>1, Zenon DEF IInv, NothingLost, Recoverable
  <2> QED
    BY <1>1, <2>2, <2>3, Zenon DEF Recoverable
<1>11. FirstDeliveriesInOrder'
  BY <1>1, Zenon DEF IInv, FirstDeliveriesInOrder, Reliable
<1> QED
  BY <1>3, <1>4, <1>5, <1>6, <1>8, <1>9, <1>10, <1>11, Zenon DEF IInv

\* A failed write or sync of the journal.
LEMMA AppendFailsKeeps ==
  ASSUME IInv, NEW p \in Partitions, AppendFails(p)
  PROVE  IInv'
<1>1. /\ emitMu = NoOne /\ pc[p] = "stamped"
      /\ journal' \in {journal, AppendLine(journal, Fragment),
                       AppendLine(journal, cur[p])}
      /\ emitMu' = NoOne /\ pc' = [pc EXCEPT ![p] = "idle"]
      /\ UNCHANGED <<engine, stream, published, cur, partitionSeq, todo, pushed,
                     emitted, journaled, succeeded>>
  BY Zenon DEF AppendFails, ReturnError, redis, recovery
<1>2. WellTyped /\ TypeOK /\ Emitting /\ Recovering /\ engine = "running"
  BY <1>1, Zenon DEF IInv, WellTyped, Emitting
<1>3. journal' \in Seq(Line) /\ Fresh'
  BY <1>1, JournalWrite, Zenon
<1>4. WellTyped'
  <2>1. TypeOK'
    BY <1>1, <1>2, <1>3, Zenon DEF TypeOK
  <2> QED
    BY <1>1, <1>2, <2>1, Zenon DEF WellTyped
<1>5. Emitting'
  BY <1>1, <1>2, OutboxAssumption DEF TypeOK, Emitting, Accepted, IsBroadcast
<1>6. Recovering'
  BY <1>1, <1>2, Zenon DEF Recovering
<1>7. NilMeansPublished'
  BY <1>1, Zenon DEF IInv, NilMeansPublished
<1>8. OneLine' /\ NothingLost' /\ FirstDeliveriesInOrder'
  BY FaultUnreliable, Zenon DEF AppendFails
<1> QED
  BY <1>3, <1>4, <1>5, <1>6, <1>7, <1>8, Zenon DEF IInv

\* Envelopes stay fresh as long as no other is stamped or written.
LEMMA FreshKept ==
  ASSUME IInv, UNCHANGED emitted,
         Envelopes(journal') \subseteq Envelopes(journal), stream' = stream,
         \A q \in Partitions : pc'[q] = "stamped" => pc[q] = "stamped"
  PROVE  Fresh'
<1> SUFFICES ASSUME NEW y \in Envelopes(journal) \cup Range(stream)
             PROVE  /\ y.n <= emitted[y.partition]
                    /\ pc'[y.partition] = "stamped" => y.n < emitted[y.partition]
  BY Zenon DEF Fresh, Envelopes
<1>1. y \in Envelope
  BY ElementsTyped, Zenon DEF IInv
<1>2. y.partition \in Partitions
  BY <1>1, Zenon DEF Envelope
<1> QED
  BY <1>2, Zenon DEF IInv, Fresh

\* An envelope whose number no envelope of its partition exceeds goes to the
\* end of the stream in order.
LEMMA InOrderAppend ==
  ASSUME NEW s \in Seq(Envelope), NEW x \in Envelope, InOrder(s),
         \A y \in Range(s) : y.partition = x.partition => y.n <= x.n
  PROVE  InOrder(Append(s, x))
<1> DEFINE t == Append(s, x)
<1>1. /\ t \in Seq(Envelope) /\ Len(s) \in Nat /\ Len(t) = Len(s) + 1
      /\ t[Len(s) + 1] = x /\ \A i \in 1..Len(s) : t[i] = s[i]
      /\ DOMAIN t = 1..Len(t) /\ DOMAIN s = 1..Len(s)
  OBVIOUS
<1> HIDE DEF t
<1>2. SUFFICES ASSUME NEW i \in 1..Len(t), NEW j \in 1..Len(t),
                      t[i].partition = t[j].partition, t[i].n < t[j].n, j < i
               PROVE  \E k \in 1..(j - 1) : t[k] = t[i]
  BY <1>1, Zenon DEF InOrder, t
<1>3. j \in 1..Len(s) /\ t[j] = s[j]
  BY <1>1, <1>2
<1>4. i # Len(s) + 1
  <2> SUFFICES ASSUME i = Len(s) + 1 PROVE FALSE
    BY Zenon
  <2>1. s[j] \in Range(s) /\ s[j] \in Envelope
    BY <1>3, InRange
  <2>2. s[j].n \in Nat /\ x.n \in Nat
    BY <2>1 DEF Envelope
  <2> QED
    BY <1>1, <1>2, <1>3, <2>1, <2>2
<1>5. i \in 1..Len(s) /\ t[i] = s[i]
  BY <1>1, <1>4
<1>6. PICK k \in 1..(j - 1) : s[k] = s[i]
  BY <1>1, <1>2, <1>3, <1>5, Zenon DEF InOrder
<1> QED
  BY <1>1, <1>3, <1>5, <1>6

\* What an append to the stream does, whether emitEventP or Recover makes it.
LEMMA StreamWrite ==
  ASSUME IInv, NEW x \in Envelope, stream' = Append(stream, x),
         x.n <= emitted[x.partition], Reliable => x.n = emitted[x.partition],
         pc'[x.partition] = "stamped" => x.n < emitted[x.partition],
         UNCHANGED <<journal, emitted>>,
         \A q \in Partitions : pc'[q] = "stamped" => pc[q] = "stamped"
  PROVE  /\ stream' \in Seq(Envelope)
         /\ Range(stream') = Range(stream) \cup {x}
         /\ Fresh'
         /\ Reliable => InOrder(stream')
<1>1. /\ stream \in Seq(Envelope) /\ x \in Envelope /\ Range(stream) \subseteq Envelope
      /\ Envelopes(journal) \subseteq Envelope
  BY ElementsTyped, Zenon DEF IInv, WellTyped, TypeOK
<1>2. stream' \in Seq(Envelope) /\ Range(stream') = Range(stream) \cup {x}
  BY <1>1, RangeOfAppend
<1>3. Fresh'
  <2> SUFFICES ASSUME NEW y \in Envelopes(journal) \cup Range(stream)
               PROVE  /\ y.n <= emitted[y.partition]
                      /\ pc'[y.partition] = "stamped" => y.n < emitted[y.partition]
    BY <1>2, Zenon DEF Fresh, Envelopes
  <2>1. y \in Envelope
    BY <1>1, Zenon
  <2>2. y.partition \in Partitions
    BY <2>1, Zenon DEF Envelope
  <2> QED
    BY <2>2, Zenon DEF IInv, Fresh
<1>4. ASSUME Reliable PROVE InOrder(stream')
  <2>1. \A y \in Range(stream) : y.partition = x.partition => y.n <= x.n
    BY <1>4, Zenon DEF IInv, Fresh
  <2> QED
    BY <1>1, <1>4, <2>1, InOrderAppend, Zenon DEF IInv, FirstDeliveriesInOrder
<1> QED
  BY <1>2, <1>3, <1>4, Zenon

\* The XADD of the envelope to events:out.
LEMMA XAddKeeps ==
  ASSUME IInv, NEW p \in Partitions, XAddEvent(p)
  PROVE  IInv'
<1> DEFINE next == IF IsBroadcast(cur[p]) THEN "streamed" ELSE "accepted"
<1>1. /\ pc[p] = "journaled"
      /\ stream' = Append(stream, cur[p])
      /\ pc' = [pc EXCEPT ![p] = next]
      /\ UNCHANGED <<engine, journal, published, emitMu, cur, partitionSeq, todo,
                     pushed, emitted, journaled, succeeded, faultModel, faults>>
  BY Zenon DEF XAddEvent, XAddEventTo, recovery, history, faultVars
<1>2. /\ WellTyped /\ TypeOK /\ Emitting /\ Recovering /\ OneLine
      /\ engine = "running" /\ emitMu = p
      /\ cur[p] \in Envelope /\ cur[p].partition = p /\ cur[p].n = emitted[p]
      /\ emitted[p] <= emitted[p]
  BY <1>1 DEF IInv, WellTyped, Emitting
<1>3. /\ stream' \in Seq(Envelope)
      /\ Range(stream') = Range(stream) \cup {cur[p]}
      /\ Fresh'
      /\ Reliable => InOrder(stream')
  <2>1. \A q \in Partitions : pc'[q] = "stamped" => pc[q] = "stamped" /\ q # p
    BY <1>1, <1>2, Zenon DEF TypeOK
  <2> QED
    BY <1>1, <1>2, <2>1, StreamWrite, Zenon
<1>4. WellTyped'
  <2>1. TypeOK'
    BY <1>1, <1>2, <1>3, Zenon DEF TypeOK
  <2> QED
    BY <1>1, <1>2, <2>1, Zenon DEF WellTyped
<1>5. Emitting'
  BY <1>1, <1>2, <1>3, OutboxAssumption DEF TypeOK, Emitting, Accepted, IsBroadcast
<1>6. Recovering'
  BY <1>1, <1>2, Zenon DEF Recovering
<1>7. OneLine'
  BY <1>1, <1>2, Zenon DEF OneLine, Reliable
<1>8. NilMeansPublished'
  BY <1>1, <1>3, Zenon DEF IInv, NilMeansPublished
<1>9. NothingLost'
  BY <1>1, <1>3, Zenon DEF IInv, NothingLost, Recoverable, Reliable
<1>10. FirstDeliveriesInOrder'
  BY <1>1, <1>3, Zenon DEF FirstDeliveriesInOrder, Reliable
<1> QED
  BY <1>3, <1>4, <1>5, <1>6, <1>7, <1>8, <1>9, <1>10, Zenon DEF IInv

\* An XADD that returned an error, executed or not.
LEMMA XAddFailsKeeps ==
  ASSUME IInv, NEW p \in Partitions, XAddFails(p)
  PROVE  IInv'
<1>1. /\ pc[p] = "journaled"
      /\ stream' = stream \/ stream' = Append(stream, cur[p])
      /\ emitMu' = NoOne /\ pc' = [pc EXCEPT ![p] = "idle"]
      /\ UNCHANGED <<engine, journal, published, cur, partitionSeq, todo, pushed,
                     emitted, journaled, succeeded>>
  BY Zenon DEF XAddFails, ReturnError, recovery
<1>2. /\ WellTyped /\ TypeOK /\ Emitting /\ Recovering /\ Fresh
      /\ engine = "running" /\ emitMu = p
      /\ cur[p] \in Envelope /\ cur[p].partition = p /\ cur[p].n = emitted[p]
      /\ emitted[p] <= emitted[p]
  BY <1>1 DEF IInv, WellTyped, Emitting
<1>3. \A q \in Partitions : pc'[q] = "stamped" => pc[q] = "stamped" /\ q # p
  BY <1>1, <1>2, Zenon DEF TypeOK
<1>4. /\ stream' \in Seq(Envelope)
      /\ Range(stream) \subseteq Range(stream')
      /\ Fresh'
  <2>1. CASE stream' = stream
    BY <1>1, <1>2, <1>3, <2>1, FreshKept, Zenon DEF TypeOK
  <2>2. CASE stream' = Append(stream, cur[p])
    BY <1>1, <1>2, <1>3, <2>2, StreamWrite, Zenon
  <2> QED
    BY <1>1, <2>1, <2>2, Zenon
<1>5. WellTyped'
  <2>1. TypeOK'
    BY <1>1, <1>2, <1>4, Zenon DEF TypeOK
  <2> QED
    BY <1>1, <1>2, <2>1, Zenon DEF WellTyped
<1>6. Emitting'
  BY <1>1, <1>2, <1>4, OutboxAssumption DEF TypeOK, Emitting, Accepted, IsBroadcast
<1>7. Recovering'
  BY <1>1, <1>2, Zenon DEF Recovering
<1>8. NilMeansPublished'
  BY <1>1, <1>4, Zenon DEF IInv, NilMeansPublished
<1>9. OneLine' /\ NothingLost' /\ FirstDeliveriesInOrder'
  BY FaultUnreliable, Zenon DEF XAddFails
<1> QED
  BY <1>4, <1>5, <1>6, <1>7, <1>8, <1>9, Zenon DEF IInv

\* The PUBLISH of a trade to the WebSocket channel.
LEMMA PublishKeeps ==
  ASSUME IInv, NEW p \in Partitions, PublishTrade(p)
  PROVE  IInv'
<1>1. /\ pc[p] = "streamed"
      /\ published' = published \cup {cur[p]}
      /\ pc' = [pc EXCEPT ![p] = "accepted"]
      /\ UNCHANGED <<engine, journal, stream, emitMu, cur, partitionSeq, todo,
                     pushed, emitted, journaled, succeeded, faultModel, faults>>
  BY Zenon DEF PublishTrade, recovery, history, faultVars
<1>2. /\ WellTyped /\ TypeOK /\ Emitting /\ Recovering /\ OneLine
      /\ engine = "running" /\ emitMu = p
      /\ cur[p] \in Envelope /\ cur[p] \in Range(stream) /\ IsBroadcast(cur[p])
  BY <1>1, Zenon DEF IInv, WellTyped, Emitting
<1>3. Fresh'
  <2>1. \A q \in Partitions : pc'[q] = "stamped" => pc[q] = "stamped"
    BY <1>1, <1>2, Zenon DEF TypeOK
  <2> QED
    BY <1>1, <2>1, FreshKept, Zenon
<1>4. WellTyped'
  <2>1. TypeOK'
    BY <1>1, <1>2, Zenon DEF TypeOK, IsBroadcast
  <2> QED
    BY <1>1, <1>2, <2>1, Zenon DEF WellTyped
<1>5. Emitting'
  BY <1>1, <1>2, OutboxAssumption DEF TypeOK, Emitting, Accepted, IsBroadcast
<1>6. Recovering'
  BY <1>1, <1>2, Zenon DEF Recovering
<1>7. OneLine'
  BY <1>1, <1>2, Zenon DEF OneLine, Reliable
<1>8. NilMeansPublished'
  BY <1>1, Zenon DEF IInv, NilMeansPublished
<1>9. NothingLost' /\ FirstDeliveriesInOrder'
  BY <1>1, Zenon DEF IInv, NothingLost, Recoverable, FirstDeliveriesInOrder, Reliable
<1> QED
  BY <1>3, <1>4, <1>5, <1>6, <1>7, <1>8, <1>9, Zenon DEF IInv

\* A PUBLISH that returned an error, executed or not.
LEMMA PublishFailsKeeps ==
  ASSUME IInv, NEW p \in Partitions, PublishFails(p)
  PROVE  IInv'
<1>1. /\ pc[p] = "streamed"
      /\ published' = published \/ published' = published \cup {cur[p]}
      /\ emitMu' = NoOne /\ pc' = [pc EXCEPT ![p] = "idle"]
      /\ UNCHANGED <<engine, journal, stream, cur, partitionSeq, todo, pushed,
                     emitted, journaled, succeeded>>
  BY Zenon DEF PublishFails, ReturnError, recovery
<1>2. /\ WellTyped /\ TypeOK /\ Emitting /\ Recovering
      /\ engine = "running" /\ emitMu = p
      /\ cur[p] \in Envelope /\ IsBroadcast(cur[p])
  BY <1>1, Zenon DEF IInv, WellTyped, Emitting
<1>3. Fresh'
  <2>1. \A q \in Partitions : pc'[q] = "stamped" => pc[q] = "stamped"
    BY <1>1, <1>2, Zenon DEF TypeOK
  <2> QED
    BY <1>1, <2>1, FreshKept, Zenon
<1>4. WellTyped'
  <2>1. TypeOK'
    BY <1>1, <1>2, Zenon DEF TypeOK, IsBroadcast
  <2> QED
    BY <1>1, <1>2, <2>1, Zenon DEF WellTyped
<1>5. Emitting'
  BY <1>1, <1>2, OutboxAssumption DEF TypeOK, Emitting, Accepted, IsBroadcast
<1>6. Recovering'
  BY <1>1, <1>2, Zenon DEF Recovering
<1>7. NilMeansPublished'
  BY <1>1, Zenon DEF IInv, NilMeansPublished
<1>8. OneLine' /\ NothingLost' /\ FirstDeliveriesInOrder'
  BY FaultUnreliable, Zenon DEF PublishFails
<1> QED
  BY <1>3, <1>4, <1>5, <1>6, <1>7, <1>8, Zenon DEF IInv

\* Reset truncates the journal, or fails to, and emitEventP returns nil.
LEMMA DropKeeps ==
  ASSUME IInv, NEW p \in Partitions, DropFromJournal(p)
  PROVE  IInv'
<1>1. /\ pc[p] = "accepted"
      /\ \/ journal' = <<>> /\ UNCHANGED <<faultModel, faults>>
         \/ journal' = journal /\ Fault("file")
      /\ emitMu' = NoOne /\ pc' = [pc EXCEPT ![p] = "idle"]
      /\ succeeded' = succeeded \cup {cur[p]}
      /\ UNCHANGED <<engine, stream, published, cur, partitionSeq, todo, pushed,
                     emitted, journaled>>
  BY Zenon DEF DropFromJournal, redis, recovery, faultVars
<1>2. /\ WellTyped /\ TypeOK /\ Emitting /\ Recovering /\ OneLine
      /\ engine = "running" /\ emitMu = p
      /\ cur[p] \in Envelope /\ Accepted(cur[p])
  BY <1>1, Zenon DEF IInv, WellTyped, Emitting
<1>3. /\ journal' \in Seq(Line)
      /\ Envelopes(journal') \subseteq Envelopes(journal)
  <2>1. journal \in Seq(Line) /\ <<>> \in Seq(Line) /\ Envelopes(<<>>) = {}
    BY <1>2, RangeOfSmall DEF TypeOK, Envelopes
  <2> QED
    BY <1>1, <2>1, Zenon
<1>4. Fresh'
  <2>1. \A q \in Partitions : pc'[q] = "stamped" => pc[q] = "stamped"
    BY <1>1, <1>2, Zenon DEF TypeOK
  <2> QED
    BY <1>1, <1>3, <2>1, FreshKept, Zenon
<1>5. WellTyped'
  <2>1. TypeOK'
    BY <1>1, <1>2, <1>3, Zenon DEF TypeOK
  <2> QED
    BY <1>1, <1>2, <2>1, Zenon DEF WellTyped
<1>6. Emitting'
  BY <1>1, <1>2, OutboxAssumption DEF TypeOK, Emitting, Accepted, IsBroadcast
<1>7. Recovering'
  BY <1>1, <1>2, Zenon DEF Recovering
<1>8. NilMeansPublished'
  BY <1>1, <1>2, Zenon DEF IInv, NilMeansPublished, Accepted
<1>9. CASE Fault("file")
  <2>1. OneLine' /\ NothingLost' /\ FirstDeliveriesInOrder'
    BY <1>9, FaultUnreliable, Zenon
  <2> QED
    BY <1>4, <1>5, <1>6, <1>7, <1>8, <2>1, Zenon DEF IInv
<1>10. CASE journal' = <<>> /\ UNCHANGED <<faultModel, faults>>
  <2>1. OneLine'
    BY <1>1, <1>10, Zenon DEF OneLine
  <2>2. NothingLost'
    <3> SUFFICES ASSUME Reliable PROVE Recoverable'
      BY <1>10, Zenon DEF NothingLost, Reliable
    <3>1. emitMu # NoOne
      BY <1>2, OutboxAssumption, Zenon
    <3>2. Range(journal) = {cur[p]}
      BY <1>2, <3>1, RangeOfSmall, Zenon DEF OneLine
    <3>3. Envelopes(journal) \subseteq Range(stream)
      BY <1>2, <3>2, Zenon DEF Envelopes, Accepted
    <3> QED
      BY <1>1, <3>3, Zenon DEF IInv, NothingLost, Recoverable
  <2>3. FirstDeliveriesInOrder'
    BY <1>1, <1>10, Zenon DEF IInv, FirstDeliveriesInOrder, Reliable
  <2> QED
    BY <1>4, <1>5, <1>6, <1>7, <1>8, <2>1, <2>2, <2>3, Zenon DEF IInv
<1> QED
  BY <1>1, <1>9, <1>10, Zenon

-----------------------------------------------------------------------------
(* Crashes, restarts and recovery *)

\* A running engine that has emitted nothing.
LEMMA InitHolds == Init => IInv
<1> SUFFICES ASSUME Init PROVE IInv
  BY Zenon
<1>1. WellTyped
  <2>1. /\ journal \in Seq(Line) /\ todo \in Seq(Line) /\ stream \in Seq(Envelope)
        /\ published \subseteq {x \in Envelope : IsBroadcast(x)}
    BY DEF Init
  <2>2. /\ pc \in [Partitions ->
                     {"idle", "stamped", "journaled", "streamed", "accepted"}]
        /\ cur \in [Partitions -> Envelope \cup {NoOne}]
        /\ emitMu \in Partitions \cup {NoOne} /\ engine = "running"
    BY Zenon DEF Init, Idle
  <2>3. /\ emitted \in [Partitions -> 0..MaxEmits]
        /\ partitionSeq \in [Partitions -> Nat]
        /\ \A p \in Partitions : partitionSeq[p] <= emitted[p]
    BY OutboxAssumption DEF Init
  <2>4. journaled = {} /\ succeeded = {} /\ pushed = FALSE
    BY Zenon DEF Init
  <2> QED
    BY <2>1, <2>2, <2>3, <2>4, Zenon DEF WellTyped, TypeOK
<1>2. Emitting
  BY OutboxAssumption, Zenon DEF Init, Idle, Emitting
<1>3. Recovering
  BY Zenon DEF Init, Recovering
<1>4. Fresh
  BY RangeOfSmall, Zenon DEF Init, Fresh, Envelopes
<1>5. OneLine
  BY Zenon DEF Init, OneLine
<1>6. NilMeansPublished /\ NothingLost
  BY Zenon DEF Init, NilMeansPublished, NothingLost, Recoverable
<1>7. FirstDeliveriesInOrder
  BY DEF Init, FirstDeliveriesInOrder, InOrder
<1> QED
  BY <1>1, <1>2, <1>3, <1>4, <1>5, <1>6, <1>7, Zenon DEF IInv

\* Only a running engine emits.
LEMMA NotRunning ==
  ASSUME IInv, engine # "running"
  PROVE  emitMu = NoOne /\ \A p \in Partitions : pc[p] = "idle"
  BY Zenon DEF IInv, Emitting, WellTyped, TypeOK

\* The disk and Redis survive the end of the process, and the rest does not
\* matter.
LEMMA ProcessEndsKeeps ==
  ASSUME IInv, ProcessEnds, UNCHANGED faultModel
  PROVE  IInv'
<1>1. /\ engine' = "down" /\ emitMu' = NoOne /\ pc' = Idle
      /\ cur' = [p \in Partitions |-> NoOne]
      /\ partitionSeq' = [p \in Partitions |-> 0]
      /\ todo' = <<>> /\ pushed' = FALSE
      /\ UNCHANGED <<journal, stream, published, emitted, journaled, succeeded>>
  BY Zenon DEF ProcessEnds, redis, history
<1>2. WellTyped /\ TypeOK /\ Emitting /\ OneLine
  BY Zenon DEF IInv, WellTyped
<1>3. WellTyped'
  <2>1. TypeOK'
    BY <1>1, <1>2 DEF TypeOK, Idle
  <2>2. /\ partitionSeq' \in [Partitions -> Nat]
        /\ \A p \in Partitions : partitionSeq'[p] <= emitted[p]
    BY <1>1, <1>2 DEF WellTyped
  <2> QED
    BY <1>1, <1>2, <2>1, <2>2, Zenon DEF WellTyped
<1>4. Emitting'
  BY <1>1, OutboxAssumption, Zenon DEF Emitting, Idle
<1>5. Recovering'
  BY <1>1, Zenon DEF Recovering
<1>6. Fresh'
  <2>1. \A q \in Partitions : pc'[q] = "stamped" => pc[q] = "stamped"
    BY <1>1, Zenon DEF Idle
  <2> QED
    BY <1>1, <2>1, FreshKept, Zenon
<1>7. OneLine'
  BY <1>1, <1>2, Zenon DEF OneLine, Reliable
<1>8. NilMeansPublished'
  BY <1>1, Zenon DEF IInv, NilMeansPublished
<1>9. NothingLost' /\ FirstDeliveriesInOrder'
  BY <1>1, Zenon DEF IInv, NothingLost, Recoverable, FirstDeliveriesInOrder, Reliable
<1> QED
  BY <1>3, <1>4, <1>5, <1>6, <1>7, <1>8, <1>9, Zenon DEF IInv

\* Start reads the journal, or cannot.
LEMMA StartKeeps ==
  ASSUME IInv, Start
  PROVE  IInv'
<1>1. /\ engine = "down"
      /\ UNCHANGED <<journal, stream, published, emitMu, pc, cur, partitionSeq,
                     pushed, emitted, journaled, succeeded>>
  BY Zenon DEF Start, redis, workers, history
<1>2. \/ /\ todo' = journal
         /\ engine' = IF journal = <<>> THEN "running" ELSE "recovering"
         /\ UNCHANGED faultModel
      \/ todo' = <<>> /\ engine' = "running" /\ Fault("file")
  BY Zenon DEF Start, faultVars
<1>3. /\ WellTyped /\ TypeOK /\ Emitting /\ Recovering /\ OneLine
      /\ todo = <<>> /\ ~pushed
      /\ emitMu = NoOne /\ \A p \in Partitions : pc[p] = "idle"
  BY <1>1, NotRunning, Zenon DEF IInv, WellTyped, Recovering
<1>4. todo' \in Seq(Line) /\ engine' \in {"running", "recovering"}
  BY <1>2, <1>3, Zenon DEF TypeOK
<1>5. WellTyped'
  <2>1. TypeOK'
    BY <1>1, <1>3, <1>4, Zenon DEF TypeOK
  <2> QED
    BY <1>1, <1>3, <2>1, Zenon DEF WellTyped
<1>6. Emitting'
  BY <1>1, <1>3, OutboxAssumption, Zenon DEF Emitting
<1>7. Recovering'
  BY <1>1, <1>2, <1>3, Zenon DEF Recovering, Envelopes
<1>8. Fresh'
  BY <1>1, FreshKept, Zenon
<1>9. NilMeansPublished'
  BY <1>1, Zenon DEF IInv, NilMeansPublished
<1>10. OneLine' /\ NothingLost' /\ FirstDeliveriesInOrder'
  <2>1. CASE Fault("file")
    BY <2>1, FaultUnreliable, Zenon
  <2>2. CASE ~Fault("file")
    <3>1. engine' = "running" => journal = <<>>
      BY <1>2, <2>2, Zenon
    <3>2. OneLine'
      BY <1>1, <1>2, <1>3, <2>2, <3>1, Zenon DEF OneLine, Reliable
    <3> QED
      BY <1>1, <1>2, <2>2, <3>2, Zenon
         DEF IInv, NothingLost, Recoverable, FirstDeliveriesInOrder, Reliable
  <2> QED
    BY <2>1, <2>2, Zenon
<1> QED
  BY <1>5, <1>6, <1>7, <1>8, <1>9, <1>10, Zenon DEF IInv

\* The line Recover is at is one of the journal.
LEMMA LineAtHead ==
  ASSUME IInv, engine = "recovering", todo # <<>>, Head(todo) \notin {Fragment, Corrupt}
  PROVE  /\ Head(todo) \in Envelopes(journal)
         /\ Head(todo) \in Envelope
         /\ Head(todo).n <= emitted[Head(todo).partition]
         /\ Reliable => Head(todo).n = emitted[Head(todo).partition]
         /\ pc[Head(todo).partition] # "stamped"
<1>1. Head(todo) \in Range(todo)
  BY RangeOfTail, Zenon DEF IInv, WellTyped, TypeOK
<1>2. Head(todo) \in Envelopes(journal)
  BY <1>1, Zenon DEF IInv, Recovering, Envelopes
<1>3. Head(todo) \in Envelope
  BY <1>2, ElementsTyped, Zenon DEF IInv
<1>4. Head(todo).n <= emitted[Head(todo).partition]
  BY <1>2, Zenon DEF IInv, Fresh
<1>5. ASSUME Reliable PROVE Head(todo).n = emitted[Head(todo).partition]
  <2>1. Range(journal) # {}
    BY <1>2, Zenon DEF Envelopes
  <2>2. PICK x \in Envelope : journal = <<x>> /\ x.n = emitted[x.partition]
    BY <1>5, <2>1, RangeOfSmall, Zenon DEF IInv, OneLine
  <2> QED
    BY <1>2, <2>2, RangeOfSmall, Zenon DEF Envelopes
<1>6. pc[Head(todo).partition] # "stamped"
  <2>1. Head(todo).partition \in Partitions
    BY <1>3, Zenon DEF Envelope
  <2> QED
    BY <2>1, NotRunning, Zenon
<1> QED
  BY <1>2, <1>3, <1>4, <1>5, <1>6, Zenon

\* A step of Recover that is done with the first line, or leaves it for its
\* PUBLISH.
LEMMA RecoverStep ==
  ASSUME IInv, engine = "recovering", todo # <<>>,
         todo' = todo \/ todo' = Tail(todo),
         pushed' \in BOOLEAN,
         pushed' => /\ todo' = todo
                    /\ Head(todo) \in Range(stream')
                    /\ Head(todo) \in Envelope
                    /\ IsBroadcast(Head(todo)),
         (todo' = Tail(todo) /\ Head(todo) \notin {Fragment, Corrupt}) =>
            /\ Head(todo) \in Range(stream')
            /\ IsBroadcast(Head(todo)) => Head(todo) \in published',
         stream' \in Seq(Envelope), Range(stream) \subseteq Range(stream'),
         published \subseteq published',
         published' \subseteq {x \in Envelope : IsBroadcast(x)},
         Fresh', Reliable => InOrder(stream'),
         UNCHANGED <<engine, journal, emitMu, pc, cur, partitionSeq, emitted,
                     journaled, succeeded, faultModel>>
  PROVE  IInv'
<1>1. /\ WellTyped /\ TypeOK /\ Emitting /\ Recovering /\ OneLine
      /\ emitMu = NoOne /\ \A p \in Partitions : pc[p] = "idle"
  BY NotRunning, Zenon DEF IInv, WellTyped
<1>2. /\ Tail(todo) \in Seq(Line) /\ Range(Tail(todo)) \subseteq Range(todo)
      /\ \A x \in Range(todo) : x = Head(todo) \/ x \in Range(Tail(todo))
  BY <1>1, RangeOfTail, Zenon DEF TypeOK
<1>3. WellTyped'
  <2>1. TypeOK'
    BY <1>1, <1>2, Zenon DEF TypeOK
  <2> QED
    BY <1>1, <2>1, Zenon DEF WellTyped
<1>4. Emitting'
  BY <1>1, OutboxAssumption, Zenon DEF Emitting
<1>5. Recovering'
  <2>1. Range(todo') \subseteq Range(journal)
    BY <1>1, <1>2, Zenon DEF Recovering
  <2>2. ASSUME NEW x \in Envelopes(journal)
        PROVE  x \in Range(todo') \/ Accepted(x)'
    <3>1. CASE Accepted(x)
      BY <3>1, Zenon DEF Accepted
    <3>2. CASE x \in Range(todo)
      BY <1>2, <3>2, Zenon DEF Envelopes, Accepted
    <3> QED
      BY <1>1, <3>1, <3>2, Zenon DEF Recovering
  <2> QED
    BY <2>1, <2>2, Zenon DEF Recovering, Envelopes
<1>6. OneLine'
  BY <1>1, Zenon DEF OneLine, Reliable
<1>7. NilMeansPublished'
  BY Zenon DEF IInv, NilMeansPublished
<1>8. NothingLost' /\ FirstDeliveriesInOrder'
  BY Zenon DEF IInv, NothingLost, Recoverable, FirstDeliveriesInOrder, Reliable, Envelopes
<1> QED
  BY <1>3, <1>4, <1>5, <1>6, <1>7, <1>8, Zenon DEF IInv

\* Recover appends a line to the stream, or skips one that does not decode.
LEMMA RepublishEventKeeps ==
  ASSUME IInv, RepublishEvent
  PROVE  IInv'
<1>1. /\ engine = "recovering" /\ todo # <<>> /\ ~pushed
      /\ UNCHANGED <<engine, journal, published, emitMu, pc, cur, partitionSeq,
                     emitted, journaled, succeeded, faultModel>>
  BY Zenon DEF RepublishEvent, workers, history, faultVars
<1>2. /\ WellTyped /\ pushed \in BOOLEAN /\ stream \in Seq(Envelope)
      /\ published \subseteq {x \in Envelope : IsBroadcast(x)}
      /\ Reliable => InOrder(stream)
  BY Zenon DEF IInv, WellTyped, TypeOK, FirstDeliveriesInOrder
<1>3. CASE Head(todo) \in {Fragment, Corrupt}
  <2>1. stream' = stream /\ pushed' = pushed /\ todo' = Tail(todo)
    BY <1>3, Zenon DEF RepublishEvent
  <2>2. Fresh'
    BY <1>1, <2>1, FreshKept, Zenon
  <2> QED
    BY <1>1, <1>2, <1>3, <2>1, <2>2, RecoverStep, Zenon
<1>4. CASE Head(todo) \notin {Fragment, Corrupt}
  <2>1. /\ stream' = Append(stream, Head(todo))
        /\ pushed' = IsBroadcast(Head(todo))
        /\ todo' = IF pushed' THEN todo ELSE Tail(todo)
    BY <1>4, Zenon DEF RepublishEvent
  <2>2. /\ stream' \in Seq(Envelope)
        /\ Range(stream') = Range(stream) \cup {Head(todo)}
        /\ Fresh'
        /\ Reliable => InOrder(stream')
    <3>1. /\ Head(todo) \in Envelope
          /\ Head(todo).n <= emitted[Head(todo).partition]
          /\ Reliable => Head(todo).n = emitted[Head(todo).partition]
          /\ pc'[Head(todo).partition] # "stamped"
      BY <1>1, <1>4, LineAtHead, Zenon
    <3>2. \A q \in Partitions : pc'[q] = "stamped" => pc[q] = "stamped"
      BY <1>1, Zenon
    <3> QED
      BY <1>1, <2>1, <3>1, <3>2, StreamWrite, Zenon
  <2>3. Head(todo) \in Envelope
    BY <1>1, <1>4, LineAtHead, Zenon
  <2>4. pushed' \in BOOLEAN
    BY <2>1, Zenon DEF IsBroadcast
  <2>5. todo # Tail(todo)
    <3>1. todo \in Seq(Line)
      BY <1>2, Zenon DEF WellTyped, TypeOK
    <3> QED
      BY <1>1, <3>1
  <2>6. CASE IsBroadcast(Head(todo))
    BY <1>1, <1>2, <2>1, <2>2, <2>3, <2>4, <2>5, <2>6, RecoverStep, Zenon
  <2>7. CASE ~IsBroadcast(Head(todo))
    BY <1>1, <1>2, <2>1, <2>2, <2>3, <2>4, <2>7, RecoverStep, Zenon
  <2> QED
    BY <2>6, <2>7, Zenon
<1> QED
  BY <1>3, <1>4, Zenon

\* Recover publishes the trade it has appended.
LEMMA RepublishTradeKeeps ==
  ASSUME IInv, RepublishTrade
  PROVE  IInv'
<1>1. /\ engine = "recovering" /\ pushed
      /\ published' = published \cup {Head(todo)}
      /\ pushed' = FALSE /\ todo' = Tail(todo)
      /\ UNCHANGED <<engine, journal, stream, emitMu, pc, cur, partitionSeq,
                     emitted, journaled, succeeded, faultModel>>
  BY Zenon DEF RepublishTrade, workers, history, faultVars
<1>2. /\ todo # <<>> /\ Head(todo) \in Range(stream)
      /\ Head(todo) \in Envelope /\ IsBroadcast(Head(todo))
      /\ stream \in Seq(Envelope)
      /\ published \subseteq {x \in Envelope : IsBroadcast(x)}
      /\ Reliable => InOrder(stream)
  BY <1>1, Zenon DEF IInv, Recovering, WellTyped, TypeOK, FirstDeliveriesInOrder
<1>3. published' \subseteq {x \in Envelope : IsBroadcast(x)}
  BY <1>1, <1>2, Zenon
<1>4. Fresh'
  BY <1>1, FreshKept, Zenon
<1> QED
  BY <1>1, <1>2, <1>3, <1>4, RecoverStep, Zenon

\* Recover gives up or has finished: the engine runs.
LEMMA RunKeeps ==
  ASSUME IInv, engine = "recovering", engine' = "running", todo' = <<>>, ~pushed',
         pushed' \in BOOLEAN,
         stream' \in Seq(Envelope), Range(stream) \subseteq Range(stream'),
         published \subseteq published',
         published' \subseteq {x \in Envelope : IsBroadcast(x)},
         journal' = journal \/ journal' = <<>>,
         Fresh', NothingLost', FirstDeliveriesInOrder',
         Reliable => journal' = <<>>,
         UNCHANGED <<emitMu, pc, cur, partitionSeq, emitted, journaled, succeeded,
                     faultModel>>
  PROVE  IInv'
<1>1. /\ WellTyped /\ TypeOK /\ Emitting
      /\ emitMu = NoOne /\ \A p \in Partitions : pc[p] = "idle"
  BY NotRunning, Zenon DEF IInv, WellTyped
<1>2. WellTyped'
  <2>1. journal' \in Seq(Line) /\ todo' \in Seq(Line)
    <3>1. <<>> \in Seq(Line)
      OBVIOUS
    <3> QED
      BY <1>1, <3>1, Zenon DEF TypeOK
  <2>2. TypeOK'
    BY <1>1, <2>1, Zenon DEF TypeOK
  <2> QED
    BY <1>1, <2>2, Zenon DEF WellTyped
<1>3. Emitting'
  BY <1>1, OutboxAssumption, Zenon DEF Emitting
<1>4. Recovering'
  BY Zenon DEF Recovering
<1>5. OneLine'
  BY <1>1, Zenon DEF OneLine, Reliable
<1>6. NilMeansPublished'
  BY Zenon DEF IInv, NilMeansPublished
<1> QED
  BY <1>2, <1>3, <1>4, <1>5, <1>6, Zenon DEF IInv

\* The first error ends Recover, and the engine runs with the old journal.
LEMMA RepublishFailsKeeps ==
  ASSUME IInv, RepublishFails
  PROVE  IInv'
<1>1. /\ engine = "recovering" /\ todo # <<>>
      /\ Head(todo) \notin {Fragment, Corrupt}
      /\ \/ UNCHANGED <<stream, published>>
         \/ stream' = Append(stream, Head(todo)) /\ UNCHANGED published
         \/ pushed /\ published' = published \cup {Head(todo)} /\ UNCHANGED stream
      /\ engine' = "running" /\ todo' = <<>> /\ pushed' = FALSE
      /\ UNCHANGED <<journal, emitMu, pc, cur, partitionSeq, emitted, journaled,
                     succeeded>>
  BY Zenon DEF RepublishFails, redis, workers, history
<1>2. /\ stream \in Seq(Envelope)
      /\ published \subseteq {x \in Envelope : IsBroadcast(x)}
      /\ pushed => IsBroadcast(Head(todo))
  BY Zenon DEF IInv, WellTyped, TypeOK, Recovering
<1>3. /\ Head(todo) \in Envelope
      /\ Head(todo).n <= emitted[Head(todo).partition]
      /\ Reliable => Head(todo).n = emitted[Head(todo).partition]
      /\ pc'[Head(todo).partition] # "stamped"
  BY <1>1, LineAtHead, Zenon
<1>4. \A q \in Partitions : pc'[q] = "stamped" => pc[q] = "stamped"
  BY <1>1, Zenon
<1>5. stream' \in Seq(Envelope) /\ Range(stream) \subseteq Range(stream') /\ Fresh'
  <2>1. CASE stream' = stream
    BY <1>1, <1>2, <1>4, <2>1, FreshKept, Zenon
  <2>2. CASE stream' = Append(stream, Head(todo))
    BY <1>1, <1>3, <1>4, <2>2, StreamWrite, Zenon
  <2> QED
    BY <1>1, <2>1, <2>2, Zenon
<1>6. /\ published \subseteq published'
      /\ published' \subseteq {x \in Envelope : IsBroadcast(x)}
  BY <1>1, <1>2, <1>3, Zenon
<1>7. OneLine' /\ NothingLost' /\ FirstDeliveriesInOrder' /\ UNCHANGED faultModel
  BY FaultUnreliable, Zenon DEF RepublishFails
<1>8. ~Reliable
  BY Zenon DEF RepublishFails, Fault, Reliable
<1> QED
  BY <1>1, <1>5, <1>6, <1>7, <1>8, RunKeeps, Zenon

\* Recover has been through all lines and truncates the journal.
LEMMA FinishRecoverKeeps ==
  ASSUME IInv, FinishRecover
  PROVE  IInv'
<1>1. /\ engine = "recovering" /\ todo = <<>> /\ engine' = "running"
      /\ \/ journal' = <<>> /\ UNCHANGED faultModel
         \/ journal' = journal /\ Fault("file")
      /\ UNCHANGED <<stream, published, emitMu, pc, cur, partitionSeq, todo, pushed,
                     emitted, journaled, succeeded>>
  BY Zenon DEF FinishRecover, redis, workers, recovery, history, faultVars
<1>2. /\ WellTyped /\ ~pushed /\ pushed \in BOOLEAN
      /\ stream \in Seq(Envelope)
      /\ published \subseteq {x \in Envelope : IsBroadcast(x)}
  BY <1>1, Zenon DEF IInv, WellTyped, TypeOK, Recovering
<1>3. Fresh'
  <2>1. Envelopes(journal') \subseteq Envelopes(journal)
    BY <1>1, RangeOfSmall, Zenon DEF Envelopes
  <2> QED
    BY <1>1, <2>1, FreshKept, Zenon
<1>4. CASE Fault("file")
  <2>1. NothingLost' /\ FirstDeliveriesInOrder' /\ UNCHANGED faultModel
    BY <1>4, FaultUnreliable, Zenon
  <2>2. ~Reliable
    BY <1>4, Zenon DEF Fault, Reliable
  <2> QED
    BY <1>1, <1>2, <1>3, <2>1, <2>2, RunKeeps, Zenon
<1>5. CASE journal' = <<>> /\ UNCHANGED faultModel
  <2>1. Envelopes(journal) \subseteq Range(stream)
    BY <1>1, RangeOfSmall, Zenon DEF IInv, Recovering, Accepted
  <2>2. NothingLost'
    BY <1>1, <1>5, <2>1, Zenon DEF IInv, NothingLost, Recoverable, Reliable
  <2>3. FirstDeliveriesInOrder'
    BY <1>1, <1>5, Zenon DEF IInv, FirstDeliveriesInOrder, Reliable
  <2> QED
    BY <1>1, <1>2, <1>3, <1>5, <2>2, <2>3, RunKeeps, Zenon
<1> QED
  BY <1>1, <1>4, <1>5, Zenon

-----------------------------------------------------------------------------
(* The invariant, and what it gives *)

\* The invariant reads nothing but the variables.
LEMMA StutterKeeps == IInv /\ UNCHANGED vars => IInv'
<1> SUFFICES ASSUME IInv, UNCHANGED vars PROVE IInv'
  BY Zenon
<1> QED
  BY Zenon DEF vars, redis, workers, recovery, history, faultVars, IInv, WellTyped, TypeOK,
     Emitting, Accepted, Recovering, Fresh, OneLine, Reliable, NilMeansPublished,
     NothingLost, Recoverable, FirstDeliveriesInOrder, Envelopes

\* Every step keeps the invariant.
LEMMA NextKeeps == IInv /\ [Next]_vars => IInv'
<1> SUFFICES ASSUME IInv, Next PROVE IInv'
  BY StutterKeeps, Zenon
<1>1. ASSUME NEW p \in Partitions, emitEventP(p) PROVE IInv'
  BY <1>1, StampKeeps, AppendKeeps, XAddKeeps, PublishKeeps, DropKeeps, Zenon
     DEF emitEventP
<1>2. ASSUME NEW p \in Partitions, AppendFails(p) \/ XAddFails(p) \/ PublishFails(p)
      PROVE  IInv'
  BY <1>2, AppendFailsKeeps, XAddFailsKeeps, PublishFailsKeeps, Zenon
<1>3. CASE Crash \/ Shutdown
  BY <1>3, ProcessEndsKeeps, Zenon DEF Crash, Shutdown, Fault
<1>4. CASE Start
  BY <1>4, StartKeeps, Zenon
<1>5. CASE Recover \/ RepublishFails
  BY <1>5, RepublishEventKeeps, RepublishTradeKeeps, FinishRecoverKeeps,
     RepublishFailsKeeps, Zenon DEF Recover
<1> QED
  BY <1>1, <1>2, <1>3, <1>4, <1>5, Zenon DEF Next

\* Hence it holds in every reachable state.
LEMMA Invariance == Spec => []IInv
  BY InitHolds, NextKeeps, PTL DEF Spec

(* Whatever fails, only trades reach the WebSocket channel, the stream     *)
(* holds whole envelopes, and the journal and what Recover has still to do *)
(* hold envelopes and broken lines.                                        *)
THEOREM OutboxTypes == Spec => []TypeOK
  BY Invariance, PTL DEF IInv, WellTyped

(* Crashes, shutdowns, restarts and the emissions of other workers lose no *)
(* event that emitEventP has journaled.                                    *)
THEOREM NoEventLost == Spec => []NothingLost
  BY Invariance, PTL DEF IInv

(* An emission for which emitEventP has returned nil is on the stream, and *)
(* on the WebSocket channel if it is a trade, whatever fails.              *)
THEOREM NilIsPublished == Spec => []NilMeansPublished
  BY Invariance, PTL DEF IInv

(* Crashes and recoveries do not reorder the events of a partition.        *)
THEOREM DeliveredInOrder == Spec => []FirstDeliveriesInOrder
  BY Invariance, PTL DEF IInv

(* Whatever fails, Recover empties the journal only when the stream and    *)
(* the WebSocket channel have accepted every envelope in it.               *)
THEOREM RecoveryDropsAccepted == Spec => RecoverDropsOnlyAccepted
<1>1. IInv /\ [Next]_vars => [DropsOnlyAccepted]_vars
  <2> SUFFICES ASSUME IInv, Next, engine = "recovering", journal' # journal
               PROVE  \A x \in Envelopes(journal) : Accepted(x)
    BY Zenon DEF DropsOnlyAccepted, Accepted
  <2>1. ASSUME NEW p \in Partitions PROVE pc[p] = "idle"
    BY NotRunning, Zenon
  <2>2. FinishRecover
    BY <2>1, Zenon DEF Next, emitEventP, StampEnvelope, AppendEnvelope, AppendEnvelope_unlocked,
       XAddEvent, XAddEventTo, PublishTrade, DropFromJournal, AppendFails, XAddFails,
       PublishFails, Crash, Shutdown, ProcessEnds, Start, Recover, RepublishEvent,
       RepublishTrade, RepublishFails
  <2>3. todo = <<>>
    BY <2>2, Zenon DEF FinishRecover
  <2> QED
    BY <2>3, RangeOfSmall, Zenon DEF IInv, Recovering
<1> QED
  BY <1>1, Invariance, PTL DEF Spec, RecoverDropsOnlyAccepted

-----------------------------------------------------------------------------
(* Outbox implements AtLeastOnce *)

\* The kinds of fault are chosen once for a behaviour.
LEMMA FaultModelFixed == Next => faultModel' = faultModel
  BY Zenon DEF Next, emitEventP, StampEnvelope, AppendEnvelope, AppendEnvelope_unlocked,
     XAddEvent, XAddEventTo, PublishTrade, DropFromJournal, AppendFails, XAddFails,
     PublishFails, Crash, Shutdown, Start, Recover, RepublishEvent, RepublishTrade,
     FinishRecover, RepublishFails, Fault, faultVars

\* In reliable behaviours a step journals an envelope, appends a journaled
\* one to the stream, empties the journal when it is on the stream, or leaves
\* both alone.
LEMMA StepKinds ==
  ASSUME IInv, Next, Reliable
  PROVE  \/ journal' = journal /\ stream' = stream
         \/ \E x \in Envelope :
              /\ x \notin Envelopes(journal) \cup Range(stream)
              /\ Envelopes(journal') = Envelopes(journal) \cup {x}
              /\ stream' = stream
         \/ \E x \in Envelopes(journal) :
              /\ journal' = journal
              /\ Range(stream') = Range(stream) \cup {x}
         \/ /\ Envelopes(journal') = {}
            /\ Envelopes(journal) \subseteq Range(stream)
            /\ stream' = stream
<1>1. /\ WellTyped /\ TypeOK /\ Emitting /\ Recovering /\ Fresh /\ OneLine
      /\ ~Fault("redis") /\ ~Fault("file")
  BY Zenon DEF IInv, WellTyped, Fault, Reliable
<1>2. ASSUME NEW p \in Partitions, AppendEnvelope(p)
      PROVE  \E x \in Envelope :
              /\ x \notin Envelopes(journal) \cup Range(stream)
              /\ Envelopes(journal') = Envelopes(journal) \cup {x}
              /\ stream' = stream
  <2>1. /\ pc[p] = "stamped" /\ emitMu = NoOne
        /\ journal' = AppendLine(journal, cur[p]) /\ stream' = stream
    BY <1>2, Zenon DEF AppendEnvelope, AppendEnvelope_unlocked, redis
  <2>2. /\ engine = "running" /\ cur[p] \in Envelope
        /\ cur[p].partition = p /\ cur[p].n = emitted[p]
    BY <1>1, <2>1, Zenon DEF Emitting
  <2>3. journal = <<>> /\ journal' = <<cur[p]>>
    <3>1. journal = <<>> /\ journal \in Seq(Line) /\ cur[p] \in Line
      BY <1>1, <2>1, <2>2, Zenon DEF OneLine, TypeOK, Line
    <3> QED
      BY <2>1, <3>1, AppendLineProperty, Zenon
  <2>4. Envelopes(journal) = {} /\ Envelopes(journal') = {cur[p]}
    BY <2>2, <2>3, RangeOfSmall, OutboxAssumption, Zenon DEF Envelopes
  <2>5. cur[p] \notin Range(stream)
    <3> SUFFICES ASSUME cur[p] \in Range(stream) PROVE FALSE
      BY Zenon
    <3>1. emitted[p] < emitted[p] /\ emitted[p] \in Nat
      BY <1>1, <2>1, <2>2 DEF Fresh, WellTyped
    <3> QED
      BY <3>1
  <2> QED
    BY <2>1, <2>2, <2>4, <2>5, Zenon
<1>3. ASSUME NEW p \in Partitions, XAddEvent(p)
      PROVE  \E x \in Envelopes(journal) :
              /\ journal' = journal
              /\ Range(stream') = Range(stream) \cup {x}
  <2>1. pc[p] = "journaled" /\ stream' = Append(stream, cur[p]) /\ journal' = journal
    BY <1>3, Zenon DEF XAddEvent, XAddEventTo
  <2>2. engine = "running" /\ cur[p] \in Envelope /\ emitMu = p /\ emitMu # NoOne
    BY <1>1, <2>1, OutboxAssumption DEF Emitting
  <2>3. cur[p] \in Envelopes(journal)
    <3>1. journal = <<cur[p]>>
      BY <1>1, <2>2, Zenon DEF OneLine
    <3> QED
      BY <2>2, <3>1, RangeOfSmall, OutboxAssumption DEF Envelopes
  <2>4. Range(stream') = Range(stream) \cup {cur[p]}
    <3>1. stream \in Seq(Envelope)
      BY <1>1, Zenon DEF TypeOK
    <3> QED
      BY <2>1, <2>2, <3>1, RangeOfAppend
  <2> QED
    BY <2>1, <2>3, <2>4, Zenon
<1>4. ASSUME NEW p \in Partitions, DropFromJournal(p)
      PROVE  /\ Envelopes(journal') = {}
             /\ Envelopes(journal) \subseteq Range(stream)
             /\ stream' = stream
  <2>1. pc[p] = "accepted" /\ journal' = <<>> /\ stream' = stream
    BY <1>1, <1>4, Zenon DEF DropFromJournal, redis
  <2>2. /\ engine = "running" /\ emitMu = p /\ emitMu # NoOne
        /\ cur[p] \in Range(stream)
    BY <1>1, <2>1, OutboxAssumption DEF Emitting
  <2> QED
    BY <1>1, <2>1, <2>2, RangeOfSmall, Zenon DEF OneLine, Envelopes
<1>5. ASSUME RepublishEvent, Head(todo) \notin {Fragment, Corrupt}
      PROVE  \E x \in Envelopes(journal) :
              /\ journal' = journal
              /\ Range(stream') = Range(stream) \cup {x}
  <2>1. /\ engine = "recovering" /\ todo # <<>>
        /\ stream' = Append(stream, Head(todo)) /\ journal' = journal
    BY <1>5, Zenon DEF RepublishEvent
  <2>2. Head(todo) \in Envelopes(journal) /\ Head(todo) \in Envelope
    BY <1>5, <2>1, LineAtHead, Zenon
  <2>3. Range(stream') = Range(stream) \cup {Head(todo)}
    <3>1. stream \in Seq(Envelope)
      BY <1>1, Zenon DEF TypeOK
    <3> QED
      BY <2>1, <2>2, <3>1, RangeOfAppend
  <2> QED
    BY <2>1, <2>2, <2>3, Zenon
<1>6. ASSUME FinishRecover
      PROVE  /\ Envelopes(journal') = {}
             /\ Envelopes(journal) \subseteq Range(stream)
             /\ stream' = stream
  <2>1. engine = "recovering" /\ todo = <<>> /\ journal' = <<>> /\ stream' = stream
    BY <1>1, <1>6, Zenon DEF FinishRecover, redis
  <2> QED
    BY <1>1, <2>1, RangeOfSmall, Zenon DEF Recovering, Accepted, Envelopes
<1>7. CASE \E p \in Partitions : StampEnvelope(p) \/ PublishTrade(p)
  BY <1>7, Zenon DEF StampEnvelope, PublishTrade, redis
<1>8. CASE Crash \/ Shutdown \/ Start
  BY <1>8, Zenon DEF Crash, Shutdown, ProcessEnds, Start, redis
<1>9. CASE RepublishTrade \/ (RepublishEvent /\ Head(todo) \in {Fragment, Corrupt})
  BY <1>9, Zenon DEF RepublishTrade, RepublishEvent
<1>10. /\ \A p \in Partitions : ~(AppendFails(p) \/ XAddFails(p) \/ PublishFails(p))
       /\ ~RepublishFails
  BY <1>1, Zenon DEF AppendFails, XAddFails, PublishFails, RepublishFails
<1> QED
  BY <1>2, <1>3, <1>4, <1>5, <1>6, <1>7, <1>8, <1>9, <1>10, Zenon
     DEF Next, emitEventP, Recover

(* The outbox keeps an event until it has delivered it, through crashes,   *)
(* shutdowns, recoveries and the emissions of other workers: Outbox        *)
(* implements the safety part of AtLeastOnce.                              *)
THEOREM ImplementsAtLeastOnce == Spec => Channel!Safety
<1>1. Init => Channel!Init
  BY RangeOfSmall, Zenon DEF Init, Envelopes, Channel!Init
<1>2. IInv /\ [Next]_vars => [Channel!Next]_(Channel!vars)
  <2> SUFFICES ASSUME IInv, [Next]_vars PROVE [Channel!Next]_(Channel!vars)
    BY Zenon
  <2>1. CASE UNCHANGED vars
    BY <2>1, Zenon DEF vars, redis, faultVars, Channel!vars, Reliable, Envelopes
  <2>2. CASE Next /\ ~Reliable
    BY <2>2, FaultModelFixed, Zenon DEF Channel!vars, Reliable
  <2>3. CASE Next /\ Reliable
    <3>1. Reliable'
      BY <2>3, FaultModelFixed, Zenon DEF Reliable
    <3>2. CASE journal' = journal /\ stream' = stream
      BY <2>3, <3>1, <3>2, Zenon DEF Channel!vars, Envelopes
    <3>3. CASE \E x \in Envelope :
                 /\ x \notin Envelopes(journal) \cup Range(stream)
                 /\ Envelopes(journal') = Envelopes(journal) \cup {x}
                 /\ stream' = stream
      BY <2>3, <3>1, <3>3, Zenon DEF Channel!Next, Channel!Accept, Envelopes
    <3>4. CASE \E x \in Envelopes(journal) :
                 /\ journal' = journal
                 /\ Range(stream') = Range(stream) \cup {x}
      <4>1. PICK x \in Envelopes(journal) :
              journal' = journal /\ Range(stream') = Range(stream) \cup {x}
        BY <3>4, Zenon
      <4>2. x \in Envelope
        BY ElementsTyped, Zenon DEF IInv
      <4>3. Channel!Deliver(x)
        BY <2>3, <3>1, <4>1, Zenon DEF Channel!Deliver, Envelopes
      <4> QED
        BY <4>2, <4>3, Zenon DEF Channel!Next
    <3>5. CASE /\ Envelopes(journal') = {}
               /\ Envelopes(journal) \subseteq Range(stream)
               /\ stream' = stream
      BY <2>3, <3>1, <3>5, Zenon DEF Channel!Next, Channel!Forget, Envelopes
    <3> QED
      BY <2>3, <3>2, <3>3, <3>4, <3>5, StepKinds, Zenon
  <2> QED
    BY <2>1, <2>2, <2>3, Zenon
<1> QED
  BY <1>1, <1>2, Invariance, PTL DEF Spec, Channel!Safety
=============================================================================
