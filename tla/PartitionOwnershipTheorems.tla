--------------------- MODULE PartitionOwnershipTheorems ---------------------
(***************************************************************************)
(* Proofs about PartitionOwnership, for any engines, fault models and      *)
(* bounds: an engine executes the commands of a partition in order, the    *)
(* database applies none twice and none of a stale owner, and leases and   *)
(* tokens implement SingleOwner.                                           *)
(*                                                                         *)
(* None of these is inductive.  That a command is not applied twice needs  *)
(* what a new owner has replayed (CaughtUp), what is still in the stream   *)
(* (NothingTwice) and whose token an event carries (Tokens); that commands *)
(* are executed without a gap needs to know, at each step of an owner,     *)
(* which entries it has executed or has just read (InStep).                *)
(***************************************************************************)
EXTENDS PartitionOwnership, SequenceTheorems, WellFoundedInduction, TLAPS

-----------------------------------------------------------------------------
(* Least elements and sequences *)

\* A nonempty set of naturals has a least element, and Min names it.
LEMMA MinProperty ==
  ASSUME NEW S \in SUBSET Nat, S # {}
  PROVE  Min(S) \in S /\ \A y \in S : Min(S) <= y
<1>1. PICK x \in S : \A y \in S : ~(<<y, x>> \in OpToRel(<, Nat))
  BY NatLessThanWellFounded, WFMin, Zenon
<1>2. \A y \in S : x <= y
  <2>1. ASSUME NEW y \in S, y < x PROVE FALSE
    <3>1. <<y, x>> \in OpToRel(<, Nat)
      BY <2>1 DEF OpToRel
    <3> QED
      BY <1>1, <3>1, Zenon
  <2> QED
    BY <2>1
<1> QED
  BY <1>2, Zenon DEF Min

\* The elements of a sequence are its values at 1..Len.
LEMMA InRange ==
  ASSUME NEW S, NEW s \in Seq(S), NEW y
  PROVE  y \in Range(s) <=> \E i \in 1..Len(s) : y = s[i]
<1>1. DOMAIN s = 1..Len(s)
  OBVIOUS
<1> QED
  BY <1>1, Zenon DEF Range

\* Appending adds one element.
LEMMA RangeOfAppend ==
  ASSUME NEW S, NEW s \in Seq(S), NEW x \in S
  PROVE  /\ Append(s, x) \in Seq(S)
         /\ Range(Append(s, x)) = Range(s) \cup {x}
<1> DEFINE t == Append(s, x)
<1>1. /\ t \in Seq(S) /\ Len(s) \in Nat /\ Len(t) = Len(s) + 1
      /\ t[Len(s) + 1] = x /\ \A i \in 1..Len(s) : t[i] = s[i]
  OBVIOUS
<1> HIDE DEF t
<1>2. ASSUME NEW y PROVE y \in Range(t) <=> y \in Range(s) \cup {x}
  <2>1. y \in Range(t) <=> \E i \in 1..Len(t) : y = t[i]
    BY <1>1, InRange
  <2>2. y \in Range(s) <=> \E i \in 1..Len(s) : y = s[i]
    BY InRange
  <2> QED
    BY <1>1, <2>1, <2>2
<1> QED
  BY <1>1, <1>2, Zenon DEF t

\* An engine that has taken a token and has not given it back.
Owning(e) == pc[e] \notin {"down", "acquire", "fence"}

\* The places of an engine in runPartition.
Labels == {"down", "acquire", "fence", "replay", "replaying", "claim", "read",
           "handle", "ack", "release"}

\* The types, and which engines have a token, a queue and a context.
WellTyped ==
    /\ TypeOK
    /\ stopping \in [Engines -> BOOLEAN] /\ canceled \in [Engines -> BOOLEAN]
    /\ faultModel \in FaultModels
    /\ \A i \in DOMAIN events : events[i].cmd <= commands /\ events[i].token <= fencing
    /\ \A i \in DOMAIN projected : \E j \in DOMAIN events : projected[i] = events[j]
    /\ \A e \in Engines :
         /\ token[e] # 0 <=> Owning(e)
         /\ queue[e] \subseteq 1..commands
         /\ pc[e] \in {"handle", "ack"} => queue[e] # {}
         /\ stopping[e] /\ Owning(e) => canceled[e]

\* A token is one engine's, who has executed what it has emitted under it,
\* and emitted it once.
Tokens ==
    /\ \A e, f \in Engines : token[e] # 0 /\ token[e] = token[f] => e = f
    /\ \A e \in Engines, i \in DOMAIN events :
         token[e] # 0 /\ events[i].token = token[e] => events[i].cmd \in Executed(e)
    /\ \A i, j \in DOMAIN events : events[i] = events[j] => i = j

\* An engine executes nothing anew before it has replayed: what the database
\* has applied of earlier owners, it has executed or is about to replay.
Replayed(e) ==
    (pc[e] = "claim" /\ ~canceled[e]) \/ pc[e] \in {"read", "handle", "ack"}

CaughtUp ==
    "replay" \notin faultModel =>
      \A e \in Engines, i \in DOMAIN projected :
        projected[i].token < token[e] =>
          /\ pc[e] = "replaying" => projected[i].cmd \in Executed(e) \cup queue[e]
          /\ Replayed(e) => projected[i].cmd \in Executed(e)

\* The current owner's events that are still in the stream repeat none that
\* has been applied.
NothingTwice ==
    "replay" \notin faultModel =>
      \A i \in DOMAIN projected, j \in (seen + 1)..Len(events) :
        events[j].token = fencing => projected[i].cmd # events[j].cmd

\* While holders renew in time, the lease is with whoever relies on it, and
\* an owner's token is the last one.
LeaseHeld ==
    Punctual => \A e \in Engines :
                  /\ pc[e] \notin {"down", "acquire"} => lease = e
                  /\ token[e] # 0 => token[e] = fencing

\* With crashes only, an engine that has replayed has executed all that has
\* been delivered, but for what it has just read, and it reads without gaps.
Complete(e) ==
    /\ pc[e] \in {"replaying", "handle", "ack"} =>
         /\ 1..delivered \subseteq Executed(e) \cup queue[e]
         /\ \A c \in queue[e] : 1..c \subseteq Executed(e) \cup queue[e]
    /\ pc[e] = "ack" => HeadOf(e) \in Executed(e)
    /\ (pc[e] = "claim" /\ ~canceled[e]) \/ pc[e] = "read" => 1..delivered \subseteq Executed(e)

InStep == CrashOnly => \A e \in Engines : Complete(e)

\* The inductive invariant.
IInv ==
    /\ WellTyped /\ Tokens /\ CaughtUp /\ NothingTwice /\ LeaseHeld /\ InStep
    /\ InPartitionOrder /\ AppliedAtMostOnce /\ TokensNondecreasing

\* The variables that most steps leave alone.
dataVars == <<token, fencing, memory, events, projected, seen, faultModel>>

-----------------------------------------------------------------------------
\* A nonempty queue has a first entry.
LEMMA HeadProperty ==
  ASSUME WellTyped, NEW e \in Engines, queue[e] # {}
  PROVE  /\ HeadOf(e) \in queue[e]
         /\ \A c \in queue[e] : HeadOf(e) <= c
<1>1. queue[e] \in SUBSET Nat
  BY DEF WellTyped, TypeOK, Command
<1> QED
  BY <1>1, MinProperty, Zenon DEF HeadOf

\* What is pending has been delivered, and is in the stream.
LEMMA StreamBounds ==
  ASSUME WellTyped
  PROVE  /\ commands \in Nat /\ delivered \in Nat /\ delivered <= commands
         /\ pending \subseteq 1..delivered
         /\ 1..delivered \subseteq 1..commands
         /\ 1..commands \subseteq Command
  BY OwnershipAssumption DEF WellTyped, TypeOK, Command

\* What the database has applied, it has got from the stream.
LEMMA AppliedInStream ==
  ASSUME WellTyped, NEW i \in DOMAIN projected
  PROVE  /\ projected[i] \in Event
         /\ projected[i].cmd \in 1..commands
         /\ projected[i].token <= fencing
<1>1. PICK j \in DOMAIN events : projected[i] = events[j]
  BY Zenon DEF WellTyped
<1>2. events[j] \in Event
  BY DEF WellTyped, TypeOK
<1> QED
  BY <1>1, <1>2 DEF WellTyped, TypeOK, Event, Command

\* The initial state.
LEMMA InitHolds == Init => IInv
<1> SUFFICES ASSUME Init PROVE IInv
  BY Zenon
<1>1. WellTyped
  BY OwnershipAssumption DEF Init, WellTyped, TypeOK, Owning, Event, Command
<1>2. Tokens
  BY DEF Init, Tokens
<1>3. CaughtUp /\ NothingTwice
  BY DEF Init, CaughtUp, NothingTwice
<1>4. LeaseHeld
  BY Zenon DEF Init, LeaseHeld
<1>5. InStep
  BY Zenon DEF Init, InStep, Complete
<1>6. InPartitionOrder /\ AppliedAtMostOnce /\ TokensNondecreasing
  BY DEF Init, InPartitionOrder, AppliedAtMostOnce, TokensNondecreasing
<1> QED
  BY <1>1, <1>2, <1>3, <1>4, <1>5, <1>6, Zenon DEF IInv

\* A step that touches neither tokens, nor memories, nor events, nor the
\* database keeps what is said of these alone.
LEMMA DataUnchanged ==
  ASSUME IInv, UNCHANGED dataVars
  PROVE  /\ Tokens' /\ NothingTwice'
         /\ InPartitionOrder' /\ AppliedAtMostOnce' /\ TokensNondecreasing'
  BY Zenon DEF IInv, dataVars, Tokens, NothingTwice, InPartitionOrder,
     AppliedAtMostOnce, TokensNondecreasing, Executed, CrashOnly

\* SET NX takes a free lease; nobody relies on it yet.
LEMMA AcquireKeeps ==
  ASSUME IInv, NEW e \in Engines, Acquire(e) PROVE IInv'
<1>1. /\ UNCHANGED dataVars
      /\ UNCHANGED <<commands, delivered, pending, stopping, canceled, queue>>
      /\ lease = NoOne /\ lease' = e
      /\ pc[e] = "acquire" /\ ~stopping[e]
      /\ pc' = [pc EXCEPT ![e] = "fence"]
  BY Zenon DEF Acquire, Acquire_steal, Goto, dbVars, faultVars, dataVars
<1>2. WellTyped'
  BY <1>1, Zenon DEF IInv, WellTyped, TypeOK, Owning, dataVars
<1>3. CaughtUp'
  BY <1>1, Zenon DEF IInv, WellTyped, TypeOK, CaughtUp, Executed, Replayed, dataVars
<1>4. LeaseHeld'
  BY <1>1, OwnershipAssumption, Zenon DEF IInv, WellTyped, TypeOK, LeaseHeld, Punctual,
     dataVars
<1>5. InStep'
  BY <1>1 DEF IInv, WellTyped, TypeOK, InStep, Complete, Executed, HeadOf,
     CrashOnly, dataVars
<1> QED
  BY <1>1, <1>2, <1>3, <1>4, <1>5, DataUnchanged, Zenon DEF IInv

\* A lost reply leaves a lease that nobody relies on.
LEMMA AcquireFailsKeeps ==
  ASSUME IInv, NEW e \in Engines, AcquireFails(e) PROVE IInv'
<1>1. /\ UNCHANGED dataVars
      /\ UNCHANGED <<commands, delivered, pending, pc, stopping, canceled, queue>>
      /\ lease = NoOne /\ lease' = e
      /\ pc[e] = "acquire"
  BY Zenon DEF AcquireFails, Fault, engineVars, dbVars, dataVars
<1>2. WellTyped'
  BY <1>1, Zenon DEF IInv, WellTyped, TypeOK, Owning, dataVars
<1>3. CaughtUp'
  BY <1>1, Zenon DEF IInv, WellTyped, TypeOK, CaughtUp, Executed, Replayed, dataVars
<1>4. LeaseHeld'
  BY <1>1, OwnershipAssumption, Zenon DEF IInv, WellTyped, TypeOK, LeaseHeld, Punctual,
     dataVars
<1>5. InStep'
  BY <1>1, Zenon DEF IInv, WellTyped, TypeOK, InStep, Complete, Executed, HeadOf,
     CrashOnly, dataVars
<1> QED
  BY <1>1, <1>2, <1>3, <1>4, <1>5, DataUnchanged, Zenon DEF IInv

\* renewLease cancels the context of an owner.
LEMMA LoseLeaseKeeps ==
  ASSUME IInv, NEW e \in Engines, LoseLease(e) PROVE IInv'
<1>1. /\ UNCHANGED dataVars
      /\ UNCHANGED <<lease, commands, delivered, pending, pc, stopping, queue>>
      /\ canceled' = [canceled EXCEPT ![e] = TRUE]
  BY Zenon DEF LoseLease, redisVars, dbVars, faultVars, dataVars
<1>2. WellTyped'
  BY <1>1, Zenon DEF IInv, WellTyped, TypeOK, Owning, dataVars
<1>3. CaughtUp'
  BY <1>1, Zenon DEF IInv, WellTyped, TypeOK, CaughtUp, Executed, Replayed, dataVars
<1>4. LeaseHeld'
  BY <1>1, OwnershipAssumption, Zenon DEF IInv, WellTyped, TypeOK, LeaseHeld, Punctual,
     dataVars
<1>5. InStep'
  BY <1>1, Zenon DEF IInv, WellTyped, TypeOK, InStep, Complete, Executed, HeadOf,
     CrashOnly, dataVars
<1> QED
  BY <1>1, <1>2, <1>3, <1>4, <1>5, DataUnchanged, Zenon DEF IInv

\* A lease may lapse only where its holder does not rely on it, or is slow.
LEMMA LapseKeeps ==
  ASSUME IInv, Lapse \/ LapseSlow PROVE IInv'
<1>1. /\ UNCHANGED dataVars
      /\ UNCHANGED <<commands, delivered, pending, pc, stopping, canceled, queue>>
      /\ lease # NoOne /\ lease' = NoOne
      /\ Punctual => pc[lease] \in {"down", "acquire"}
  BY Zenon DEF Lapse, LapseSlow, Expires, Fault, Punctual, engineVars, dbVars,
     faultVars, dataVars
<1>2. WellTyped'
  BY <1>1, Zenon DEF IInv, WellTyped, TypeOK, Owning, dataVars
<1>3. CaughtUp'
  BY <1>1, Zenon DEF IInv, WellTyped, TypeOK, CaughtUp, Executed, Replayed, dataVars
<1>4. LeaseHeld'
  BY <1>1, OwnershipAssumption, Zenon DEF IInv, WellTyped, TypeOK, LeaseHeld, Punctual,
     dataVars
<1>5. InStep'
  BY <1>1, Zenon DEF IInv, WellTyped, TypeOK, InStep, Complete, Executed, HeadOf,
     CrashOnly, dataVars
<1> QED
  BY <1>1, <1>2, <1>3, <1>4, <1>5, DataUnchanged, Zenon DEF IInv

\* XRANGE queues all that an engine may have to replay.
LEMMA ReplayRangeKeeps ==
  ASSUME IInv, NEW e \in Engines, ReplayRange(e) PROVE IInv'
<1>1. /\ UNCHANGED dataVars
      /\ UNCHANGED <<lease, commands, delivered, pending, stopping, canceled>>
      /\ pc[e] = "replay"
      /\ queue' = [queue EXCEPT ![e] = 1..commands]
      /\ pc' = [pc EXCEPT ![e] = "replaying"]
  BY Zenon DEF ReplayRange, ReplayEntries, Goto, redisVars, dbVars, faultVars,
     dataVars
<1>2. WellTyped'
  <2>1. 1..commands \subseteq Command
    BY StreamBounds, Zenon DEF IInv
  <2> QED
    BY <1>1, <2>1, Zenon DEF IInv, WellTyped, TypeOK, Owning, dataVars
<1>3. CaughtUp'
  BY <1>1, AppliedInStream, Zenon DEF IInv, WellTyped, TypeOK, CaughtUp, Executed,
     Replayed, dataVars
<1>4. LeaseHeld'
  BY <1>1, OwnershipAssumption, Zenon DEF IInv, WellTyped, TypeOK, LeaseHeld, Punctual,
     dataVars
<1>5. InStep'
  BY <1>1 DEF IInv, WellTyped, TypeOK, InStep, Complete, Executed, HeadOf,
     CrashOnly, dataVars
<1> QED
  BY <1>1, <1>2, <1>3, <1>4, <1>5, DataUnchanged, Zenon DEF IInv

\* A failed replay is one of the faults that the invariant excepts.
LEMMA ReplayFailsKeeps ==
  ASSUME IInv, NEW e \in Engines, ReplayFails(e) PROVE IInv'
<1>1. /\ UNCHANGED dataVars
      /\ UNCHANGED <<lease, commands, delivered, pending, stopping, canceled, queue>>
      /\ pc[e] = "replay"
      /\ stopping[e] \/ "replay" \in faultModel
      /\ pc' = [pc EXCEPT ![e] = "claim"]
  BY Zenon DEF ReplayFails, Fault, Goto, redisVars, dbVars, faultVars, dataVars
<1>0. stopping[e] => canceled[e]
  BY <1>1, Zenon DEF IInv, WellTyped, Owning
<1>2. WellTyped'
  BY <1>1, Zenon DEF IInv, WellTyped, TypeOK, Owning, dataVars
<1>3. CaughtUp'
  BY <1>1, <1>0, Zenon DEF IInv, WellTyped, TypeOK, CaughtUp, Executed, Replayed, dataVars
<1>4. LeaseHeld'
  BY <1>1, OwnershipAssumption, Zenon DEF IInv, WellTyped, TypeOK, LeaseHeld, Punctual,
     dataVars
<1>5. InStep'
  BY <1>1, <1>0, Zenon DEF IInv, WellTyped, TypeOK, InStep, Complete, Executed, HeadOf,
     CrashOnly, dataVars
<1> QED
  BY <1>1, <1>2, <1>3, <1>4, <1>5, DataUnchanged, Zenon DEF IInv

\* With its queue empty, an engine has executed all it has read.
LEMMA FinishReplayKeeps ==
  ASSUME IInv, NEW e \in Engines, FinishReplay(e) PROVE IInv'
<1>1. /\ UNCHANGED dataVars
      /\ UNCHANGED <<lease, commands, delivered, pending, stopping, canceled, queue>>
      /\ pc[e] = "replaying" /\ queue[e] = {}
      /\ pc' = [pc EXCEPT ![e] = "claim"]
  BY Zenon DEF FinishReplay, Goto, redisVars, dbVars, faultVars, dataVars
<1>2. WellTyped'
  BY <1>1, Zenon DEF IInv, WellTyped, TypeOK, Owning, dataVars
<1>3. CaughtUp'
  BY <1>1, Zenon DEF IInv, WellTyped, TypeOK, CaughtUp, Executed, Replayed, dataVars
<1>4. LeaseHeld'
  BY <1>1, OwnershipAssumption, Zenon DEF IInv, WellTyped, TypeOK, LeaseHeld, Punctual,
     dataVars
<1>5. InStep'
  BY <1>1, Zenon DEF IInv, WellTyped, TypeOK, InStep, Complete, Executed, HeadOf,
     CrashOnly, dataVars
<1> QED
  BY <1>1, <1>2, <1>3, <1>4, <1>5, DataUnchanged, Zenon DEF IInv

\* A canceled context ends the reads of an owner.
LEMMA StopReadingKeeps ==
  ASSUME IInv, NEW e \in Engines, StopReading(e) PROVE IInv'
<1>1. /\ UNCHANGED dataVars
      /\ UNCHANGED <<lease, commands, delivered, pending, stopping, canceled, queue>>
      /\ pc[e] = "read"
      /\ pc' = [pc EXCEPT ![e] = "release"]
  BY Zenon DEF StopReading, Goto, redisVars, dbVars, faultVars, dataVars
<1>2. WellTyped'
  BY <1>1, Zenon DEF IInv, WellTyped, TypeOK, Owning, dataVars
<1>3. CaughtUp'
  BY <1>1, Zenon DEF IInv, WellTyped, TypeOK, CaughtUp, Executed, Replayed, dataVars
<1>4. LeaseHeld'
  BY <1>1, OwnershipAssumption, Zenon DEF IInv, WellTyped, TypeOK, LeaseHeld, Punctual,
     dataVars
<1>5. InStep'
  BY <1>1, Zenon DEF IInv, WellTyped, TypeOK, InStep, Complete, Executed, HeadOf,
     CrashOnly, dataVars
<1> QED
  BY <1>1, <1>2, <1>3, <1>4, <1>5, DataUnchanged, Zenon DEF IInv

\* A shutdown cancels every context of the process.
LEMMA ShutdownKeeps ==
  ASSUME IInv, NEW e \in Engines, Shutdown(e) PROVE IInv'
<1>1. /\ UNCHANGED dataVars
      /\ UNCHANGED <<lease, commands, delivered, pending, pc, queue>>
      /\ stopping' = [stopping EXCEPT ![e] = TRUE]
      /\ canceled' = [canceled EXCEPT ![e] = TRUE]
  BY Zenon DEF Shutdown, Fault, redisVars, dbVars, dataVars
<1>2. WellTyped'
  BY <1>1, Zenon DEF IInv, WellTyped, TypeOK, Owning, dataVars
<1>3. CaughtUp'
  BY <1>1, Zenon DEF IInv, WellTyped, TypeOK, CaughtUp, Executed, Replayed, dataVars
<1>4. LeaseHeld'
  BY <1>1, OwnershipAssumption, Zenon DEF IInv, WellTyped, TypeOK, LeaseHeld, Punctual,
     dataVars
<1>5. InStep'
  BY <1>1, Zenon DEF IInv, WellTyped, TypeOK, InStep, Complete, Executed, HeadOf,
     CrashOnly, dataVars
<1> QED
  BY <1>1, <1>2, <1>3, <1>4, <1>5, DataUnchanged, Zenon DEF IInv

\* A process starts with an empty memory.
LEMMA RestartKeeps ==
  ASSUME IInv, NEW e \in Engines, Restart(e) PROVE IInv'
<1>1. /\ UNCHANGED dataVars
      /\ UNCHANGED <<lease, commands, delivered, pending, stopping, canceled, queue>>
      /\ pc[e] = "down"
      /\ pc' = [pc EXCEPT ![e] = "acquire"]
  BY Zenon DEF Restart, Goto, redisVars, dbVars, faultVars, dataVars
<1>2. WellTyped'
  BY <1>1, Zenon DEF IInv, WellTyped, TypeOK, Owning, dataVars
<1>3. CaughtUp'
  BY <1>1, Zenon DEF IInv, WellTyped, TypeOK, CaughtUp, Executed, Replayed, dataVars
<1>4. LeaseHeld'
  BY <1>1, OwnershipAssumption, Zenon DEF IInv, WellTyped, TypeOK, LeaseHeld, Punctual,
     dataVars
<1>5. InStep'
  BY <1>1, Zenon DEF IInv, WellTyped, TypeOK, InStep, Complete, Executed, HeadOf,
     CrashOnly, dataVars
<1> QED
  BY <1>1, <1>2, <1>3, <1>4, <1>5, DataUnchanged, Zenon DEF IInv

\* What XAUTOCLAIM returns has been delivered, so it has been executed or is
\* now queued.
LEMMA ClaimKeeps ==
  ASSUME IInv, NEW e \in Engines, Claim(e) PROVE IInv'
<1>1. /\ UNCHANGED dataVars
      /\ UNCHANGED <<lease, commands, delivered, pending, stopping, canceled>>
      /\ pc[e] = "claim"
      /\ \/ UNCHANGED queue /\ pc' = [pc EXCEPT ![e] = "release"]
         \/ /\ ~canceled[e]
            /\ \E S \in SUBSET pending :
                 /\ queue' = [queue EXCEPT ![e] = S]
                 /\ pc' = [pc EXCEPT ![e] = IF S = {} THEN "read" ELSE "handle"]
         \/ ~canceled[e] /\ UNCHANGED queue /\ pc' = [pc EXCEPT ![e] = "read"]
  BY Zenon DEF Claim, Fault, Goto, redisVars, dbVars, faultVars, dataVars
<1>0. /\ pending \subseteq 1..delivered
      /\ 1..delivered \subseteq 1..commands /\ 1..commands \subseteq Command
  BY StreamBounds, Zenon DEF IInv
<1>2. WellTyped'
  <2>1. queue' \in [Engines -> SUBSET Command]
    BY <1>1, <1>0 DEF IInv, WellTyped, TypeOK
  <2>2. \A f \in Engines : queue'[f] \subseteq 1..commands
    BY <1>1, <1>0, Zenon DEF IInv, WellTyped, TypeOK
  <2>3. pc' \in [Engines -> Labels]
    BY <1>1 DEF IInv, WellTyped, TypeOK, Labels
  <2>4. ASSUME NEW f \in Engines
        PROVE  /\ Owning(f)' <=> Owning(f)
               /\ pc'[f] \in {"handle", "ack"} => queue'[f] # {}
    BY <1>1 DEF IInv, WellTyped, TypeOK, Owning
  <2> QED
    BY <1>1, <2>1, <2>2, <2>3, <2>4, Zenon DEF IInv, WellTyped, TypeOK, Labels,
       dataVars
<1>3. CaughtUp'
  BY <1>1 DEF IInv, WellTyped, TypeOK, CaughtUp, Executed, Replayed, dataVars
<1>4. LeaseHeld'
  BY <1>1, OwnershipAssumption, Zenon DEF IInv, WellTyped, TypeOK, LeaseHeld, Punctual,
     dataVars
<1>5. InStep'
  <2> SUFFICES ASSUME CrashOnly, NEW f \in Engines PROVE Complete(f)'
    BY <1>1, Zenon DEF InStep, CrashOnly, dataVars
  <2>1. Complete(f)
    BY Zenon DEF IInv, InStep
  <2>2. CASE f # e
    BY <1>1, <2>1, <2>2 DEF IInv, WellTyped, TypeOK, Complete, Executed, HeadOf,
       dataVars
  <2>3. CASE f = e
    <3>1. canceled[e] \/ 1..delivered \subseteq Executed(e)
      BY <1>1, <2>1, <2>3, Zenon DEF Complete
    <3>2. \A c \in pending : 1..c \subseteq 1..delivered
      BY <1>0, StreamBounds DEF IInv
    <3>3. Executed(e)' = Executed(e) /\ delivered' = delivered
      BY <1>1, Zenon DEF Executed, dataVars
    <3>4. CASE pc'[e] \in {"release", "read"}
      BY <1>1, <2>3, <3>1, <3>3, <3>4 DEF IInv, WellTyped, TypeOK, Complete
    <3>5. CASE pc'[e] = "handle"
      <4>1. queue'[e] \subseteq pending /\ ~canceled[e]
        BY <1>1, <3>5, Zenon DEF IInv, WellTyped, TypeOK
      <4> QED
        BY <1>0, <2>3, <3>1, <3>2, <3>3, <3>5, <4>1, Zenon DEF Complete
    <3> QED
      BY <1>1, <3>4, <3>5, Zenon DEF IInv, WellTyped, TypeOK
  <2> QED
    BY <2>2, <2>3, Zenon
<1> QED
  BY <1>1, <1>2, <1>3, <1>4, <1>5, DataUnchanged, Zenon DEF IInv

\* XREADGROUP returns the next entry and leaves no gap.
LEMMA ReadGroupKeeps ==
  ASSUME IInv, NEW e \in Engines, ReadGroup(e) PROVE IInv'
<1> DEFINE n == Min({Batch, commands - delivered})
           new == (delivered + 1)..(delivered + n)
<1>1. /\ UNCHANGED dataVars
      /\ UNCHANGED <<lease, commands, stopping, canceled>>
      /\ pc[e] = "read" /\ n > 0
      /\ delivered' = delivered + n
      /\ pending' = pending \cup new
      /\ \/ queue' = [queue EXCEPT ![e] = new] /\ pc' = [pc EXCEPT ![e] = "handle"]
         \/ UNCHANGED queue /\ pc' = [pc EXCEPT ![e] = "release"]
         \/ UNCHANGED <<queue, pc>> /\ "redis" \in faultModel
  BY Zenon DEF ReadGroup, Fault, Goto, dbVars, faultVars, dataVars
<1>2. n \in Nat \ {0} /\ n <= commands - delivered
  <2>1. {Batch, commands - delivered} \in SUBSET Nat
    BY StreamBounds, OwnershipAssumption DEF IInv
  <2>2. n \in {Batch, commands - delivered} /\ n <= commands - delivered
    BY <2>1, MinProperty, Zenon
  <2> QED
    BY <1>1, <2>1, <2>2
<1> HIDE DEF n
<1>3. /\ delivered \in Nat /\ delivered' \in 0..commands
      /\ 1..delivered' = (1..delivered) \cup new
      /\ 1..delivered' \subseteq 1..commands
      /\ \A c \in new : 1..c \subseteq 1..delivered'
      /\ new # {} /\ new \subseteq 1..commands /\ 1..commands \subseteq Command
      /\ pending' \subseteq 1..delivered'
  BY <1>1, <1>2, StreamBounds DEF IInv
<1> HIDE DEF new
<1>4. WellTyped'
  <2>1. queue' \in [Engines -> SUBSET Command]
    BY <1>1, <1>3, Zenon DEF IInv, WellTyped, TypeOK
  <2>2. pc' \in [Engines -> Labels]
    <3>1. pc \in [Engines -> Labels] /\ "handle" \in Labels /\ "release" \in Labels
      BY Zenon DEF IInv, WellTyped, TypeOK, Labels
    <3> QED
      BY <1>1, <3>1, Zenon
  <2>3. ASSUME NEW f \in Engines
        PROVE  /\ queue'[f] \subseteq 1..commands
               /\ Owning(f)' <=> Owning(f)
               /\ pc'[f] \in {"handle", "ack"} => queue'[f] # {}
    BY <1>1, <1>3 DEF IInv, WellTyped, TypeOK, Owning
  <2> QED
    BY <1>1, <1>3, <2>1, <2>2, <2>3, Zenon DEF IInv, WellTyped, TypeOK, Labels,
       dataVars
<1>5. CaughtUp'
  BY <1>1 DEF IInv, WellTyped, TypeOK, CaughtUp, Executed, Replayed, dataVars
<1>6. LeaseHeld'
  BY <1>1, Zenon DEF IInv, WellTyped, TypeOK, LeaseHeld, Punctual, dataVars
<1>7. InStep'
  <2> SUFFICES ASSUME CrashOnly, NEW f \in Engines PROVE Complete(f)'
    BY <1>1, Zenon DEF InStep, CrashOnly, dataVars
  <2>1. Complete(e)
    BY Zenon DEF IInv, InStep
  <2>2. CASE f # e
    <3>1. pc'[f] \in {"down", "acquire"}
      BY <1>1, <2>2, Zenon DEF IInv, WellTyped, TypeOK, LeaseHeld, Punctual, CrashOnly
    <3> QED
      BY <3>1, Zenon DEF Complete
  <2>3. CASE f = e
    <3>1. 1..delivered \subseteq Executed(e) /\ Executed(e)' = Executed(e)
      BY <1>1, <2>1, Zenon DEF Complete, Executed, dataVars
    <3>2. CASE pc'[e] = "release"
      BY <2>3, <3>2, Zenon DEF Complete
    <3>3. CASE pc'[e] = "handle"
      <4>1. queue'[e] = new
        BY <1>1, <3>3, Zenon DEF IInv, WellTyped, TypeOK
      <4> QED
        BY <1>3, <2>3, <3>1, <3>3, <4>1 DEF Complete
    <3> QED
      BY <1>1, <3>2, <3>3, Zenon DEF IInv, WellTyped, TypeOK, CrashOnly
  <2> QED
    BY <2>2, <2>3, Zenon
<1> QED
  BY <1>1, <1>4, <1>5, <1>6, <1>7, DataUnchanged, Zenon DEF IInv

\* An acknowledged entry has been executed.
LEMMA AckKeeps ==
  ASSUME IInv, NEW e \in Engines, Ack(e) PROVE IInv'
<1>1. /\ UNCHANGED dataVars
      /\ UNCHANGED <<lease, commands, delivered, stopping, canceled>>
      /\ pc[e] = "ack"
      /\ pending' \subseteq pending
      /\ queue' = [queue EXCEPT ![e] = queue[e] \ {HeadOf(e)}]
      /\ pc' = [pc EXCEPT ![e] = IF queue[e] = {HeadOf(e)} THEN "read" ELSE "handle"]
  BY Zenon DEF Ack, Dequeue, Fault, Goto, dbVars, faultVars, dataVars
<1>2. HeadOf(e) \in queue[e] /\ \A c \in queue[e] : HeadOf(e) <= c
  BY <1>1, HeadProperty, Zenon DEF IInv, WellTyped
<1>3. WellTyped'
  <2>1. queue' \in [Engines -> SUBSET Command]
    BY <1>1, Zenon DEF IInv, WellTyped, TypeOK
  <2>2. pc' \in [Engines -> Labels]
    BY <1>1, Zenon DEF IInv, WellTyped, TypeOK, Labels
  <2>3. ASSUME NEW f \in Engines
        PROVE  /\ queue'[f] \subseteq 1..commands
               /\ Owning(f)' <=> Owning(f)
               /\ pc'[f] \in {"handle", "ack"} => queue'[f] # {}
    BY <1>1, <1>2 DEF IInv, WellTyped, TypeOK, Owning
  <2>4. pending' \subseteq 1..delivered
    BY <1>1, StreamBounds, Zenon DEF IInv
  <2> QED
    BY <1>1, <2>1, <2>2, <2>3, <2>4, Zenon DEF IInv, WellTyped, TypeOK, Labels,
       dataVars
<1>4. CaughtUp'
  BY <1>1, Zenon DEF IInv, WellTyped, TypeOK, CaughtUp, Executed, Replayed, dataVars
<1>5. LeaseHeld'
  BY <1>1, Zenon DEF IInv, WellTyped, TypeOK, LeaseHeld, Punctual, dataVars
<1>6. InStep'
  <2> SUFFICES ASSUME CrashOnly, NEW f \in Engines PROVE Complete(f)'
    BY <1>1, Zenon DEF InStep, CrashOnly, dataVars
  <2>1. Complete(f)
    BY Zenon DEF IInv, InStep
  <2>2. CASE f # e
    BY <1>1, <2>1, <2>2, Zenon DEF IInv, WellTyped, TypeOK, Complete, Executed, HeadOf,
       dataVars
  <2>3. CASE f = e
    <3>1. /\ HeadOf(e) \in Executed(e)
          /\ 1..delivered \subseteq Executed(e) \cup queue[e]
          /\ \A c \in queue[e] : 1..c \subseteq Executed(e) \cup queue[e]
      BY <1>1, <2>1, <2>3, Zenon DEF Complete
    <3>2. Executed(e)' = Executed(e) /\ delivered' = delivered
      BY <1>1, Zenon DEF Executed, dataVars
    <3>3. /\ queue'[e] = queue[e] \ {HeadOf(e)}
          /\ pc'[e] = IF queue[e] = {HeadOf(e)} THEN "read" ELSE "handle"
      BY <1>1, Zenon DEF IInv, WellTyped, TypeOK
    <3> QED
      BY <2>3, <3>1, <3>2, <3>3, Zenon DEF Complete
  <2> QED
    BY <2>2, <2>3, Zenon
<1> QED
  BY <1>1, <1>3, <1>4, <1>5, <1>6, DataUnchanged, Zenon DEF IInv

-----------------------------------------------------------------------------
(* Steps that give or take a token *)

\* INCR gives a token larger than those of all events, for which nothing has
\* been executed yet.
LEMMA FenceKeeps ==
  ASSUME IInv, NEW e \in Engines, Fence(e) PROVE IInv'
<1>1. /\ UNCHANGED <<memory, events, projected, seen, faultModel>>
      /\ UNCHANGED <<lease, commands, delivered, pending, stopping, queue>>
      /\ pc[e] = "fence" /\ ~stopping[e]
      /\ fencing' = fencing + 1
      /\ token' = [token EXCEPT ![e] = fencing']
      /\ canceled' = [canceled EXCEPT ![e] = FALSE]
      /\ pc' = [pc EXCEPT ![e] = "replay"]
  BY Zenon DEF Fence, Own, Goto, dbVars, faultVars
<1>2. fencing \in Nat /\ fencing' \in Nat /\ fencing' = fencing + 1
      /\ token \in [Engines -> 0..fencing]
      /\ \A i \in DOMAIN events : events[i] \in Event /\ events[i].token <= fencing
  BY <1>1 DEF IInv, WellTyped, TypeOK
<1>3. token' \in [Engines -> 0..fencing'] /\ token'[e] = fencing + 1
      /\ \A f \in Engines : f # e => token'[f] = token[f]
  BY <1>1, <1>2
<1>4. WellTyped'
  <2>1. /\ pc' \in [Engines -> Labels] /\ canceled' \in [Engines -> BOOLEAN]
    BY <1>1, Zenon DEF IInv, WellTyped, TypeOK, Labels
  <2>2. \A i \in DOMAIN events : events[i].token <= fencing'
    BY <1>2 DEF Event
  <2>3. ASSUME NEW f \in Engines
        PROVE  /\ token'[f] # 0 <=> Owning(f)'
               /\ pc'[f] \in {"handle", "ack"} => queue[f] # {}
               /\ stopping[f] /\ Owning(f)' => canceled'[f]
    BY <1>1, <1>2, <1>3 DEF IInv, WellTyped, TypeOK, Owning
  <2> QED
    BY <1>1, <1>2, <1>3, <2>1, <2>2, <2>3 DEF IInv, WellTyped, TypeOK, Labels
<1>5. Tokens'
  BY <1>1, <1>2, <1>3 DEF IInv, Tokens, Executed, Event
<1>6. CaughtUp'
  BY <1>1, <1>3, Zenon DEF IInv, WellTyped, TypeOK, CaughtUp, Executed, Replayed
<1>7. NothingTwice'
  <2>1. seen \in Nat /\ Len(events) \in Nat /\ DOMAIN events = 1..Len(events)
    BY DEF IInv, WellTyped, TypeOK
  <2>2. ASSUME NEW j \in (seen + 1)..Len(events) PROVE events[j].token # fencing'
    <3>1. j \in DOMAIN events
      BY <2>1
    <3>2. events[j].token \in Nat /\ events[j].token <= fencing
      BY <1>2, <3>1, Zenon DEF Event
    <3> QED
      BY <1>2, <3>2
  <2> QED
    BY <1>1, <2>2, Zenon DEF NothingTwice
<1>8. LeaseHeld'
  <2> SUFFICES ASSUME Punctual, NEW f \in Engines
               PROVE  /\ pc'[f] \notin {"down", "acquire"} => lease = f
                      /\ token'[f] # 0 => token'[f] = fencing'
    BY <1>1, Zenon DEF LeaseHeld, Punctual
  <2>1. lease = e
    BY <1>1, Zenon DEF IInv, LeaseHeld
  <2>2. CASE f # e
    BY <1>1, <1>3, <2>1, <2>2, Zenon DEF IInv, WellTyped, TypeOK, Owning, LeaseHeld
  <2> QED
    BY <1>1, <1>3, <2>1, <2>2, Zenon
<1>9. InStep'
  BY <1>1, Zenon DEF IInv, WellTyped, TypeOK, InStep, Complete, Executed, HeadOf, CrashOnly
<1>10. InPartitionOrder' /\ AppliedAtMostOnce' /\ TokensNondecreasing'
  BY <1>1, Zenon DEF IInv, InPartitionOrder, AppliedAtMostOnce, TokensNondecreasing,
                     CrashOnly
<1> QED
  BY <1>4, <1>5, <1>6, <1>7, <1>8, <1>9, <1>10, Zenon DEF IInv

\* A failed INCR may have made older tokens stale, and gives the lease back.
LEMMA FenceFailsKeeps ==
  ASSUME IInv, NEW e \in Engines, FenceFails(e) PROVE IInv'
<1>1. /\ UNCHANGED <<token, memory, events, projected, seen, faultModel>>
      /\ UNCHANGED <<commands, delivered, pending, stopping, canceled, queue>>
      /\ pc[e] = "fence"
      /\ fencing' \in {fencing, fencing + 1}
      /\ lease' = IF lease = e THEN NoOne ELSE lease
      /\ pc' = [pc EXCEPT ![e] = "acquire"]
  BY Zenon DEF FenceFails, Released, Holds, Fault, Goto, dbVars
<1>2. fencing \in Nat /\ fencing' \in Nat /\ fencing <= fencing'
      /\ token \in [Engines -> 0..fencing] /\ token \in [Engines -> 0..fencing']
      /\ \A i \in DOMAIN events : events[i] \in Event /\ events[i].token <= fencing
  BY <1>1 DEF IInv, WellTyped, TypeOK
<1>3. WellTyped'
  <2>1. pc' \in [Engines -> Labels] /\ lease' \in Engines \cup {NoOne}
    BY <1>1, Zenon DEF IInv, WellTyped, TypeOK, Labels
  <2>2. \A i \in DOMAIN events : events[i].token <= fencing'
    BY <1>2 DEF Event
  <2>3. ASSUME NEW f \in Engines
        PROVE  /\ token[f] # 0 <=> Owning(f)'
               /\ pc'[f] \in {"handle", "ack"} => queue[f] # {}
               /\ stopping[f] /\ Owning(f)' => canceled[f]
    BY <1>1, Zenon DEF IInv, WellTyped, TypeOK, Owning
  <2> QED
    BY <1>1, <1>2, <2>1, <2>2, <2>3, Zenon DEF IInv, WellTyped, TypeOK, Labels
<1>4. Tokens'
  BY <1>1, Zenon DEF IInv, Tokens, Executed
<1>5. CaughtUp'
  BY <1>1, Zenon DEF IInv, WellTyped, TypeOK, CaughtUp, Executed, Replayed
<1>6. NothingTwice'
  <2> SUFFICES ASSUME "replay" \notin faultModel, NEW i \in DOMAIN projected,
                      NEW j \in (seen + 1)..Len(events), events[j].token = fencing'
               PROVE  projected[i].cmd # events[j].cmd
    BY <1>1, Zenon DEF NothingTwice
  <2>1. events[j] \in Event /\ events[j].token <= fencing
    BY <1>2 DEF IInv, WellTyped, TypeOK
  <2>2. events[j].token = fencing
    BY <1>2, <2>1 DEF Event
  <2> QED
    BY <2>2, Zenon DEF IInv, NothingTwice
<1>7. LeaseHeld'
  <2> SUFFICES ASSUME Punctual, NEW f \in Engines
               PROVE  /\ pc'[f] \notin {"down", "acquire"} => lease' = f
                      /\ token[f] # 0 => token[f] = fencing'
    BY <1>1, Zenon DEF LeaseHeld, Punctual
  <2>1. lease = e
    BY <1>1, Zenon DEF IInv, LeaseHeld
  <2>2. CASE f # e
    BY <1>1, <2>1, <2>2, Zenon DEF IInv, WellTyped, TypeOK, Owning, LeaseHeld
  <2>3. CASE f = e
    BY <1>1, <2>3, Zenon DEF IInv, WellTyped, TypeOK, Owning
  <2> QED
    BY <2>2, <2>3, Zenon
<1>8. InStep'
  BY <1>1, Zenon DEF IInv, WellTyped, TypeOK, InStep, Complete, Executed, HeadOf, CrashOnly
<1>9. InPartitionOrder' /\ AppliedAtMostOnce' /\ TokensNondecreasing'
  BY <1>1, Zenon DEF IInv, InPartitionOrder, AppliedAtMostOnce, TokensNondecreasing,
                     CrashOnly
<1> QED
  BY <1>3, <1>4, <1>5, <1>6, <1>7, <1>8, <1>9, Zenon DEF IInv

\* An owner that releases the lease forgets its token.
LEMMA ReleaseKeeps ==
  ASSUME IInv, NEW e \in Engines, Release(e) PROVE IInv'
<1>1. /\ UNCHANGED <<fencing, memory, events, projected, seen, faultModel>>
      /\ UNCHANGED <<commands, delivered, pending, stopping, queue>>
      /\ pc[e] = "release"
      /\ lease' = lease \/ lease' = IF lease = e THEN NoOne ELSE lease
      /\ token' = [token EXCEPT ![e] = 0]
      /\ canceled' = [canceled EXCEPT ![e] = TRUE]
      /\ pc' = [pc EXCEPT ![e] = "acquire"]
  BY Zenon DEF Release, Released, Holds, Fault, Goto, dbVars, faultVars
<1>2. fencing \in Nat /\ token \in [Engines -> 0..fencing]
  BY Zenon DEF IInv, WellTyped, TypeOK
<1>3. token' \in [Engines -> 0..fencing] /\ token'[e] = 0
      /\ \A f \in Engines : f # e => token'[f] = token[f]
  BY <1>1, <1>2
<1>4. WellTyped'
  <2>1. /\ pc' \in [Engines -> Labels] /\ canceled' \in [Engines -> BOOLEAN]
        /\ lease' \in Engines \cup {NoOne}
    BY <1>1, Zenon DEF IInv, WellTyped, TypeOK, Labels
  <2>3. ASSUME NEW f \in Engines
        PROVE  /\ token'[f] # 0 <=> Owning(f)'
               /\ pc'[f] \in {"handle", "ack"} => queue[f] # {}
               /\ stopping[f] /\ Owning(f)' => canceled'[f]
    BY <1>1, <1>3, Zenon DEF IInv, WellTyped, TypeOK, Owning
  <2> QED
    BY <1>1, <1>2, <1>3, <2>1, <2>3 DEF IInv, WellTyped, TypeOK, Labels
<1>5. Tokens'
  BY <1>1, <1>3, Zenon DEF IInv, Tokens, Executed
<1>6. CaughtUp'
  BY <1>1, <1>3, Zenon DEF IInv, WellTyped, TypeOK, CaughtUp, Executed, Replayed
<1>7. NothingTwice' /\ InPartitionOrder' /\ AppliedAtMostOnce' /\ TokensNondecreasing'
  BY <1>1, Zenon DEF IInv, NothingTwice, InPartitionOrder, AppliedAtMostOnce,
                     TokensNondecreasing, CrashOnly
<1>8. LeaseHeld'
  BY <1>1, <1>3, Zenon DEF IInv, WellTyped, TypeOK, LeaseHeld, Punctual
<1>9. InStep'
  BY <1>1, Zenon DEF IInv, WellTyped, TypeOK, InStep, Complete, Executed, HeadOf, CrashOnly
<1> QED
  BY <1>4, <1>5, <1>6, <1>7, <1>8, <1>9, Zenon DEF IInv

\* A crash or the end of a shutdown takes token and memory.
LEMMA ProcessEndsKeeps ==
  ASSUME IInv, NEW e \in Engines, Crash(e) \/ Stopped(e) PROVE IInv'
<1>1. /\ UNCHANGED <<lease, fencing, events, projected, seen, faultModel>>
      /\ UNCHANGED <<commands, delivered, pending>>
      /\ token' = [token EXCEPT ![e] = 0]
      /\ stopping' = [stopping EXCEPT ![e] = FALSE]
      /\ canceled' = [canceled EXCEPT ![e] = FALSE]
      /\ queue' = [queue EXCEPT ![e] = {}]
      /\ memory' = [memory EXCEPT ![e] = <<>>]
      /\ pc' = [pc EXCEPT ![e] = "down"]
  BY Zenon DEF Crash, Stopped, ProcessEnds, Fault, Goto, redisVars, dbVars,
     faultVars
<1>2. fencing \in Nat /\ token \in [Engines -> 0..fencing]
  BY Zenon DEF IInv, WellTyped, TypeOK
<1>3. token' \in [Engines -> 0..fencing] /\ token'[e] = 0
      /\ \A f \in Engines : f # e => token'[f] = token[f]
  BY <1>1, <1>2
<1>4. /\ memory' \in [Engines -> Seq(Command)] /\ memory'[e] = <<>>
      /\ \A f \in Engines : f # e => memory'[f] = memory[f]
  BY <1>1 DEF IInv, WellTyped, TypeOK
<1>5. WellTyped'
  <2>1. /\ pc' \in [Engines -> Labels]
        /\ stopping' \in [Engines -> BOOLEAN] /\ canceled' \in [Engines -> BOOLEAN]
        /\ queue' \in [Engines -> SUBSET Command]
    BY <1>1, Zenon DEF IInv, WellTyped, TypeOK, Labels
  <2>2. ASSUME NEW f \in Engines
        PROVE  /\ token'[f] # 0 <=> Owning(f)'
               /\ queue'[f] \subseteq 1..commands
               /\ pc'[f] \in {"handle", "ack"} => queue'[f] # {}
               /\ stopping'[f] /\ Owning(f)' => canceled'[f]
    BY <1>1, <1>3, Zenon DEF IInv, WellTyped, TypeOK, Owning
  <2> QED
    BY <1>1, <1>2, <1>3, <1>4, <2>1, <2>2 DEF IInv, WellTyped, TypeOK, Labels
<1>6. Tokens'
  BY <1>1, <1>3, <1>4 DEF IInv, Tokens, Executed
<1>7. CaughtUp'
  BY <1>1, <1>3, <1>4, Zenon DEF IInv, WellTyped, TypeOK, CaughtUp, Executed, Replayed
<1>8. NothingTwice' /\ AppliedAtMostOnce' /\ TokensNondecreasing'
  BY <1>1, Zenon DEF IInv, NothingTwice, AppliedAtMostOnce, TokensNondecreasing
<1>9. LeaseHeld'
  BY <1>1, <1>3, Zenon DEF IInv, WellTyped, TypeOK, LeaseHeld, Punctual
<1>10. InStep'
  BY <1>1, <1>4 DEF IInv, WellTyped, TypeOK, InStep, Complete, Executed, HeadOf,
     CrashOnly
<1>11. InPartitionOrder'
  BY <1>1, <1>4 DEF IInv, InPartitionOrder, CrashOnly
<1> QED
  BY <1>5, <1>6, <1>7, <1>8, <1>9, <1>10, <1>11, Zenon DEF IInv

-----------------------------------------------------------------------------
(* Steps that execute a command *)

\* What executing a command does to the memories.
LEMMA ExecuteProperty ==
  ASSUME WellTyped, NEW e \in Engines, NEW c \in Command, Execute(e, c)
  PROVE  /\ memory' \in [Engines -> Seq(Command)]
         /\ Executed(e)' = Executed(e) \cup {c}
         /\ \A f \in Engines : f # e => memory'[f] = memory[f]
<1>1. memory \in [Engines -> Seq(Command)]
  BY Zenon DEF WellTyped, TypeOK
<1>2. CASE c \in Executed(e)
  <2>1. memory' = memory
    BY <1>2, Zenon DEF Execute
  <2> QED
    BY <1>1, <1>2, <2>1, Zenon DEF Executed
<1>3. CASE c \notin Executed(e)
  <2>1. memory' = [memory EXCEPT ![e] = Append(memory[e], c)]
    BY <1>3, Zenon DEF Execute
  <2>2. /\ Append(memory[e], c) \in Seq(Command)
        /\ Range(Append(memory[e], c)) = Range(memory[e]) \cup {c}
    BY <1>1, RangeOfAppend
  <2> QED
    BY <1>1, <2>1, <2>2, Zenon DEF Executed
<1> QED
  BY <1>2, <1>3, Zenon

\* With all entries before it executed, the next one extends the prefix of
\* the stream that the engine has executed.
LEMMA ExecuteInOrder ==
  ASSUME IInv, CrashOnly, NEW e \in Engines, queue[e] # {}, Execute(e, HeadOf(e)),
         UNCHANGED faultModel,
         \A d \in queue[e] : 1..d \subseteq Executed(e) \cup queue[e]
  PROVE  InPartitionOrder'
<1> DEFINE c == HeadOf(e)
           m == memory[e]
<1>1. c \in queue[e] /\ c \in Command /\ \A d \in queue[e] : c <= d
  BY HeadProperty, Zenon DEF IInv, WellTyped, TypeOK
<1>2. memory \in [Engines -> Seq(Command)] /\ m \in Seq(Command)
  BY Zenon DEF IInv, WellTyped, TypeOK
<1>3. DOMAIN m = 1..Len(m) /\ Len(m) \in Nat
  BY <1>2
<1>4. \A i \in 1..Len(m) : m[i] = i
  BY <1>3, Zenon DEF IInv, InPartitionOrder
<1>5. Executed(e) = 1..Len(m)
  BY <1>3, <1>4, Zenon DEF Executed, Range
<1> SUFFICES ASSUME NEW f \in Engines, NEW i \in DOMAIN memory'[f]
             PROVE  memory'[f][i] = i
  BY Zenon DEF InPartitionOrder
<1>6. CASE memory'[f] = memory[f]
  BY <1>6, Zenon DEF IInv, InPartitionOrder
<1>7. CASE memory'[f] # memory[f]
  <2>1. f = e /\ c \notin Executed(e) /\ memory'[e] = Append(m, c)
    BY <1>2, <1>7, Zenon DEF Execute
  <2>2. c = Len(m) + 1
    <3>1. c \in Nat \ {0} /\ ~(c <= Len(m))
      BY <1>1, <1>3, <1>5, <2>1 DEF Command
    <3>2. ASSUME Len(m) + 1 < c PROVE FALSE
      <4>1. Len(m) + 1 \in 1..c /\ Len(m) + 1 \notin Executed(e)
        BY <1>3, <1>5, <3>1, <3>2
      <4>2. Len(m) + 1 \in queue[e]
        BY <1>1, <4>1, Zenon
      <4> QED
        BY <1>1, <1>3, <3>1, <3>2, <4>2
    <3> QED
      BY <1>3, <3>1, <3>2
  <2> HIDE DEF c, m
  <2> QED
    BY <1>2, <1>3, <1>4, <2>1, <2>2
<1> QED
  BY <1>6, <1>7, Zenon

\* A replayed command extends the memory and emits nothing.
LEMMA ReplayCommandKeeps ==
  ASSUME IInv, NEW e \in Engines, ReplayCommand(e) PROVE IInv'
<1>1. /\ UNCHANGED <<token, fencing, events, projected, seen, faultModel>>
      /\ UNCHANGED <<lease, commands, delivered, pending, pc, stopping, canceled>>
      /\ pc[e] = "replaying" /\ queue[e] # {}
      /\ Execute(e, HeadOf(e))
      /\ queue' = [queue EXCEPT ![e] = queue[e] \ {HeadOf(e)}]
  BY Zenon DEF ReplayCommand, Dequeue, redisVars, dbVars, faultVars
<1>2. HeadOf(e) \in queue[e] /\ HeadOf(e) \in Command
  BY <1>1, HeadProperty, Zenon DEF IInv, WellTyped, TypeOK
<1>3. /\ memory' \in [Engines -> Seq(Command)]
      /\ Executed(e)' = Executed(e) \cup {HeadOf(e)}
      /\ \A f \in Engines : f # e => memory'[f] = memory[f]
  BY <1>1, <1>2, ExecuteProperty, Zenon DEF IInv
<1>4. /\ queue' \in [Engines -> SUBSET Command]
      /\ queue'[e] = queue[e] \ {HeadOf(e)}
      /\ \A f \in Engines : f # e => queue'[f] = queue[f]
  BY <1>1, Zenon DEF IInv, WellTyped, TypeOK
<1>5. \A f \in Engines : Executed(f) \subseteq Executed(f)'
  BY <1>3, Zenon DEF Executed
<1>6. WellTyped'
  <2>1. ASSUME NEW f \in Engines
        PROVE  /\ queue'[f] \subseteq 1..commands
               /\ pc[f] \in {"handle", "ack"} => queue'[f] # {}
    BY <1>1, <1>4, Zenon DEF IInv, WellTyped
  <2>2. TypeOK'
    BY <1>1, <1>3, <1>4, Zenon DEF IInv, WellTyped, TypeOK
  <2>3. \A f \in Engines : Owning(f)' <=> Owning(f)
    BY <1>1, Zenon DEF Owning
  <2> QED
    BY <1>1, <2>1, <2>2, <2>3, Zenon DEF IInv, WellTyped
<1>7. Tokens'
  BY <1>1, <1>5, Zenon DEF IInv, Tokens
<1>8. CaughtUp'
  <2> SUFFICES ASSUME "replay" \notin faultModel,
                      NEW f \in Engines, NEW i \in DOMAIN projected,
                      projected[i].token < token[f]
               PROVE  /\ pc[f] = "replaying" =>
                           projected[i].cmd \in Executed(f)' \cup queue'[f]
                      /\ Replayed(f) => projected[i].cmd \in Executed(f)'
    BY <1>1, Zenon DEF CaughtUp, Replayed
  <2>1. /\ pc[f] = "replaying" => projected[i].cmd \in Executed(f) \cup queue[f]
        /\ Replayed(f) => projected[i].cmd \in Executed(f)
    BY Zenon DEF IInv, CaughtUp
  <2>2. Executed(f) \cup queue[f] \subseteq Executed(f)' \cup queue'[f]
    BY <1>3, <1>4, <1>5, Zenon
  <2> QED
    BY <1>5, <2>1, <2>2, Zenon
<1>9. NothingTwice' /\ AppliedAtMostOnce' /\ TokensNondecreasing' /\ LeaseHeld'
  BY <1>1, Zenon DEF IInv, NothingTwice, AppliedAtMostOnce, TokensNondecreasing,
     LeaseHeld,
                     Punctual
<1>10. InStep' /\ InPartitionOrder'
  <2>1. ASSUME CrashOnly, NEW f \in Engines PROVE Complete(f)'
    <3>1. Complete(f)
      BY <2>1, Zenon DEF IInv, InStep
    <3>2. CASE f # e
      BY <1>1, <1>3, <1>4, <3>1, <3>2, Zenon DEF Complete, Executed, HeadOf
    <3>3. CASE f = e
      BY <1>1, <1>2, <1>3, <1>4, <3>1, <3>3, Zenon DEF Complete
    <3> QED
      BY <3>2, <3>3, Zenon
  <2>2. ASSUME CrashOnly PROVE InPartitionOrder'
    <3>1. \A d \in queue[e] : 1..d \subseteq Executed(e) \cup queue[e]
      BY <1>1, <2>2, Zenon DEF IInv, InStep, Complete
    <3> QED
      BY <1>1, <2>2, <3>1, ExecuteInOrder, Zenon
  <2> QED
    BY <1>1, <2>1, <2>2, Zenon DEF InStep, InPartitionOrder, CrashOnly
<1> QED
  BY <1>6, <1>7, <1>8, <1>9, <1>10, Zenon DEF IInv

\* A command is executed, and its event emitted, only if it is not in the
\* memory.
LEMMA HandleKeeps ==
  ASSUME IInv, NEW e \in Engines, Handle(e) PROVE IInv'
<1> DEFINE c == HeadOf(e)
           ev == [cmd |-> c, token |-> token[e]]
<1>1. /\ UNCHANGED <<token, fencing, projected, seen, faultModel>>
      /\ UNCHANGED <<lease, commands, delivered, pending, stopping, canceled, queue>>
      /\ pc[e] = "handle"
      /\ Execute(e, c)
      /\ events' = IF c \in Executed(e) THEN events ELSE Append(events, ev)
      /\ pc' = [pc EXCEPT ![e] = "ack"]
  BY Zenon DEF Handle, Goto, dbVars, faultVars
<1>2. queue[e] # {} /\ c \in queue[e] /\ c \in Command /\ c <= commands
  <2>1. queue[e] # {}
    BY <1>1, Zenon DEF IInv, WellTyped
  <2>2. c \in queue[e]
    BY <2>1, HeadProperty, Zenon DEF IInv
  <2> QED
    BY <2>1, <2>2 DEF IInv, WellTyped, TypeOK
<1>3. /\ memory' \in [Engines -> Seq(Command)]
      /\ Executed(e)' = Executed(e) \cup {c}
      /\ \A f \in Engines : f # e => memory'[f] = memory[f]
  BY <1>1, <1>2, ExecuteProperty, Zenon DEF IInv
<1>4. \A f \in Engines : Executed(f) \subseteq Executed(f)'
  BY <1>3, Zenon DEF Executed
<1>5. /\ token[e] \in Nat \ {0} /\ token[e] <= fencing /\ fencing \in Nat
      /\ ev \in Event /\ ev.cmd = c /\ ev.token = token[e]
  <2>1. token[e] # 0
    BY <1>1, Zenon DEF IInv, WellTyped, Owning
  <2>2. token[e] \in 0..fencing /\ fencing \in Nat
    BY Zenon DEF IInv, WellTyped, TypeOK
  <2> QED
    BY <1>2, <2>1, <2>2 DEF Event
<1> HIDE DEF ev, c
<1>6. /\ events \in Seq(Event) /\ events' \in Seq(Event)
      /\ DOMAIN events = 1..Len(events) /\ DOMAIN events' = 1..Len(events')
      /\ Len(events) \in Nat
      /\ \A i \in DOMAIN events : i \in DOMAIN events' /\ events'[i] = events[i]
      /\ \A i \in DOMAIN events' : i \notin DOMAIN events =>
           i = Len(events) + 1 /\ events'[i] = ev /\ c \notin Executed(e)
  <2>1. events \in Seq(Event)
    BY Zenon DEF IInv, WellTyped, TypeOK
  <2>2. CASE c \in Executed(e)
    BY <1>1, <2>1, <2>2
  <2>3. CASE c \notin Executed(e)
    BY <1>1, <1>5, <2>1, <2>3
  <2> QED
    BY <2>2, <2>3, Zenon
<1>7. \A f \in Engines : pc'[f] = IF f = e THEN "ack" ELSE pc[f]
  BY <1>1, Zenon DEF IInv, WellTyped, TypeOK
<1>8. WellTyped'
  <2>1. pc' \in [Engines -> Labels]
    BY <1>1, Zenon DEF IInv, WellTyped, TypeOK, Labels
  <2>2. seen \in 0..Len(events')
    <3>1. Len(events') \in Nat /\ Len(events) <= Len(events')
      BY <1>6
    <3> QED
      BY <1>6, <3>1 DEF IInv, WellTyped, TypeOK
  <2>3. ASSUME NEW i \in DOMAIN events'
        PROVE  events'[i].cmd <= commands /\ events'[i].token <= fencing
    BY <1>2, <1>5, <1>6, Zenon DEF IInv, WellTyped
  <2>4. ASSUME NEW i \in DOMAIN projected
        PROVE  \E j \in DOMAIN events' : projected[i] = events'[j]
    BY <1>6, Zenon DEF IInv, WellTyped
  <2>5. ASSUME NEW f \in Engines
        PROVE  /\ Owning(f)' <=> Owning(f)
               /\ pc'[f] \in {"handle", "ack"} => queue[f] # {}
    BY <1>2, <1>7, <1>1 DEF IInv, WellTyped, Owning
  <2> QED
    BY <1>1, <1>3, <1>6, <2>1, <2>2, <2>3, <2>4, <2>5, Zenon
       DEF IInv, WellTyped, TypeOK, Labels
<1>9. Tokens'
  <2>1. ASSUME NEW f \in Engines, NEW i \in DOMAIN events',
               token[f] # 0, events'[i].token = token[f]
        PROVE  events'[i].cmd \in Executed(f)'
    <3>1. CASE i \in DOMAIN events
      BY <1>4, <1>6, <2>1, <3>1, Zenon DEF IInv, Tokens
    <3>2. CASE i \notin DOMAIN events
      <4>1. f = e
        BY <1>5, <1>6, <2>1, <3>2, Zenon DEF IInv, Tokens
      <4> QED
        BY <1>3, <1>5, <1>6, <3>2, <4>1, Zenon
    <3> QED
      BY <3>1, <3>2, Zenon
  <2>2. ASSUME NEW i \in DOMAIN events, NEW j \in DOMAIN events',
               j \notin DOMAIN events
        PROVE  events'[i] # events'[j]
    BY <1>5, <1>6, <2>2 DEF IInv, Tokens
  <2>3. ASSUME NEW i \in DOMAIN events', NEW j \in DOMAIN events', events'[i] = events'[j]
        PROVE  i = j
    BY <1>6, <2>2, <2>3, Zenon DEF IInv, Tokens
  <2> QED
    BY <1>1, <2>1, <2>3, Zenon DEF IInv, Tokens
<1>10. CaughtUp'
  <2> SUFFICES ASSUME "replay" \notin faultModel,
                      NEW f \in Engines, NEW i \in DOMAIN projected,
                      projected[i].token < token[f]
               PROVE  /\ pc'[f] = "replaying" =>
                           projected[i].cmd \in Executed(f)' \cup queue[f]
                      /\ Replayed(f)' => projected[i].cmd \in Executed(f)'
    BY <1>1, Zenon DEF CaughtUp
  <2>1. /\ pc[f] = "replaying" => projected[i].cmd \in Executed(f) \cup queue[f]
        /\ Replayed(f) => projected[i].cmd \in Executed(f)
    BY Zenon DEF IInv, CaughtUp
  <2>2. Replayed(f)' => Replayed(f)
    BY <1>1, <1>7, Zenon DEF Replayed
  <2> QED
    BY <1>4, <1>7, <2>1, <2>2, Zenon
<1>11. NothingTwice'
  <2> SUFFICES ASSUME "replay" \notin faultModel, NEW i \in DOMAIN projected,
                      NEW j \in (seen + 1)..Len(events'), events'[j].token = fencing
               PROVE  projected[i].cmd # events'[j].cmd
    BY <1>1, Zenon DEF NothingTwice
  <2>1. j \in DOMAIN events' /\ seen \in Nat
    BY <1>6 DEF IInv, WellTyped, TypeOK
  <2>2. CASE j \in DOMAIN events
    <3>1. j \in (seen + 1)..Len(events)
      BY <1>6, <2>1, <2>2
    <3> QED
      BY <1>6, <2>2, <3>1, Zenon DEF IInv, NothingTwice
  <2>3. CASE j \notin DOMAIN events
    <3>1. events'[j] = ev /\ token[e] = fencing /\ c \notin Executed(e)
      BY <1>5, <1>6, <2>1, <2>3, Zenon
    <3>2. projected[i].cmd \in Executed(e)
      <4>1. projected[i].token \in Nat /\ projected[i].token <= token[e]
        BY <3>1, AppliedInStream, Zenon DEF IInv, Event
      <4>2. CASE projected[i].token < token[e]
        BY <1>1, <4>2, Zenon DEF IInv, CaughtUp, Replayed
      <4>3. CASE projected[i].token = token[e]
        BY <1>5, <4>3 DEF IInv, WellTyped, Tokens
      <4> QED
        BY <1>5, <4>1, <4>2, <4>3
    <3> QED
      BY <1>5, <3>1, <3>2, Zenon
  <2> QED
    BY <2>2, <2>3, Zenon
<1>12. AppliedAtMostOnce' /\ TokensNondecreasing'
  BY <1>1, Zenon DEF IInv, AppliedAtMostOnce, TokensNondecreasing
<1>13. LeaseHeld'
  BY <1>1, <1>7, Zenon DEF IInv, LeaseHeld, Punctual
<1>14. InStep' /\ InPartitionOrder'
  <2>1. ASSUME CrashOnly, NEW f \in Engines PROVE Complete(f)'
    <3>1. Complete(f)
      BY <2>1, Zenon DEF IInv, InStep
    <3>2. CASE f # e
      BY <1>1, <1>3, <1>7, <3>1, <3>2, Zenon DEF Complete, Executed, HeadOf
    <3>3. CASE f = e
      BY <1>1, <1>2, <1>3, <1>7, <3>1, <3>3 DEF Complete, HeadOf, c
    <3> QED
      BY <3>2, <3>3, Zenon
  <2>2. ASSUME CrashOnly PROVE InPartitionOrder'
    <3>1. \A d \in queue[e] : 1..d \subseteq Executed(e) \cup queue[e]
      BY <1>1, <2>2, Zenon DEF IInv, InStep, Complete
    <3> QED
      BY <1>1, <1>2, <2>2, <3>1, ExecuteInOrder, Zenon DEF c
  <2> QED
    BY <1>1, <2>1, <2>2, Zenon DEF InStep, InPartitionOrder, CrashOnly
<1> QED
  BY <1>8, <1>9, <1>10, <1>11, <1>12, <1>13, <1>14, Zenon DEF IInv

-----------------------------------------------------------------------------
(* Clients and the DB worker *)

\* A client appends to the command stream.
LEMMA SendCommandKeeps ==
  ASSUME IInv, SendCommand PROVE IInv'
<1>1. /\ UNCHANGED dataVars
      /\ UNCHANGED <<lease, delivered, pending, pc, stopping, canceled, queue>>
      /\ commands < MaxCommands /\ commands' = commands + 1
  BY Zenon DEF SendCommand, engineVars, dbVars, faultVars, dataVars
<1>2. /\ commands' \in 0..MaxCommands /\ delivered \in 0..commands'
      /\ 1..commands \subseteq 1..commands'
      /\ \A i \in DOMAIN events : events[i].cmd <= commands'
  <2>1. MaxCommands \in Nat /\ commands \in 0..MaxCommands /\ delivered \in 0..commands
    BY OwnershipAssumption, Zenon DEF IInv, WellTyped, TypeOK
  <2>2. \A i \in DOMAIN events : events[i] \in Event /\ events[i].cmd <= commands
    BY DEF IInv, WellTyped, TypeOK
  <2>3. \A i \in DOMAIN events : events[i].cmd \in Nat
    BY <2>2 DEF Event, Command
  <2> QED
    BY <1>1, <2>1, <2>2, <2>3
<1>3. WellTyped'
  BY <1>1, <1>2, Zenon DEF IInv, WellTyped, TypeOK, Owning, dataVars
<1>4. CaughtUp' /\ LeaseHeld' /\ InStep'
  BY <1>1, Zenon DEF IInv, CaughtUp, LeaseHeld, InStep, Complete, Executed,
     Replayed,
                     HeadOf, Punctual, CrashOnly, dataVars
<1> QED
  BY <1>1, <1>3, <1>4, DataUnchanged, Zenon DEF IInv

\* The event that the DB worker applies is of the last token, so nobody else
\* has it applied.
LEMMA ProjectKeeps ==
  ASSUME IInv, Project PROVE IInv'
<1> DEFINE ev == events[seen + 1]
<1>1. /\ UNCHANGED <<lease, fencing, commands, delivered, pending, events>>
      /\ UNCHANGED <<pc, token, stopping, canceled, queue, memory, faultModel>>
      /\ seen < Len(events) /\ seen' = seen + 1
      /\ projected' = IF ev.token >= fencing THEN Append(projected, ev) ELSE projected
  BY Zenon DEF Project, fencingDecision, redisVars, engineVars, faultVars
<1>2. /\ events \in Seq(Event) /\ projected \in Seq(Event)
      /\ seen \in Nat /\ Len(events) \in Nat /\ fencing \in Nat
      /\ seen' \in 0..Len(events)
      /\ DOMAIN events = 1..Len(events) /\ seen + 1 \in DOMAIN events
  BY <1>1 DEF IInv, WellTyped, TypeOK
<1>3. ev \in Event /\ ev.token \in Nat /\ ev.token <= fencing
  <2>1. events[seen + 1] \in Event /\ events[seen + 1].token <= fencing
    BY <1>2 DEF IInv, WellTyped
  <2> QED
    BY <2>1, Zenon DEF Event
<1>4. seen + 1 \in (seen + 1)..Len(events)
      /\ (seen' + 1)..Len(events) \subseteq (seen + 1)..Len(events)
      /\ \A j \in (seen' + 1)..Len(events) : j \in DOMAIN events /\ j # seen + 1
  BY <1>1, <1>2
<1>5. events[seen + 1] = ev
  BY Zenon
<1> HIDE DEF ev
<1>6. /\ projected' \in Seq(Event)
      /\ \A i \in DOMAIN projected : i \in DOMAIN projected' /\ projected'[i] = projected[i]
      /\ \A i \in DOMAIN projected' : i \notin DOMAIN projected =>
           /\ i = Len(projected) + 1 /\ projected'[i] = ev /\ ev.token = fencing
           /\ \A j \in DOMAIN projected : j < i
      /\ \A i \in DOMAIN projected' : i \in Nat
  <2>1. CASE ev.token >= fencing
    <3>1. projected' = Append(projected, ev) /\ ev.token = fencing
      BY <1>1, <1>2, <1>3, <2>1
    <3> QED
      BY <1>2, <1>3, <3>1
  <2>2. CASE ~(ev.token >= fencing)
    BY <1>1, <1>2, <2>2
  <2> QED
    BY <2>1, <2>2, Zenon
<1>7. WellTyped'
  <2>1. ASSUME NEW i \in DOMAIN projected'
        PROVE  \E j \in DOMAIN events : projected'[i] = events[j]
    BY <1>2, <1>5, <1>6 DEF IInv, WellTyped
  <2> QED
    BY <1>1, <1>2, <1>6, <2>1, Zenon DEF IInv, WellTyped, TypeOK, Owning
<1>8. Tokens' /\ LeaseHeld' /\ InStep' /\ InPartitionOrder'
  BY <1>1, Zenon DEF IInv, Tokens, LeaseHeld, InStep, InPartitionOrder, Complete,
     Executed,
                     HeadOf, Punctual, CrashOnly
<1>9. CaughtUp'
  <2> SUFFICES ASSUME "replay" \notin faultModel,
                      NEW f \in Engines, NEW i \in DOMAIN projected',
                      projected'[i].token < token[f]
               PROVE  /\ pc[f] = "replaying" =>
                           projected'[i].cmd \in Executed(f) \cup queue[f]
                      /\ Replayed(f) => projected'[i].cmd \in Executed(f)
    BY <1>1, Zenon DEF CaughtUp, Replayed, Executed
  <2>1. i \in DOMAIN projected
    <3>1. token[f] \in 0..fencing
      BY Zenon DEF IInv, WellTyped, TypeOK
    <3> QED
      BY <1>2, <1>6, <3>1
  <2> QED
    BY <1>6, <2>1, Zenon DEF IInv, CaughtUp
<1>10. NothingTwice'
  <2> SUFFICES ASSUME "replay" \notin faultModel, NEW i \in DOMAIN projected',
                      NEW j \in (seen' + 1)..Len(events), events[j].token = fencing
               PROVE  projected'[i].cmd # events[j].cmd
    BY <1>1, Zenon DEF NothingTwice
  <2>1. CASE i \in DOMAIN projected
    BY <1>4, <1>6, <2>1, Zenon DEF IInv, NothingTwice
  <2>2. CASE i \notin DOMAIN projected
    <3>1. projected'[i] = ev /\ ev.token = fencing
      BY <1>6, <2>2, Zenon
    <3>2. events[j] # ev
      BY <1>2, <1>4, <1>5, Zenon DEF IInv, Tokens
    <3>3. events[j] \in Event
      <4>1. j \in 1..Len(events)
        BY <1>1, <1>2
      <4> QED
        BY <1>2, <4>1, ElementOfSeq, Zenon
    <3> QED
      BY <1>3, <3>1, <3>2, <3>3 DEF Event
  <2> QED
    BY <2>1, <2>2, Zenon
<1>11. AppliedAtMostOnce'
  <2> SUFFICES ASSUME "replay" \notin faultModel,
                      NEW i \in DOMAIN projected', NEW j \in DOMAIN projected',
                      projected'[i].cmd = projected'[j].cmd
               PROVE  i = j
    BY <1>1, Zenon DEF AppliedAtMostOnce
  <2>1. \A k \in DOMAIN projected : ev.token = fencing => projected[k].cmd # ev.cmd
    BY <1>4, <1>5, Zenon DEF IInv, NothingTwice
  <2> QED
    BY <1>6, <2>1, Zenon DEF IInv, AppliedAtMostOnce
<1>12. TokensNondecreasing'
  <2> SUFFICES ASSUME NEW i \in DOMAIN projected', NEW j \in DOMAIN projected', i < j
               PROVE  projected'[i].token <= projected'[j].token
    BY Zenon DEF TokensNondecreasing
  <2>1. CASE j \in DOMAIN projected
    <3>1. i \in DOMAIN projected
      BY <1>6, <2>1
    <3> QED
      BY <1>6, <2>1, <3>1, Zenon DEF IInv, TokensNondecreasing
  <2>2. CASE j \notin DOMAIN projected
    <3>1. projected'[j].token = fencing /\ i \in DOMAIN projected
      BY <1>6, <2>2
    <3>2. projected[i].token <= fencing
      BY <3>1, AppliedInStream, Zenon DEF IInv
    <3> QED
      BY <1>6, <3>1, <3>2, Zenon
  <2> QED
    BY <2>1, <2>2, Zenon
<1> QED
  BY <1>7, <1>8, <1>9, <1>10, <1>11, <1>12, Zenon DEF IInv

-----------------------------------------------------------------------------
(* The invariant *)

\* Every step keeps the invariant.
LEMMA NextKeeps == IInv /\ [Next]_vars => IInv'
<1> SUFFICES ASSUME IInv, [Next]_vars PROVE IInv'
  BY Zenon
<1>1. ASSUME NEW e \in Engines, runPartition(e) PROVE IInv'
  BY <1>1, AcquireKeeps, FenceKeeps, ReleaseKeeps, ReplayRangeKeeps,
     ReplayFailsKeeps,
     ReplayCommandKeeps, FinishReplayKeeps, ClaimKeeps, ReadGroupKeeps, StopReadingKeeps,
     HandleKeeps, AckKeeps, ProcessEndsKeeps, Zenon DEF runPartition
<1>2. ASSUME NEW e \in Engines,
             \/ LoseLease(e) \/ AcquireFails(e) \/ FenceFails(e)
             \/ Crash(e) \/ Shutdown(e) \/ Restart(e)
      PROVE  IInv'
  BY <1>2, LoseLeaseKeeps, AcquireFailsKeeps, FenceFailsKeeps, ProcessEndsKeeps,
     ShutdownKeeps, RestartKeeps, Zenon
<1>3. ASSUME SendCommand \/ Project \/ Lapse \/ LapseSlow PROVE IInv'
  BY <1>3, SendCommandKeeps, ProjectKeeps, LapseKeeps, Zenon
<1>4. CASE UNCHANGED vars
  <2>1. /\ UNCHANGED dataVars
        /\ UNCHANGED <<lease, commands, delivered, pending, pc, stopping, canceled, queue>>
    BY <1>4, Zenon DEF vars, redisVars, engineVars, dbVars, faultVars, dataVars
  <2>2. WellTyped'
    BY <2>1, Zenon DEF IInv, WellTyped, TypeOK, Owning, dataVars
  <2>3. CaughtUp' /\ LeaseHeld' /\ InStep'
    BY <2>1, Zenon DEF IInv, CaughtUp, LeaseHeld, InStep, Complete, Executed,
       Replayed,
                       HeadOf, Punctual, CrashOnly, dataVars
  <2> QED
    BY <2>1, <2>2, <2>3, DataUnchanged, Zenon DEF IInv
<1> QED
  BY <1>1, <1>2, <1>3, <1>4, Zenon DEF Next

\* IInv holds in every reachable state.
LEMMA Invariance == Spec => []IInv
  BY InitHolds, NextKeeps, PTL DEF Spec

(* Crashes, lost replies and slow holders included, no engine has a token  *)
(* that was not issued or queues an entry that was not sent, and the DB    *)
(* worker reads no further than the stream goes.                           *)
THEOREM OwnershipTypes == Spec => []TypeOK
<1>1. IInv => TypeOK
  BY Zenon DEF IInv, WellTyped
<1> QED
  BY <1>1, Invariance, PTL

(* Whatever crashes and shutdowns happen between the steps of              *)
(* runPartition, the commands that an engine has executed by replay, by    *)
(* XAUTOCLAIM or live are the first of the stream, in its order.           *)
THEOREM CommandsInOrder == Spec => []InPartitionOrder
<1>1. IInv => InPartitionOrder
  BY Zenon DEF IInv
<1> QED
  BY <1>1, Invariance, PTL

(* Unless a replay fails, no command takes effect twice in the database,   *)
(* although leases lapse under slow holders and calls to Redis fail: of    *)
(* two events for it one has a stale token (fencingDecision).              *)
THEOREM NoDuplicateApplied == Spec => []AppliedAtMostOnce
<1>1. IInv => AppliedAtMostOnce
  BY Zenon DEF IInv
<1> QED
  BY <1>1, Invariance, PTL

(* Whichever faults happen, the database applies no event of an older      *)
(* owner after one of a newer owner.                                       *)
THEOREM StaleOwnersFencedOff == Spec => []TokensNondecreasing
<1>1. IInv => TokensNondecreasing
  BY Zenon DEF IInv
<1> QED
  BY <1>1, Invariance, PTL

-----------------------------------------------------------------------------
(* The refinement *)

\* The owner of the abstract specification is the engine that has a token.
LEMMA OwnerProperty ==
  ASSUME IInv, Punctual
  PROVE  /\ \A e \in Engines : token[e] # 0 => Owner = e
         /\ (\A e \in Engines : token[e] = 0) => Owner = NoOne
<1>1. \A e, f \in Engines : token[e] # 0 /\ token[f] # 0 => e = f
  BY Zenon DEF IInv, WellTyped, Owning, LeaseHeld
<1>2. ASSUME NEW e \in Engines, token[e] # 0 PROVE Owner = e
  <2>1. \E f \in Engines : token[f] # 0
    BY <1>2, Zenon
  <2>2. Owner = CHOOSE f \in Engines : token[f] # 0
    BY <2>1, Zenon DEF Owner
  <2>3. (CHOOSE f \in Engines : token[f] # 0) \in Engines
        /\ token[CHOOSE f \in Engines : token[f] # 0] # 0
    BY <2>1, Zenon
  <2> QED
    BY <1>1, <1>2, <2>2, <2>3, Zenon
<1> QED
  BY <1>2, Zenon DEF Owner

\* What a step does to tokens, the counter and the events.
LEMMA StepKinds ==
  ASSUME Next
  PROVE  /\ faultModel' = faultModel
         /\ \/ UNCHANGED <<token, fencing, events>>
            \/ \E e \in Engines : Fence(e)
            \/ \E e \in Engines :
                 FenceFails(e) /\ fencing' = fencing + 1 /\ UNCHANGED <<token, events>>
            \/ \E e \in Engines :
                 /\ pc[e] = "handle"
                 /\ events' = Append(events, [cmd |-> HeadOf(e), token |-> token[e]])
                 /\ UNCHANGED <<token, fencing>>
            \/ \E e \in Engines :
                 token' = [token EXCEPT ![e] = 0] /\ UNCHANGED <<fencing, events>>
<1>1. CASE SendCommand \/ Project \/ Lapse \/ LapseSlow
  BY <1>1, Zenon DEF SendCommand, Project, Lapse, LapseSlow, Expires, Fault,
     redisVars,
                     engineVars, dbVars, faultVars
<1>2. ASSUME NEW e \in Engines,
             \/ Acquire(e) \/ ReplayRange(e) \/ ReplayFails(e) \/ ReplayCommand(e)
             \/ FinishReplay(e) \/ Claim(e) \/ ReadGroup(e) \/ StopReading(e) \/ Ack(e)
             \/ LoseLease(e) \/ AcquireFails(e) \/ Shutdown(e) \/ Restart(e)
      PROVE  faultModel' = faultModel /\ UNCHANGED <<token, fencing, events>>
  BY <1>2, Zenon DEF Acquire, Acquire_steal, ReplayRange, ReplayEntries,
     ReplayFails,
       ReplayCommand, FinishReplay, Claim, ReadGroup, StopReading, Ack, LoseLease,
       AcquireFails, Shutdown, Restart, Fault, redisVars, engineVars, dbVars, faultVars
<1>3. ASSUME NEW e \in Engines, Fence(e) PROVE faultModel' = faultModel
  BY <1>3, Zenon DEF Fence, Own, faultVars
<1>4. ASSUME NEW e \in Engines, FenceFails(e)
      PROVE  /\ faultModel' = faultModel /\ UNCHANGED <<token, events>>
             /\ fencing' = fencing \/ fencing' = fencing + 1
  BY <1>4, Zenon DEF FenceFails, Fault
<1>5. ASSUME NEW e \in Engines, Handle(e)
      PROVE  /\ faultModel' = faultModel /\ UNCHANGED <<token, fencing>>
             /\ pc[e] = "handle"
             /\ \/ events' = events
                \/ events' = Append(events, [cmd |-> HeadOf(e), token |-> token[e]])
  BY <1>5, Zenon DEF Handle, faultVars
<1>6. ASSUME NEW e \in Engines, Release(e) \/ Crash(e) \/ Stopped(e)
      PROVE  /\ faultModel' = faultModel /\ UNCHANGED <<fencing, events>>
             /\ token' = [token EXCEPT ![e] = 0]
  BY <1>6, Zenon DEF Release, Crash, Stopped, ProcessEnds, Fault, redisVars,
     faultVars
<1> QED
  BY <1>1, <1>2, <1>3, <1>4, <1>5, <1>6, Zenon DEF Next, runPartition

(* As long as live holders renew their leases in time, a partition has one *)
(* owner at a time, whose token is larger than all before it and is on the *)
(* events that are emitted (SetPartitionToken, emitEventP).                *)
THEOREM ImplementsSingleOwner == Spec => OwnedByOne
<1>1. Init => Ownership!Init
  BY DEF Init, Ownership!Init, Owner, Epoch, EpochsWritten
<1>2. IInv /\ IInv' /\ [Next]_vars => [Ownership!Next]_(Ownership!vars)
  <2> SUFFICES ASSUME IInv, IInv', [Next]_vars
               PROVE  [Ownership!Next]_(Ownership!vars)
    BY Zenon
  <2>1. CASE UNCHANGED vars
    BY <2>1, Zenon DEF vars, redisVars, engineVars, faultVars, Ownership!vars,
       Owner, Epoch,
                       EpochsWritten, Punctual
  <2>2. CASE Next /\ ~Punctual
    BY <2>2, StepKinds, Zenon DEF Ownership!vars, Owner, Epoch, EpochsWritten,
       Punctual
  <2>3. CASE Next /\ Punctual
    <3>1. Punctual /\ Punctual'
      BY <2>3, StepKinds, Zenon DEF Punctual
    <3>2. /\ Epoch = fencing /\ Epoch' = fencing'
          /\ EpochsWritten = [i \in DOMAIN events |-> events[i].token]
          /\ EpochsWritten' = [i \in DOMAIN events' |-> events'[i].token]
      BY <3>1, Zenon DEF Epoch, EpochsWritten
    <3>3. /\ \A e \in Engines : token[e] # 0 => Owner = e
          /\ (\A e \in Engines : token[e] = 0) => Owner = NoOne
      BY <3>1, OwnerProperty, Zenon
    <3>4. /\ \A e \in Engines : token'[e] # 0 => Owner' = e
          /\ (\A e \in Engines : token'[e] = 0) => Owner' = NoOne
      <4>1. \A e, f \in Engines : token'[e] # 0 /\ token'[f] # 0 => e = f
        BY <3>1, Zenon DEF IInv, WellTyped, Owning, LeaseHeld
      <4> QED
        BY <3>1, <4>1, Zenon DEF Owner
    <3>5. CASE UNCHANGED <<token, fencing, events>>
      BY <3>1, <3>2, <3>5, Zenon DEF Ownership!vars, Owner
    <3>6. ASSUME NEW e \in Engines, Fence(e) PROVE Ownership!Acquire(e)
      <4>1. /\ pc[e] = "fence" /\ UNCHANGED events
            /\ fencing' = fencing + 1 /\ token' = [token EXCEPT ![e] = fencing']
        BY <3>6, Zenon DEF Fence, Own
      <4>2. \A f \in Engines : token[f] = 0
        BY <3>1, <4>1 DEF IInv, WellTyped, Owning, LeaseHeld
      <4>3. token'[e] # 0
        BY <4>1 DEF IInv, WellTyped, TypeOK
      <4> QED
        BY <3>2, <3>3, <3>4, <4>1, <4>2, <4>3, Zenon DEF Ownership!Acquire
    <3>7. ASSUME NEW e \in Engines,
                 FenceFails(e), fencing' = fencing + 1, UNCHANGED <<token, events>>
          PROVE  Ownership!WasteEpoch
      <4>1. pc[e] = "fence"
        BY <3>7, Zenon DEF FenceFails
      <4>2. \A f \in Engines : token[f] = 0
        BY <3>1, <4>1 DEF IInv, WellTyped, Owning, LeaseHeld
      <4> QED
        BY <3>2, <3>3, <3>4, <3>7, <4>2, Zenon DEF Ownership!WasteEpoch
    <3>8. ASSUME NEW e \in Engines, pc[e] = "handle",
                 events' = Append(events, [cmd |-> HeadOf(e), token |-> token[e]]),
                 UNCHANGED <<token, fencing>>
          PROVE  Ownership!Write
      <4>1. token[e] # 0 /\ token[e] = fencing
        BY <3>1, <3>8, Zenon DEF IInv, WellTyped, Owning, LeaseHeld
      <4>2. Owner = e /\ Owner' = e /\ e # NoOne
        BY <3>3, <3>4, <3>8, <4>1, OwnershipAssumption, Zenon
      <4>3. EpochsWritten' = Append(EpochsWritten, fencing)
        <5>1. events \in Seq(Event)
          BY Zenon DEF IInv, WellTyped, TypeOK
        <5> QED
          BY <3>2, <3>8, <4>1, <5>1
      <4> QED
        BY <3>2, <3>8, <4>2, <4>3, Zenon DEF Ownership!Write
    <3>9. ASSUME NEW e \in Engines,
                 token' = [token EXCEPT ![e] = 0], UNCHANGED <<fencing, events>>
          PROVE  Ownership!Yield \/ UNCHANGED Ownership!vars
      <4>1. token \in [Engines -> 0..fencing]
        BY Zenon DEF IInv, WellTyped, TypeOK
      <4>2. CASE token[e] = 0
        <5>1. token' = token
          BY <3>9, <4>1, <4>2, Zenon
        <5> QED
          BY <3>1, <3>2, <3>9, <5>1, Zenon DEF Ownership!vars, Owner
      <4>3. CASE token[e] # 0
        <5>1. \A f \in Engines : f # e => token[f] = 0
          BY <3>3, <4>3, Zenon
        <5>2. \A f \in Engines : token'[f] = 0
          BY <3>9, <4>1, <5>1, Zenon
        <5> QED
          BY <3>2, <3>4, <3>9, <5>2, Zenon DEF Ownership!Yield
      <4> QED
        BY <4>2, <4>3, Zenon
    <3> QED
      BY <2>3, <3>5, <3>6, <3>7, <3>8, <3>9, StepKinds, Zenon DEF Ownership!Next
  <2> QED
    BY <2>1, <2>2, <2>3, Zenon
<1> QED
  BY <1>1, <1>2, Invariance, PTL DEF Spec, OwnedByOne, Ownership!Spec
=============================================================================
