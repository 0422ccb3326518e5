------------------------------- MODULE Outbox -------------------------------
(***************************************************************************)
(* How the engine publishes an event: emitEventP stamps an envelope,       *)
(* journals it on disk, appends it to the events:out stream, publishes     *)
(* trades to the WebSocket channel and truncates the journal               *)
(* (internal/engine/engine.go, outbox.go).  Every partition worker emits,  *)
(* one at a time under emitMu; Redis calls and the file system may fail,   *)
(* the process may crash between any two calls, and Start republishes what *)
(* the journal still holds before the workers run.                         *)
(*                                                                         *)
(* An envelope is identified by its partition and the number n of the      *)
(* emission (in the code, by its payload); sequence is the counter value   *)
(* it is stamped with.  A call to Redis that returns an error may still    *)
(* have been executed.                                                     *)
(***************************************************************************)
EXTENDS Integers, Sequences, Functions

CONSTANTS
    Partitions,     \* the partition workers of the engine process
    Types,          \* the event types they emit
    FaultModels,    \* sets of the kinds of fault that may happen together
    MaxEmits,       \* bound on the emissions of a partition
    MaxFaults,      \* bound on the faults and shutdowns of a behaviour
    Fragment, Corrupt, NoOne

Envelope == [partition : Partitions, n : 1..MaxEmits,
             sequence : 1..MaxEmits, type : Types]

\* A line of the journal.  A write that failed half way leaves a fragment
\* without a newline, and the next line is glued to it: neither decodes.
Line == Envelope \cup {Fragment, Corrupt}

ASSUME OutboxAssumption ==
    /\ Types \subseteq {"ORDER_CREATED", "ORDER_CANCELED", "TRADE_EXECUTED"}
    /\ FaultModels \subseteq SUBSET {"crash", "redis", "file"}
    /\ MaxEmits \in Nat
    /\ MaxFaults \in Nat
    /\ NoOne \notin Partitions
    /\ Fragment \notin Envelope /\ Corrupt \notin Envelope

VARIABLES
    faultModel,     \* the kinds of fault of this behaviour
    engine,         \* "down", "recovering" or "running"
    journal,        \* the lines of the outbox file
    stream,         \* events:out
    published,      \* what reached the WebSocket channel
    emitMu,         \* the partition whose emission holds e.emitMu
    pc,             \* where each worker is in emitEventP
    cur,            \* the envelope it emits
    partitionSeq,   \* e.partitionSeq
    todo,           \* the lines Recover has still to republish
    pushed,         \* whether Recover has appended the first of them already
    emitted,        \* history: how many emissions a partition has begun
    journaled,      \* history: the envelopes Append has written and synced
    succeeded,      \* history: the envelopes emitEventP returned nil for
    faults          \* history: how many faults and stops have happened

redis == <<stream, published>>

workers == <<emitMu, pc, cur, partitionSeq>>

recovery == <<todo, pushed>>

history == <<emitted, journaled, succeeded>>

faultVars == <<faultModel, faults>>

vars == <<engine, journal, redis, workers, recovery, history, faultVars>>

Idle == [p \in Partitions |-> "idle"]

Init ==
    /\ faultModel \in FaultModels
    /\ engine = "running"
    /\ journal = <<>>
    /\ stream = <<>>
    /\ published = {}
    /\ emitMu = NoOne
    /\ pc = Idle
    /\ cur = [p \in Partitions |-> NoOne]
    /\ partitionSeq = [p \in Partitions |-> 0]
    /\ todo = <<>>
    /\ pushed = FALSE
    /\ emitted = [p \in Partitions |-> 0]
    /\ journaled = {}
    /\ succeeded = {}
    /\ faults = 0

Fault(kind) ==
    /\ kind \in faultModel
    /\ faults < MaxFaults
    /\ faults' = faults + 1
    /\ UNCHANGED faultModel

IsBroadcast(x) == x.type = "TRADE_EXECUTED"

Envelopes(lines) == Range(lines) \ {Fragment, Corrupt}

\* The file is opened with O_APPEND, and nothing ever terminates a fragment.
AppendLine(lines, line) ==
    IF lines # <<>> /\ lines[Len(lines)] = Fragment
    THEN [lines EXCEPT ![Len(lines)] = Corrupt]
    ELSE Append(lines, line)

-----------------------------------------------------------------------------
(* emitEventP *)

StampEnvelope_early(p) ==
    /\ engine # "down"
    /\ pc[p] = "idle"
    /\ emitted[p] < MaxEmits
    /\ emitted' = [emitted EXCEPT ![p] = @ + 1]
    /\ partitionSeq' = [partitionSeq EXCEPT ![p] = @ + 1]
    /\ \E type \in Types :
         cur' = [cur EXCEPT ![p] = [partition |-> p, n |-> emitted'[p],
                                    sequence |-> partitionSeq'[p],
                                    type |-> type]]
    /\ pc' = [pc EXCEPT ![p] = "stamped"]
    /\ UNCHANGED <<engine, journal, redis, emitMu, recovery, journaled,
                   succeeded, faultVars>>

\* The sequence number is taken before emitMu is.
StampEnvelope(p) ==
    /\ engine = "running"
    /\ pc[p] = "idle"
    /\ emitted[p] < MaxEmits
    /\ emitted' = [emitted EXCEPT ![p] = @ + 1]
    /\ partitionSeq' = [partitionSeq EXCEPT ![p] = @ + 1]
    /\ \E type \in Types :
         cur' = [cur EXCEPT ![p] = [partition |-> p, n |-> emitted'[p],
                                    sequence |-> partitionSeq'[p],
                                    type |-> type]]
    /\ pc' = [pc EXCEPT ![p] = "stamped"]
    /\ UNCHANGED <<engine, journal, redis, emitMu, recovery, journaled,
                   succeeded, faultVars>>

\* The error paths: emitMu is released and the caller told.
ReturnError(p) ==
    /\ emitMu' = NoOne
    /\ pc' = [pc EXCEPT ![p] = "idle"]
    /\ UNCHANGED <<engine, cur, partitionSeq, recovery, emitted, succeeded>>

AppendEnvelope_unlocked(p) ==
    /\ pc[p] = "stamped"
    /\ emitMu' = p
    /\ journal' = AppendLine(journal, cur[p])
    /\ journaled' = journaled \cup {cur[p]}
    /\ pc' = [pc EXCEPT ![p] = "journaled"]
    /\ UNCHANGED <<engine, redis, cur, partitionSeq, recovery, emitted,
                   succeeded, faultVars>>

AppendEnvelope(p) == emitMu = NoOne /\ AppendEnvelope_unlocked(p)

\* Write fails and leaves nothing or a fragment, or Sync fails after it.
AppendFails(p) ==
    /\ Fault("file")
    /\ pc[p] = "stamped"
    /\ emitMu = NoOne
    /\ journal' \in {journal, AppendLine(journal, Fragment),
                     AppendLine(journal, cur[p])}
    /\ ReturnError(p)
    /\ UNCHANGED <<redis, journaled>>

XAddEventTo(p, next) ==
    /\ pc[p] = "journaled"
    /\ stream' = Append(stream, cur[p])
    /\ pc' = [pc EXCEPT ![p] = next]
    /\ UNCHANGED <<engine, journal, published, emitMu, cur, partitionSeq,
                   recovery, history, faultVars>>

XAddEvent_publishAll(p) == XAddEventTo(p, "streamed")

XAddEvent_publishNone(p) == XAddEventTo(p, "accepted")

XAddEvent(p) ==
    XAddEventTo(p, IF IsBroadcast(cur[p]) THEN "streamed" ELSE "accepted")

XAddFails(p) ==
    /\ Fault("redis")
    /\ pc[p] = "journaled"
    /\ stream' \in {stream, Append(stream, cur[p])}
    /\ ReturnError(p)
    /\ UNCHANGED <<journal, published, journaled>>

PublishTrade(p) ==
    /\ pc[p] = "streamed"
    /\ published' = published \cup {cur[p]}
    /\ pc' = [pc EXCEPT ![p] = "accepted"]
    /\ UNCHANGED <<engine, journal, stream, emitMu, cur, partitionSeq,
                   recovery, history, faultVars>>

PublishFails(p) ==
    /\ Fault("redis")
    /\ pc[p] = "streamed"
    /\ published' \in {published, published \cup {cur[p]}}
    /\ ReturnError(p)
    /\ UNCHANGED <<journal, stream, journaled>>

\* Reset truncates the whole file; its own error is ignored.
DropFromJournal(p) ==
    /\ pc[p] = "accepted"
    /\ \/ journal' = <<>> /\ UNCHANGED faultVars
       \/ journal' = journal /\ Fault("file")
    /\ emitMu' = NoOne
    /\ pc' = [pc EXCEPT ![p] = "idle"]
    /\ succeeded' = succeeded \cup {cur[p]}
    /\ UNCHANGED <<engine, redis, cur, partitionSeq, recovery, emitted,
                   journaled>>

-----------------------------------------------------------------------------
(* Crash, shutdown, Start and Recover *)

\* The file and Redis survive; the sequence counters are in memory.
ProcessEnds ==
    /\ engine' = "down"
    /\ emitMu' = NoOne
    /\ pc' = Idle
    /\ cur' = [p \in Partitions |-> NoOne]
    /\ partitionSeq' = [p \in Partitions |-> 0]
    /\ todo' = <<>>
    /\ pushed' = FALSE
    /\ UNCHANGED <<journal, redis, history>>

Crash ==
    /\ Fault("crash")
    /\ engine # "down"
    /\ ProcessEnds

\* Shutdown waits for the workers, and they finish the emission they are in:
\* it uses context.Background.
Shutdown ==
    /\ Fault("crash")
    /\ engine = "running"
    /\ pc = Idle
    /\ ProcessEnds

Start_unrecovered ==
    /\ engine = "down"
    /\ engine' = "running"
    /\ UNCHANGED <<journal, redis, workers, recovery, history, faultVars>>

\* Recover reads the journal; if it cannot, Start goes on without it.
Start ==
    /\ engine = "down"
    /\ \/ /\ todo' = journal
          /\ engine' = IF journal = <<>> THEN "running" ELSE "recovering"
          /\ UNCHANGED faultVars
       \/ /\ Fault("file")
          /\ todo' = <<>>
          /\ engine' = "running"
    /\ UNCHANGED <<journal, redis, workers, pushed, history>>

\* republishEnvelope of one line: XADD, then PUBLISH for a trade.  A line
\* that does not decode is skipped.
RepublishEvent ==
    /\ engine = "recovering"
    /\ todo # <<>>
    /\ ~pushed
    /\ IF Head(todo) \in {Fragment, Corrupt}
       THEN UNCHANGED <<stream, pushed>> /\ todo' = Tail(todo)
       ELSE /\ stream' = Append(stream, Head(todo))
            /\ pushed' = IsBroadcast(Head(todo))
            /\ todo' = IF pushed' THEN todo ELSE Tail(todo)
    /\ UNCHANGED <<engine, journal, published, workers, history, faultVars>>

RepublishTrade ==
    /\ engine = "recovering"
    /\ pushed
    /\ published' = published \cup {Head(todo)}
    /\ pushed' = FALSE
    /\ todo' = Tail(todo)
    /\ UNCHANGED <<engine, journal, stream, workers, history, faultVars>>

RepublishFails_resets ==
    /\ Fault("redis")
    /\ engine = "recovering"
    /\ todo # <<>>
    /\ engine' = "running"
    /\ journal' = <<>>
    /\ todo' = <<>>
    /\ pushed' = FALSE
    /\ UNCHANGED <<redis, workers, history>>

\* The first error ends Recover with the journal as it was; Start logs it.
RepublishFails ==
    /\ Fault("redis")
    /\ engine = "recovering"
    /\ todo # <<>>
    /\ Head(todo) \notin {Fragment, Corrupt}
    /\ \/ UNCHANGED redis
       \/ ~pushed /\ stream' = Append(stream, Head(todo)) /\ UNCHANGED published
       \/ pushed /\ published' = published \cup {Head(todo)} /\ UNCHANGED stream
    /\ engine' = "running"
    /\ todo' = <<>>
    /\ pushed' = FALSE
    /\ UNCHANGED <<journal, workers, history>>

FinishRecover ==
    /\ engine = "recovering"
    /\ todo = <<>>
    /\ \/ journal' = <<>> /\ UNCHANGED faultVars
       \/ journal' = journal /\ Fault("file")
    /\ engine' = "running"
    /\ UNCHANGED <<redis, workers, recovery, history>>

-----------------------------------------------------------------------------
emitEventP(p) ==
    \/ StampEnvelope(p)
    \/ AppendEnvelope(p)
    \/ XAddEvent(p)
    \/ PublishTrade(p)
    \/ DropFromJournal(p)

Recover == RepublishEvent \/ RepublishTrade \/ FinishRecover

Next ==
    \/ \E p \in Partitions :
         emitEventP(p) \/ AppendFails(p) \/ XAddFails(p) \/ PublishFails(p)
    \/ Crash \/ Shutdown \/ Start
    \/ Recover \/ RepublishFails

(* The scheduler runs every goroutine, and a supervisor restarts the       *)
(* engine.  An emission that has begun waits for emitMu, a Go mutex, which *)
(* is starvation free: hence strong fairness on taking it.                 *)
Fairness ==
    /\ WF_vars(Start)
    /\ WF_vars(Recover)
    /\ \A p \in Partitions :
         /\ SF_vars(AppendEnvelope(p))
         /\ WF_vars(XAddEvent(p) \/ PublishTrade(p) \/ DropFromJournal(p))

Spec == Init /\ [][Next]_vars /\ Fairness

-----------------------------------------------------------------------------
(* Properties *)

\* Behaviours in which the process may stop anywhere, but Redis and the file
\* system answer.
Reliable == faultModel \subseteq {"crash"}

TypeOK ==
    /\ engine \in {"down", "recovering", "running"}
    /\ journal \in Seq(Line) /\ todo \in Seq(Line)
    /\ stream \in Seq(Envelope)
    /\ published \subseteq {x \in Envelope : IsBroadcast(x)}
    /\ emitMu \in Partitions \cup {NoOne}
    /\ pc \in [Partitions ->
                {"idle", "stamped", "journaled", "streamed", "accepted"}]
    /\ cur \in [Partitions -> Envelope \cup {NoOne}]

(* No event that reached the journal is lost: until it is on events:out it *)
(* stays in the file that Recover reads, whichever emissions of other      *)
(* workers truncate that file meanwhile (outbox.go:22-25, emitMu).         *)
Recoverable == journaled \subseteq Envelopes(journal) \cup Range(stream)

(* Crashes, shutdowns and concurrent emissions lose nothing.               *)
NothingLost == Reliable => Recoverable

(* When emitEventP returns nil, the envelope is on the stream, and on the  *)
(* WebSocket channel if it is a trade, whatever failed before or since.    *)
NilMeansPublished ==
    \A x \in succeeded :
        /\ x \in Range(stream)
        /\ IsBroadcast(x) => x \in published

DropsOnlyAccepted ==
    engine = "recovering" /\ journal' # journal =>
        \A x \in Envelopes(journal) :
            /\ x \in Range(stream)
            /\ IsBroadcast(x) => x \in published

(* Recover drops the journal only after every envelope in it has been      *)
(* accepted by both targets (outbox.go:94-96), whatever fails.             *)
RecoverDropsOnlyAccepted == [][DropsOnlyAccepted]_vars

\* Each envelope follows the earlier ones of its partition, the repetitions
\* disregarded.
InOrder(s) ==
    \A i, j \in DOMAIN s :
        /\ s[i].partition = s[j].partition
        /\ s[i].n < s[j].n
        /\ j < i
        => \E k \in 1..(j - 1) : s[k] = s[i]

(* A partition's events reach the stream in the order they were emitted,   *)
(* if repetitions are disregarded: through crashes and recoveries, no      *)
(* consumer sees an event before an earlier one of its partition.          *)
FirstDeliveriesInOrder == Reliable => InOrder(stream)

(* The outbox is an at-least-once channel: while Redis and the file system *)
(* answer, it keeps an event until it has delivered it, and delivers it    *)
(* although the engine crashes and restarts.                               *)
Channel == INSTANCE AtLeastOnce WITH
    Items <- Envelope,
    kept <- IF Reliable THEN Envelopes(journal) ELSE {},
    delivered <- IF Reliable THEN Range(stream) ELSE {}

DeliversAtLeastOnce == Channel!Spec
=============================================================================
