------------------------- MODULE PartitionOwnership -------------------------
(***************************************************************************)
(* How engines own a partition, execute its command stream and hand it     *)
(* over (internal/engine/worker.go, replay.go, consumeMessages and         *)
(* processStreamEntry of engine.go, internal/partition), with the fencing  *)
(* check of the DB worker that consumes the events (dbworker/worker.go).   *)
(*                                                                         *)
(* Partitions share nothing here, so there is one.  A command is its       *)
(* position in the partition's stream; executing it changes the memory of  *)
(* the engine and emits one event, unless the engine has executed it       *)
(* before (the handlers are idempotent) or is replaying.  The lease has no *)
(* clock: it may lapse whenever the fault model lets its holder be slow,   *)
(* and always once the holder no longer renews it.  Idle times of pending  *)
(* entries have no clock either: XAUTOCLAIM takes any of them.             *)
(***************************************************************************)
EXTENDS Integers, Sequences, FiniteSetsExt

CONSTANTS
    Engines,
    Batch,          \* COUNT of XREADGROUP
    FaultModels,    \* sets of the kinds of fault that may happen together
    MaxCommands,    \* bound on the commands clients send
    MaxFaults,      \* bound on the faults of a behaviour
    NoOne

FaultKinds ==
    {"crash",       \* an engine crashes or is shut down
     "slow",        \* a holder is too slow to renew, and its lease lapses
     "redis",       \* a Redis call fails, executed or not
     "replay"}      \* the XRANGE of a replay fails

ASSUME OwnershipAssumption ==
    /\ NoOne \notin Engines
    /\ Batch \in Nat \ {0}
    /\ FaultModels \subseteq SUBSET FaultKinds
    /\ MaxCommands \in Nat
    /\ MaxFaults \in Nat

Command == 1..MaxCommands

Event == [cmd : Command, token : Nat]

VARIABLES
    lease,          \* the value of the lease key
    fencing,        \* the fencing counter of the partition
    commands,       \* the length of the command stream
    delivered,      \* last-delivered-id of the consumer group
    pending,        \* the group's pending entries
    events,         \* events:out
    pc,             \* where runPartition of each engine is
    token,          \* e.partitionToken, 0 when absent
    stopping,       \* e.ctx is canceled
    canceled,       \* pctx is canceled
    queue,          \* entries that were read and are still to be executed, in order
    memory,         \* the commands an engine has executed, in order
    seen,           \* how many events the DB worker has consumed
    projected,      \* the events it has applied
    faultModel, faults

redisVars == <<lease, fencing, commands, delivered, pending, events>>

engineVars == <<pc, token, stopping, canceled, queue, memory>>

dbVars == <<seen, projected>>

faultVars == <<faultModel, faults>>

vars == <<redisVars, engineVars, dbVars, faultVars>>

Init ==
    /\ lease = NoOne /\ fencing = 0
    /\ commands = 0 /\ delivered = 0 /\ pending = {}
    /\ events = <<>>
    /\ pc = [e \in Engines |-> "acquire"]
    /\ token = [e \in Engines |-> 0]
    /\ stopping = [e \in Engines |-> FALSE]
    /\ canceled = [e \in Engines |-> FALSE]
    /\ queue = [e \in Engines |-> {}]
    /\ memory = [e \in Engines |-> <<>>]
    /\ seen = 0 /\ projected = <<>>
    /\ faultModel \in FaultModels /\ faults = 0

Fault(kind) ==
    /\ kind \in faultModel
    /\ faults < MaxFaults
    /\ faults' = faults + 1
    /\ UNCHANGED faultModel

Goto(e, label) == pc' = [pc EXCEPT ![e] = label]

\* The entry to be executed next: Redis returns entries in stream order.
HeadOf(e) == Min(queue[e])

Dequeue(e) == queue' = [queue EXCEPT ![e] = @ \ {HeadOf(e)}]

-----------------------------------------------------------------------------
(* The lease and the fencing token *)

\* SET NX.
Acquire_steal(e) ==
    /\ pc[e] = "acquire" /\ ~stopping[e]
    /\ lease' = e
    /\ Goto(e, "fence")
    /\ UNCHANGED <<fencing, commands, delivered, pending, events, token,
                   stopping, canceled, queue, memory, dbVars,
                   faultVars>>

Acquire(e) == lease = NoOne /\ Acquire_steal(e)

\* The reply to SET NX is lost: the engine sleeps and tries again, and finds
\* its own key in the way.
AcquireFails(e) ==
    /\ Fault("redis")
    /\ pc[e] = "acquire" /\ ~stopping[e]
    /\ lease = NoOne
    /\ lease' = e
    /\ UNCHANGED <<fencing, commands, delivered, pending, events, engineVars,
                   dbVars>>

\* The engine stores its token; renewLease starts under a new pctx.
Own(e, t) ==
    /\ pc[e] = "fence" /\ ~stopping[e]
    /\ token' = [token EXCEPT ![e] = t]
    /\ canceled' = [canceled EXCEPT ![e] = FALSE]
    /\ Goto(e, "replay")
    /\ UNCHANGED <<lease, commands, delivered, pending, events, stopping,
                   queue, memory, dbVars, faultVars>>

Fence_unstored(e) == UNCHANGED fencing /\ Own(e, fencing + 1)

\* INCR of the fencing counter.
Fence(e) == fencing' = fencing + 1 /\ Own(e, fencing')

\* The test of the scripts of Renew and Release.
Holds(e) == lease = e

Released(e) == IF Holds(e) THEN NoOne ELSE lease

\* INCR fails, executed or not: the lease is given back.
FenceFails(e) ==
    /\ Fault("redis")
    /\ pc[e] = "fence" /\ ~stopping[e]
    /\ fencing' \in {fencing, fencing + 1}
    /\ lease' = Released(e)
    /\ Goto(e, "acquire")
    /\ UNCHANGED <<commands, delivered, pending, events, token, stopping,
                   canceled, queue, memory, dbVars>>

\* renewLease: the lease is no longer this engine's.  (A successful renewal
\* keeps it from lapsing, and a failed one changes nothing.)
LoseLease(e) ==
    /\ token[e] # 0 /\ pc[e] # "release"
    /\ ~Holds(e)
    /\ ~canceled[e]
    /\ canceled' = [canceled EXCEPT ![e] = TRUE]
    /\ UNCHANGED <<redisVars, pc, token, stopping, queue, memory, dbVars, faultVars>>

\* The end of a round of runPartition: compare-and-release, whose error is
\* ignored, and the token is forgotten.
Release(e) ==
    /\ pc[e] = "release"
    /\ \/ lease' = Released(e) /\ UNCHANGED faultVars
       \/ Holds(e) /\ lease' = lease /\ Fault("redis")
    /\ token' = [token EXCEPT ![e] = 0]
    /\ canceled' = [canceled EXCEPT ![e] = TRUE]
    /\ Goto(e, "acquire")
    /\ UNCHANGED <<fencing, commands, delivered, pending, events, stopping,
                   queue, memory, dbVars>>

\* The TTL of a lease passes that no renewLease extends any more, or whose
\* holder is too slow.
Expires ==
    /\ lease' = NoOne
    /\ UNCHANGED <<fencing, commands, delivered, pending, events, engineVars,
                   dbVars>>

Lapse_noTTL == FALSE

Lapse ==
    /\ lease # NoOne
    /\ pc[lease] \in {"down", "acquire"}
    /\ Expires
    /\ UNCHANGED faultVars

LapseSlow ==
    /\ lease # NoOne
    /\ pc[lease] \notin {"down", "acquire"}
    /\ Expires
    /\ Fault("slow")

-----------------------------------------------------------------------------
(* Replay *)

ReplayEntries(e, S) ==
    /\ pc[e] = "replay" /\ ~stopping[e]
    /\ queue' = [queue EXCEPT ![e] = S]
    /\ Goto(e, "replaying")
    /\ UNCHANGED <<redisVars, token, stopping, canceled, memory, dbVars, faultVars>>

ReplayRange_tail(e) == ReplayEntries(e, (delivered + 1)..commands)

\* XRANGE of the whole stream, under e.ctx.
ReplayRange(e) == ReplayEntries(e, 1..commands)

\* An error is logged, and the engine consumes without having replayed.
ReplayFails(e) ==
    /\ pc[e] = "replay"
    /\ IF stopping[e] THEN UNCHANGED faultVars ELSE Fault("replay")
    /\ Goto(e, "claim")
    /\ UNCHANGED <<redisVars, token, stopping, canceled, queue, memory, dbVars>>

Executed(e) == Range(memory[e])

Execute(e, c) ==
    memory' = IF c \in Executed(e) THEN memory
              ELSE [memory EXCEPT ![e] = Append(@, c)]

\* applyCommand of one entry, with emission suppressed.
ReplayCommand(e) ==
    /\ pc[e] = "replaying" /\ queue[e] # {}
    /\ Execute(e, HeadOf(e))
    /\ Dequeue(e)
    /\ UNCHANGED <<redisVars, pc, token, stopping, canceled, dbVars, faultVars>>

FinishReplay(e) ==
    /\ pc[e] = "replaying" /\ queue[e] = {}
    /\ Goto(e, "claim")
    /\ UNCHANGED <<redisVars, token, stopping, canceled, queue, memory, dbVars, faultVars>>

-----------------------------------------------------------------------------
(* consumeMessages and processStreamEntry *)

\* XAUTOCLAIM of the entries that have been pending for long enough; with
\* pctx canceled, ensureCommandGroup fails and consumeMessages returns.
Claim(e) ==
    /\ pc[e] = "claim"
    /\ IF canceled[e]
       THEN Goto(e, "release") /\ UNCHANGED <<queue, faultVars>>
       ELSE \E S \in SUBSET pending :
              \/ /\ queue' = [queue EXCEPT ![e] = S]
                 /\ Goto(e, IF S = {} THEN "read" ELSE "handle")
                 /\ UNCHANGED faultVars
              \/ S # {} /\ Goto(e, "read") /\ UNCHANGED queue /\ Fault("redis")
    /\ UNCHANGED <<redisVars, token, stopping, canceled, memory, dbVars>>

\* XREADGROUP ">".  Its reply may be lost to an error, and to a cancellation
\* while it waits: the entries are then pending, and not executed.
ReadGroup(e) ==
    /\ pc[e] = "read"
    /\ LET n == Min({Batch, commands - delivered})
           new == (delivered + 1)..(delivered + n)
       IN  /\ n > 0
           /\ delivered' = delivered + n
           /\ pending' = pending \cup new
           /\ \/ /\ ~canceled[e]
                 /\ queue' = [queue EXCEPT ![e] = new]
                 /\ Goto(e, "handle")
                 /\ UNCHANGED faultVars
              \/ canceled[e] /\ Goto(e, "release") /\ UNCHANGED <<queue, faultVars>>
              \/ ~canceled[e] /\ Fault("redis") /\ UNCHANGED <<queue, pc>>
    /\ UNCHANGED <<lease, fencing, commands, events, token, stopping, canceled,
                   memory, dbVars>>

StopReading(e) ==
    /\ pc[e] = "read" /\ canceled[e]
    /\ Goto(e, "release")
    /\ UNCHANGED <<redisVars, token, stopping, canceled, queue, memory, dbVars, faultVars>>

\* handleMessage and its emission: neither looks at pctx, so an engine that
\* has lost its lease finishes the batch it has read.
Handle(e) ==
    /\ pc[e] = "handle"
    /\ LET c == HeadOf(e)
       IN  /\ Execute(e, c)
           /\ events' = IF c \in Executed(e) THEN events
                        ELSE Append(events, [cmd |-> c, token |-> token[e]])
    /\ Goto(e, "ack")
    /\ UNCHANGED <<lease, fencing, commands, delivered, pending, token,
                   stopping, canceled, queue, dbVars, faultVars>>

\* The deferred XACK, which a canceled pctx makes fail.
Ack(e) ==
    /\ pc[e] = "ack"
    /\ \/ ~canceled[e] /\ pending' = pending \ {HeadOf(e)} /\ UNCHANGED faultVars
       \/ canceled[e] /\ UNCHANGED <<pending, faultVars>>
       \/ ~canceled[e] /\ UNCHANGED pending /\ Fault("redis")
    /\ Dequeue(e)
    /\ Goto(e, IF queue[e] = {HeadOf(e)} THEN "read" ELSE "handle")
    /\ UNCHANGED <<lease, fencing, commands, delivered, events, token,
                   stopping, canceled, memory, dbVars>>

-----------------------------------------------------------------------------
(* Processes, clients and the DB worker *)

\* What ends with the process: its memory, and the loop it was in.
ProcessEnds(e) ==
    /\ Goto(e, "down")
    /\ token' = [token EXCEPT ![e] = 0]
    /\ stopping' = [stopping EXCEPT ![e] = FALSE]
    /\ canceled' = [canceled EXCEPT ![e] = FALSE]
    /\ queue' = [queue EXCEPT ![e] = {}]
    /\ memory' = [memory EXCEPT ![e] = <<>>]
    /\ UNCHANGED <<redisVars, dbVars>>

Crash(e) ==
    /\ Fault("crash")
    /\ pc[e] # "down"
    /\ ProcessEnds(e)

\* Shutdown cancels e.ctx, and with it pctx, and waits for runPartition.
Shutdown(e) ==
    /\ Fault("crash")
    /\ pc[e] # "down" /\ ~stopping[e]
    /\ stopping' = [stopping EXCEPT ![e] = TRUE]
    /\ canceled' = [canceled EXCEPT ![e] = TRUE]
    /\ UNCHANGED <<redisVars, pc, token, queue, memory, dbVars>>

\* runPartition returns.  After a canceled INCR it has not released the
\* lease, which has to lapse.
Stopped(e) ==
    /\ stopping[e] /\ pc[e] \in {"acquire", "fence"}
    /\ ProcessEnds(e)
    /\ UNCHANGED faultVars

Restart(e) ==
    /\ pc[e] = "down"
    /\ Goto(e, "acquire")
    /\ UNCHANGED <<redisVars, token, stopping, canceled, queue, memory, dbVars, faultVars>>

\* A client's XADD.
SendCommand ==
    /\ commands < MaxCommands
    /\ commands' = commands + 1
    /\ UNCHANGED <<lease, fencing, delivered, pending, events, engineVars,
                   dbVars, faultVars>>

fencingDecision_lax(ev) == ev.token + 1 >= fencing

\* An event is stale when its token is older than the counter.
fencingDecision(ev) == ev.token >= fencing

\* The DB worker applies the next event or drops it as stale.
Project ==
    /\ seen < Len(events)
    /\ seen' = seen + 1
    /\ projected' = IF fencingDecision(events[seen + 1])
                    THEN Append(projected, events[seen + 1]) ELSE projected
    /\ UNCHANGED <<redisVars, engineVars, faultVars>>

-----------------------------------------------------------------------------
runPartition(e) ==
    \/ Acquire(e) \/ Fence(e) \/ Release(e)
    \/ ReplayRange(e) \/ ReplayFails(e) \/ ReplayCommand(e) \/ FinishReplay(e)
    \/ Claim(e) \/ ReadGroup(e) \/ StopReading(e) \/ Handle(e) \/ Ack(e)
    \/ Stopped(e)

Next ==
    \/ SendCommand \/ Project \/ Lapse \/ LapseSlow
    \/ \E e \in Engines :
         \/ runPartition(e) \/ LoseLease(e)
         \/ AcquireFails(e) \/ FenceFails(e)
         \/ Crash(e) \/ Shutdown(e) \/ Restart(e)

(* Goroutines run, a supervisor restarts engines, and a lease that nobody  *)
(* renews lapses.  Nothing makes clients send commands.                    *)
Fairness ==
    /\ WF_vars(Lapse) /\ WF_vars(Project)
    /\ \A e \in Engines :
         WF_vars(runPartition(e)) /\ WF_vars(LoseLease(e)) /\ WF_vars(Restart(e))

Spec == Init /\ [][Next]_vars /\ Fairness

-----------------------------------------------------------------------------
(* Properties *)

\* Behaviours in which every live holder renews its lease in time.
Punctual == "slow" \notin faultModel

\* Behaviours in which, besides, only crashes and shutdowns happen.
CrashOnly == faultModel \subseteq {"crash"}

TypeOK ==
    /\ lease \in Engines \cup {NoOne}
    /\ fencing \in Nat /\ token \in [Engines -> 0..fencing]
    /\ commands \in 0..MaxCommands /\ delivered \in 0..commands
    /\ pending \subseteq 1..delivered
    /\ events \in Seq(Event) /\ projected \in Seq(Event)
    /\ seen \in 0..Len(events)
    /\ pc \in [Engines -> {"down", "acquire", "fence", "replay", "replaying",
                            "claim", "read", "handle", "ack", "release"}]
    /\ queue \in [Engines -> SUBSET Command]
    /\ memory \in [Engines -> Seq(Command)]

(* Leases and tokens keep their promise as long as live holders renew in   *)
(* time, although engines crash, shut down and restart and Redis calls     *)
(* fail: one owner at a time, and every event carries its epoch (P2.3,     *)
(* P2.5; worker.go:19-20).                                                 *)
Owner == IF Punctual /\ \E e \in Engines : token[e] # 0
         THEN CHOOSE e \in Engines : token[e] # 0 ELSE NoOne

Epoch == IF Punctual THEN fencing ELSE 0

EpochsWritten == IF Punctual THEN [i \in DOMAIN events |-> events[i].token] ELSE <<>>

Ownership == INSTANCE SingleOwner WITH
    Owners <- Engines,
    Nobody <- NoOne,
    owner <- Owner,
    epoch <- Epoch,
    log <- EpochsWritten

OwnedByOne == Ownership!Spec

(* An engine executes the commands of the partition in stream order and    *)
(* without a gap, whether by replay, by claiming what a crashed engine     *)
(* left pending, or live (spec P2.9: "commands are processed in partition  *)
(* order").                                                                *)
InPartitionOrder ==
    CrashOnly => \A e \in Engines : \A i \in DOMAIN memory[e] : memory[e][i] = i

(* No command takes effect twice in the database, even if two engines      *)
(* execute it because one of them has lost its lease without noticing: the *)
(* fencing token of one of the events is stale (spec P2.9: "no duplicate   *)
(* trade execution occurs during failover").                               *)
AppliedAtMostOnce ==
    "replay" \notin faultModel =>
        \A i, j \in DOMAIN projected :
            projected[i].cmd = projected[j].cmd => i = j

(* Once the database has seen an event of a newer owner it applies none of *)
(* an older one, whichever faults happen (fencing.go:9-11).                *)
TokensNondecreasing ==
    \A i, j \in DOMAIN projected :
        i < j => projected[i].token <= projected[j].token

(* Crashes and shutdowns never strand a command: an owner of the partition *)
(* eventually has executed it.                                             *)
CommandsExecuted ==
    \A c \in Command :
        CrashOnly /\ c <= commands ~>
            \E e \in Engines : token[e] # 0 /\ c \in Executed(e)

(* Replay suppresses events because "the DB projection already contains   *)
(* those effects" (replay.go:15-18): whatever an engine has executed, by   *)
(* replay or live, the database has or is about to get from the stream.    *)
ReplayedIsProjected ==
    \A e \in Engines : \A c \in Executed(e) :
        \/ \E i \in DOMAIN projected : projected[i].cmd = c
        \/ \E i \in (seen + 1)..Len(events) : events[i].cmd = c
=============================================================================
