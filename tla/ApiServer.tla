------------------------------ MODULE ApiServer ------------------------------
(***************************************************************************)
(* The HTTP API (internal/handler) and the request/reply protocol it       *)
(* speaks with the engine through Redis (pkg/redis/manager.go): a command  *)
(* is appended to the stream of its partition, and the reply is published  *)
(* on a channel that the caller has subscribed to.                         *)
(*                                                                         *)
(* A call is one HTTP request; calls run concurrently.  Of the engine the  *)
(* module has what a command does to its markets, orders and accounts; its *)
(* entries are redelivered when it crashes before it acknowledges them.    *)
(* Order rows are written by the DB worker, after the engine.              *)
(***************************************************************************)
EXTENDS Integers, Sequences, FiniteSets

CONSTANTS
    CallOf,             \* call -> operation and the event, order or email it names
    EventOf,            \* order -> event
    PartitionOf,        \* event -> partition
    NumPartitions,
    Scenarios,          \* which calls are made, and what may fail
    MaxAppendRetries,
    MaxFaults           \* bound on the faults of a behaviour

Calls == DOMAIN CallOf

Orders == DOMAIN EventOf

EventIds == DOMAIN PartitionOf

Partitions == 1..NumPartitions

FaultKinds ==
    {"redis",       \* a call of Redis fails, with or without effect
     "reply",       \* a published reply does not arrive
     "late",        \* callers wait too long, or disconnect
     "redeliver",   \* the engine crashes before an acknowledgement
     "crash"}       \* the API crashes

Operations == {"CreateEvent", "CreateOrder", "DeleteOrder", "GetOrderbook", "Signup"}

\* Every CreateEvent draws an id of its own (gen_random_uuid).
ASSUME ApiAssumption ==
    /\ \A c \in Calls :
         /\ CallOf[c].op \in Operations
         /\ CallOf[c].op \in {"CreateEvent", "GetOrderbook"} => CallOf[c].event \in EventIds
         /\ CallOf[c].op \in {"CreateOrder", "DeleteOrder"} => CallOf[c].order \in Orders
         /\ CallOf[c].op = "Signup" => "email" \in DOMAIN CallOf[c]
    /\ \A c, d \in {x \in Calls : CallOf[x].op = "CreateEvent"} :
         CallOf[c].event = CallOf[d].event => c = d
    /\ NumPartitions \in Nat \ {0}
    /\ \A o \in Orders : EventOf[o] \in EventIds
    /\ \A e \in EventIds : PartitionOf[e] \in Partitions
    /\ \A s \in Scenarios : s.calls \subseteq Calls /\ s.faults \subseteq FaultKinds
    /\ MaxAppendRetries \in Nat \ {0} /\ MaxFaults \in Nat

VARIABLES
    scenario,
    pc,             \* where each call is
    attempts,       \* failed appends; partitions a fan-out has reached
    subscribed,     \* calls whose reply channel is subscribed
    inbox,          \* replies that have arrived
    disconnected,   \* calls whose request context is canceled
    answer,         \* what each caller has been told
    commands,       \* the command streams
    handled,        \* how much of each the engine has acknowledged
    markets, orders, accounts,          \* the engine
    effects,        \* how often each call's commands changed it
    eventRows, orderRows, userRows,     \* the database
    faults

callVars == <<pc, attempts, subscribed, inbox, disconnected, answer>>

engineVars == <<handled, markets, orders, accounts, effects>>

dbVars == <<eventRows, orderRows, userRows>>

vars == <<scenario, callVars, commands, engineVars, dbVars, faults>>

Init ==
    /\ scenario \in Scenarios
    /\ pc = [c \in Calls |-> "new"]
    /\ attempts = [c \in Calls |-> 0]
    /\ subscribed = {}
    /\ inbox = [c \in Calls |-> <<>>]
    /\ disconnected = {}
    /\ answer = [c \in Calls |-> "none"]
    /\ commands = [p \in Partitions |-> <<>>]
    /\ handled = [p \in Partitions |-> 0]
    /\ markets = {} /\ orders = [o \in Orders |-> "none"] /\ accounts = {}
    /\ effects = [c \in Calls |-> 0]
    /\ eventRows = {} /\ orderRows = {} /\ userRows = {}
    /\ faults = 0

Fault(kind) ==
    /\ kind \in scenario.faults
    /\ faults < MaxFaults
    /\ faults' = faults + 1

Is(c, op) == CallOf[c].op = op

EventAt(c) ==
    IF CallOf[c].op \in {"CreateOrder", "DeleteOrder"} THEN EventOf[CallOf[c].order]
                                                       ELSE CallOf[c].event

Goto(c, label) == pc' = [pc EXCEPT ![c] = label]

Answer(c, a) == Goto(c, "done") /\ answer' = [answer EXCEPT ![c] = a]

-----------------------------------------------------------------------------
(* The handlers, up to the command *)

New(c, op) == c \in scenario.calls /\ pc[c] = "new" /\ Is(c, op)

(* The queries that handlers run *)

InsertEvent(e) == eventRows' = eventRows \cup {e}

\* Its order rows go with an event.
DeleteEvent(e) ==
    /\ eventRows' = eventRows \ {e}
    /\ orderRows' = {o \in orderRows : EventOf[o] # e}

GetEventByID(e) == e \in eventRows

GetOrderByID(o) == o \in orderRows

GetUserByEmail(address) == \E u \in userRows : CallOf[u].email = address

InsertUser(c) == userRows' = userRows \cup {c}

\* CreateEvent inserts the row first.
CreateEvent(c) ==
    /\ New(c, "CreateEvent")
    /\ InsertEvent(EventAt(c))
    /\ Goto(c, "subscribe")
    /\ UNCHANGED <<scenario, attempts, subscribed, inbox, disconnected, answer,
                   commands, engineVars, orderRows, userRows, faults>>

\* CreateOrder, DeleteOrder and GetOrderbook look the row up.
LookUp(c, op, found) ==
    /\ New(c, op)
    /\ IF found THEN Goto(c, "subscribe") /\ UNCHANGED answer ELSE Answer(c, "refused")
    /\ UNCHANGED <<scenario, attempts, subscribed, inbox, disconnected, commands,
                   engineVars, dbVars, faults>>

CreateOrder(c) == LookUp(c, "CreateOrder", GetEventByID(EventAt(c)))

DeleteOrder(c) == LookUp(c, "DeleteOrder", GetOrderByID(CallOf[c].order))

GetOrderbook(c) == LookUp(c, "GetOrderbook", GetEventByID(EventAt(c)))

\* Signup looks the address up ...
Signup(c) ==
    /\ New(c, "Signup")
    /\ IF GetUserByEmail(CallOf[c].email)
       THEN Answer(c, "refused") ELSE Goto(c, "insert") /\ UNCHANGED answer
    /\ UNCHANGED <<scenario, attempts, subscribed, inbox, disconnected, commands,
                   engineVars, dbVars, faults>>

\* ... and inserts the user, which the unique address may still refuse.
CreateUser(c) ==
    /\ pc[c] = "insert"
    /\ \/ /\ GetUserByEmail(CallOf[c].email)
          /\ Answer(c, "refused")
          /\ UNCHANGED userRows
       \/ /\ ~GetUserByEmail(CallOf[c].email)
          /\ InsertUser(c)
          /\ Goto(c, "fanout")
          /\ UNCHANGED answer
    /\ UNCHANGED <<scenario, attempts, subscribed, inbox, disconnected, commands,
                   engineVars, eventRows, orderRows, faults>>

XAdd(p, c) == commands' = [commands EXCEPT ![p] = Append(@, c)]

\* SendCommandFanout: partition after partition.
SendCommandFanout(c) ==
    LET p == attempts[c] + 1
    IN  /\ pc[c] = "fanout"
        /\ XAdd(p, c)
        /\ attempts' = [attempts EXCEPT ![c] = p]
        /\ IF p = NumPartitions THEN Answer(c, "ok") ELSE UNCHANGED <<pc, answer>>
        /\ UNCHANGED <<scenario, subscribed, inbox, disconnected, engineVars, dbVars,
                       faults>>

\* The first error ends it, and Signup ignores the error.
FanoutFails(c) ==
    /\ Fault("redis")
    /\ pc[c] = "fanout"
    /\ XAdd(attempts[c] + 1, c) \/ UNCHANGED commands
    /\ Answer(c, "ok")
    /\ UNCHANGED <<scenario, attempts, subscribed, inbox, disconnected, engineVars,
                   dbVars>>

-----------------------------------------------------------------------------
(* SendAndAwait *)

Failed_unclosed(c) ==
    /\ UNCHANGED subscribed
    /\ IF Is(c, "CreateEvent") THEN Goto(c, "rollback") /\ UNCHANGED answer
                               ELSE Answer(c, "error")

\* The error path of a handler: CreateEvent takes its row back.
Failed(c) ==
    /\ subscribed' = subscribed \ {c}
    /\ IF Is(c, "CreateEvent") THEN Goto(c, "rollback") /\ UNCHANGED answer
                               ELSE Answer(c, "error")

Subscribe_unconfirmed(c) ==
    /\ pc[c] = "subscribe"
    /\ Goto(c, "append")
    /\ UNCHANGED <<scenario, subscribed, attempts, inbox, disconnected, answer,
                   commands, engineVars, dbVars, faults>>

\* The subscription is confirmed before the command is sent.
Subscribe(c) ==
    /\ pc[c] = "subscribe"
    /\ subscribed' = subscribed \cup {c}
    /\ Goto(c, "append")
    /\ UNCHANGED <<scenario, attempts, inbox, disconnected, answer, commands,
                   engineVars, dbVars, faults>>

SubscribeFails(c) ==
    /\ Fault("redis")
    /\ pc[c] = "subscribe"
    /\ Failed(c)
    /\ UNCHANGED <<scenario, attempts, inbox, disconnected, commands, engineVars,
                   dbVars>>

AppendCommand_cancelable(c) ==
    /\ pc[c] = "append"
    /\ IF c \in disconnected
       THEN Failed(c) /\ UNCHANGED commands
       ELSE /\ XAdd(PartitionOf[EventAt(c)], c)
            /\ Goto(c, "await")
            /\ UNCHANGED <<subscribed, answer>>
    /\ UNCHANGED <<scenario, attempts, inbox, disconnected, engineVars, dbVars, faults>>

\* The append does not observe the request's context.
AppendCommand(c) ==
    /\ pc[c] = "append"
    /\ XAdd(PartitionOf[EventAt(c)], c)
    /\ Goto(c, "await")
    /\ UNCHANGED <<scenario, attempts, subscribed, inbox, disconnected, answer,
                   engineVars, dbVars, faults>>

\* XADD reports an error, whether it has been executed or not; it is tried
\* MaxAppendRetries times.
AppendFails(c) ==
    /\ Fault("redis")
    /\ pc[c] = "append"
    /\ XAdd(PartitionOf[EventAt(c)], c) \/ UNCHANGED commands
    /\ attempts' = [attempts EXCEPT ![c] = @ + 1]
    /\ IF attempts'[c] = MaxAppendRetries
       THEN Failed(c) ELSE UNCHANGED <<pc, subscribed, answer>>
    /\ UNCHANGED <<scenario, inbox, disconnected, engineVars, dbVars>>

AwaitResponse_anyReply(c) ==
    /\ pc[c] = "await" /\ inbox[c] # <<>>
    /\ Answer(c, "ok")
    /\ subscribed' = subscribed \ {c}
    /\ UNCHANGED <<scenario, attempts, inbox, disconnected, commands, engineVars,
                   dbVars, faults>>

\* The first reply counts.
AwaitResponse(c) ==
    /\ pc[c] = "await" /\ inbox[c] # <<>>
    /\ \/ Head(inbox[c]) /\ Answer(c, "ok") /\ subscribed' = subscribed \ {c}
       \/ ~Head(inbox[c]) /\ Failed(c)
    /\ UNCHANGED <<scenario, attempts, inbox, disconnected, commands, engineVars,
                   dbVars, faults>>

\* The deadline passes, or the caller is gone.
GiveUp(c) ==
    /\ pc[c] = "await"
    /\ "late" \in scenario.faults \/ c \in disconnected
    /\ Failed(c)
    /\ UNCHANGED <<scenario, attempts, inbox, disconnected, commands, engineVars,
                   dbVars, faults>>

\* DeleteEvent uses the request's context, and does nothing when that is
\* canceled.
Rollback(c) ==
    /\ pc[c] = "rollback"
    /\ IF c \in disconnected THEN UNCHANGED <<eventRows, orderRows>>
                             ELSE DeleteEvent(EventAt(c))
    /\ Answer(c, "error")
    /\ UNCHANGED <<scenario, attempts, subscribed, inbox, disconnected, commands,
                   engineVars, userRows, faults>>

-----------------------------------------------------------------------------
(* What happens to calls *)

Disconnect(c) ==
    /\ Fault("late")
    /\ pc[c] \notin {"new", "done", "dead"} /\ c \notin disconnected
    /\ disconnected' = disconnected \cup {c}
    /\ UNCHANGED <<scenario, pc, attempts, subscribed, inbox, answer, commands,
                   engineVars, dbVars>>

\* Every call in progress dies with the process.
Crash ==
    /\ Fault("crash")
    /\ \E c \in Calls : pc[c] \notin {"new", "done", "dead"}
    /\ pc' = [c \in Calls |-> IF pc[c] \in {"new", "done"} THEN pc[c] ELSE "dead"]
    /\ subscribed' = {}
    /\ UNCHANGED <<scenario, attempts, inbox, disconnected, answer, commands,
                   engineVars, dbVars>>

-----------------------------------------------------------------------------
(* The engine and the DB worker *)

Known_ifOpen(o) == orders[o] = "open"

\* The engine knows an order id for ever, canceled or not.
Known(o) == orders[o] # "none"

\* What handleMessage does with the command of a call, and its reply.  A new
\* order may be rejected (for lack of funds, say); orders are not matched here.
HandleMessage(p, c, success) ==
    /\ CASE Is(c, "CreateEvent") ->
              /\ success
              /\ markets' = markets \cup {EventAt(c)}
              /\ UNCHANGED <<orders, accounts>>
         [] Is(c, "CreateOrder") ->
              /\ success => Known(CallOf[c].order) \/ EventAt(c) \in markets
              /\ Known(CallOf[c].order) => success
              /\ orders' = IF ~success \/ Known(CallOf[c].order) THEN orders
                           ELSE [orders EXCEPT ![CallOf[c].order] = "open"]
              /\ UNCHANGED <<markets, accounts>>
         [] Is(c, "DeleteOrder") ->
              /\ success = (orders[CallOf[c].order] = "open")
              /\ orders' = IF ~success THEN orders
                           ELSE [orders EXCEPT ![CallOf[c].order] = "canceled"]
              /\ UNCHANGED <<markets, accounts>>
         [] Is(c, "GetOrderbook") ->
              /\ success = (EventAt(c) \in markets)
              /\ UNCHANGED <<markets, orders, accounts>>
         [] Is(c, "Signup") ->
              /\ success
              /\ accounts' = accounts \cup {<<p, c>>}
              /\ UNCHANGED <<markets, orders>>
    /\ effects' = [effects EXCEPT ![c] =
                     IF <<markets, orders, accounts>>' = <<markets, orders, accounts>>
                     THEN @ ELSE @ + 1]

\* PUBLISH reaches the caller that is subscribed; a fan-out has no reply.
Publish(c, success) ==
    inbox' = IF c \in subscribed THEN [inbox EXCEPT ![c] = Append(@, success)]
                                 ELSE inbox

NextEntry(p) == commands[p][handled[p] + 1]

\* A command is handled, the reply is sent, the entry acknowledged.
ProcessStreamEntry(p) ==
    /\ handled[p] < Len(commands[p])
    /\ \E success \in BOOLEAN :
         HandleMessage(p, NextEntry(p), success) /\ Publish(NextEntry(p), success)
    /\ handled' = [handled EXCEPT ![p] = @ + 1]
    /\ UNCHANGED <<scenario, pc, attempts, subscribed, disconnected, answer, commands,
                   dbVars, faults>>

ReplyLost(p) ==
    /\ Fault("reply")
    /\ handled[p] < Len(commands[p])
    /\ \E success \in BOOLEAN : HandleMessage(p, NextEntry(p), success)
    /\ handled' = [handled EXCEPT ![p] = @ + 1]
    /\ UNCHANGED <<scenario, callVars, commands, dbVars>>

\* The engine crashes after the command, before or after the reply.
Redeliver(p) ==
    /\ Fault("redeliver")
    /\ handled[p] < Len(commands[p])
    /\ \E success \in BOOLEAN :
         /\ HandleMessage(p, NextEntry(p), success)
         /\ Publish(NextEntry(p), success) \/ UNCHANGED inbox
    /\ UNCHANGED <<scenario, pc, attempts, subscribed, disconnected, answer, commands,
                   handled, dbVars>>

\* The DB worker inserts an order; the foreign key needs the event's row.
ProjectOrder(o) ==
    /\ orders[o] # "none" /\ o \notin orderRows
    /\ EventOf[o] \in eventRows
    /\ orderRows' = orderRows \cup {o}
    /\ UNCHANGED <<scenario, callVars, commands, engineVars, eventRows, userRows,
                   faults>>

-----------------------------------------------------------------------------
Handlers(c) ==
    \/ CreateEvent(c) \/ CreateOrder(c) \/ DeleteOrder(c) \/ GetOrderbook(c)
    \/ Signup(c)

Continue(c) ==
    \/ CreateUser(c) \/ SendCommandFanout(c)
    \/ Subscribe(c) \/ AppendCommand(c) \/ AwaitResponse(c) \/ GiveUp(c)
    \/ Rollback(c)

Fails(c) ==
    FanoutFails(c) \/ SubscribeFails(c) \/ AppendFails(c) \/ Disconnect(c)

Next ==
    \/ \E c \in Calls : Handlers(c) \/ Continue(c) \/ Fails(c)
    \/ \E p \in Partitions : ProcessStreamEntry(p) \/ ReplyLost(p) \/ Redeliver(p)
    \/ \E o \in Orders : ProjectOrder(o)
    \/ Crash

(* Handlers run until they answer, their deadlines included, and the engine *)
(* reads its streams.                                                       *)
Fairness ==
    /\ WF_vars(\E c \in Calls : Continue(c))
    /\ WF_vars(\E p \in Partitions : ProcessStreamEntry(p))

Spec == Init /\ [][Next]_vars /\ Fairness

-----------------------------------------------------------------------------
(* What the API promises *)

TypeOK ==
    /\ scenario \in Scenarios /\ faults \in 0..MaxFaults
    /\ pc \in [Calls -> {"new", "insert", "fanout", "subscribe", "append", "await",
                         "rollback", "done", "dead"}]
    /\ answer \in [Calls -> {"none", "ok", "refused", "error"}]
    /\ \A c \in Calls : answer[c] # "none" <=> pc[c] = "done"
    /\ attempts \in [Calls -> Nat] /\ effects \in [Calls -> Nat]
    /\ subscribed \subseteq {c \in Calls : pc[c] \in {"append", "await"}}
    /\ inbox \in [Calls -> Seq(BOOLEAN)]
    /\ commands \in [Partitions -> Seq(scenario.calls)]
    /\ \A p \in Partitions : handled[p] \in 0..Len(commands[p])
    /\ markets \subseteq EventIds /\ orders \in [Orders -> {"none", "open", "canceled"}]
    /\ accounts \subseteq Partitions \X Calls
    /\ eventRows \subseteq EventIds /\ userRows \subseteq Calls
    /\ \A o \in orderRows : orders[o] # "none" /\ EventOf[o] \in eventRows

\* What a handler reports has happened, and for good: a created event is
\* in the database and in the engine, an accepted order is in the engine, a
\* canceled order is canceled, and no address is signed up twice.
AnswersTrue ==
    /\ \A c \in Calls : answer[c] = "ok" =>
         CASE Is(c, "CreateEvent") -> EventAt(c) \in eventRows \cap markets
           [] Is(c, "CreateOrder") -> orders[CallOf[c].order] # "none"
           [] Is(c, "DeleteOrder") -> orders[CallOf[c].order] = "canceled"
           [] Is(c, "GetOrderbook") -> EventAt(c) \in markets
           [] Is(c, "Signup") -> c \in userRows
    /\ \A c, d \in userRows : CallOf[c].email = CallOf[d].email => c = d

\* "A retried append is safe": however often a command is appended or
\* delivered again, and whatever has come between, it acts at most once (a
\* fan-out: once in each partition); and so do two calls with the same
\* client-generated order id.
ActsAtMostOnce ==
    /\ \A c \in Calls :
         effects[c] <= IF Is(c, "Signup") THEN NumPartitions ELSE 1
    /\ \A c, d \in {x \in Calls : Is(x, "CreateOrder")} :
         (c # d /\ CallOf[c].order = CallOf[d].order) => effects[c] + effects[d] <= 1

Handled(c) ==
    \E p \in Partitions : \E i \in 1..handled[p] : commands[p][i] = c

\* "A fast engine response cannot be published before we are subscribed": a
\* caller whose command has been handled finds the reply, unless it was lost.
NoReplyMissed ==
    "reply" \notin scenario.faults =>
      \A c \in Calls : (pc[c] = "await" /\ Handled(c)) => inbox[c] # <<>>

\* Every call is answered; and when Redis takes the commands, they are all
\* executed, those of callers that have given up or gone included (the
\* append is "detached ... so it is not lost when the caller gives up"), and
\* every user is granted an account in every partition.
CallsComplete ==
    <>[](/\ \A c \in Calls : pc[c] \in {"new", "done", "dead"}
         /\ scenario.faults \cap {"redis", "crash"} = {} =>
              /\ \A c \in Calls : answer[c] \in {"ok", "error"} => Handled(c)
              /\ Partitions \X userRows \subseteq accounts)
=============================================================================
