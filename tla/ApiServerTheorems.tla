------------------------- MODULE ApiServerTheorems --------------------------
(***************************************************************************)
(* Proofs about ApiServer, for any calls, partitions, scenarios and        *)
(* bounds: what a handler reports is true, a command acts at most once     *)
(* however often it is appended or delivered, and no reply is missed.      *)
(*                                                                         *)
(* None of these is inductive.  A report is true because the reply was,    *)
(* and because the rows a handler has written are still there (Replies,    *)
(* Rows); a command acts once because what it did shows in the engine      *)
(* (Effects); and a reply arrives because a call is subscribed before its  *)
(* command is in a stream (Places).                                        *)
(***************************************************************************)
EXTENDS ApiServer, SequenceTheorems, FiniteSetTheorems, TLAPS

-----------------------------------------------------------------------------
(* Sequences and their elements *)

\* The elements of a sequence are its values at 1..Len.
LEMMA InRange ==
  ASSUME NEW S, NEW s \in Seq(S), NEW y
  PROVE  y \in Range(s) <=> \E i \in 1..Len(s) : y = s[i]
<1>1. DOMAIN s = 1..Len(s)
  OBVIOUS
<1> QED
  BY <1>1, Zenon DEF Range

\* Appending adds one element.
LEMMA RangeOfAppend ==
  ASSUME NEW S, NEW s \in Seq(S), NEW x \in S
  PROVE  /\ Append(s, x) \in Seq(S)
         /\ Range(Append(s, x)) = Range(s) \cup {x}
<1> DEFINE t == Append(s, x)
<1>1. /\ t \in Seq(S) /\ Len(s) \in Nat /\ Len(t) = Len(s) + 1
      /\ t[Len(s) + 1] = x /\ \A i \in 1..Len(s) : t[i] = s[i]
  OBVIOUS
<1> HIDE DEF t
<1>2. ASSUME NEW y PROVE y \in Range(t) <=> y \in Range(s) \cup {x}
  <2>1. y \in Range(t) <=> \E i \in 1..Len(t) : y = t[i]
    BY <1>1, InRange
  <2>2. y \in Range(s) <=> \E i \in 1..Len(s) : y = s[i]
    BY InRange
  <2> QED
    BY <1>1, <2>1, <2>2
<1> QED
  BY <1>1, <1>2, Zenon DEF t

\* The first element, and those of the rest.
LEMMA RangeOfTail ==
  ASSUME NEW S, NEW s \in Seq(S), s # <<>>
  PROVE  /\ Head(s) \in S
         /\ Tail(s) \in Seq(S)
         /\ Head(s) \in Range(s)
         /\ Range(Tail(s)) \subseteq Range(s)
         /\ \A x \in Range(s) : x = Head(s) \/ x \in Range(Tail(s))
<1> DEFINE t == Tail(s)
<1>1. /\ Head(s) = s[1] /\ Head(s) \in S /\ t \in Seq(S)
      /\ Len(s) \in Nat \ {0} /\ Len(t) = Len(s) - 1
      /\ \A i \in 1..Len(t) : t[i] = s[i + 1]
  OBVIOUS
<1> HIDE DEF t
<1>2. \A y : /\ y \in Range(t) <=> \E i \in 1..Len(t) : y = t[i]
             /\ y \in Range(s) <=> \E i \in 1..Len(s) : y = s[i]
  BY <1>1, InRange
<1>3. Head(s) \in Range(s)
  BY <1>1, <1>2
<1>4. Range(t) \subseteq Range(s)
  BY <1>1, <1>2
<1>5. ASSUME NEW x \in Range(s), x # Head(s) PROVE x \in Range(t)
  <2>1. PICK i \in 1..Len(s) : x = s[i]
    BY <1>2
  <2>2. i - 1 \in 1..Len(t) /\ t[i - 1] = x
    BY <1>1, <1>5, <2>1
  <2> QED
    BY <1>2, <2>2
<1> QED
  BY <1>1, <1>3, <1>4, <1>5, Zenon DEF t

\* The empty and the one-element sequence.
LEMMA RangeOfSmall ==
  /\ Range(<<>>) = {}
  /\ \A x : Range(<<x>>) = {x}
  BY DEF Range

\* The places of a call in its handler, and what it may have been told.
Labels == {"new", "insert", "fanout", "subscribe", "append", "await", "rollback",
           "done", "dead"}

Answers == {"none", "ok", "refused", "error"}

\* The command of call c is in a stream.
Sent(c) == \E p \in Partitions : \E i \in 1..Len(commands[p]) : commands[p][i] = c

\* Which calls are where: only signups fan out, only the others wait for a
\* reply, and a call that waits is subscribed before its command is sent.
Places ==
    \A c \in Calls :
      /\ pc[c] # "new" => c \in scenario.calls
      /\ pc[c] \in {"insert", "fanout"} => Is(c, "Signup")
      /\ pc[c] \in {"subscribe", "append", "await", "rollback"} => ~Is(c, "Signup")
      /\ pc[c] = "rollback" => Is(c, "CreateEvent")
      /\ pc[c] \in {"append", "await"} => c \in subscribed
      /\ pc[c] \in {"new", "insert", "subscribe"} => ~Sent(c)

\* What the engine has done once it has replied with success to the command
\* of c.
InEngine(c) ==
    /\ CallOf[c].op \in {"CreateEvent", "GetOrderbook"} => EventAt(c) \in markets
    /\ Is(c, "CreateOrder") => Known(CallOf[c].order)
    /\ Is(c, "DeleteOrder") => orders[CallOf[c].order] = "canceled"

\* The reply to a handled command has arrived, and replies are true.
Replies ==
    \A c \in Calls :
      /\ "reply" \notin scenario.faults /\ c \in subscribed /\ Handled(c)
           => inbox[c] # <<>>
      /\ TRUE \in Range(inbox[c]) => InEngine(c)
      /\ answer[c] = "ok" => InEngine(c)

\* The row of a created event stays until the handler takes it back, and the
\* row of a user for ever.
Rows ==
    /\ \A c \in Calls :
         /\ Is(c, "CreateEvent")
              /\ (pc[c] \in {"subscribe", "append", "await"} \/ answer[c] = "ok")
              => EventAt(c) \in eventRows
         /\ Is(c, "Signup") /\ (pc[c] = "fanout" \/ answer[c] = "ok") => c \in userRows
    /\ \A c, d \in userRows : CallOf[c].email = CallOf[d].email => c = d
    /\ orderRows \subseteq Orders

\* A command that has acted shows in the engine, and so does not act again.
Effects ==
    /\ \A c \in Calls :
         IF Is(c, "Signup")
         THEN effects[c] = Cardinality({p \in Partitions : <<p, c>> \in accounts})
         ELSE effects[c] <= 1 /\ (effects[c] # 0 => InEngine(c))
    /\ \A c, d \in {x \in Calls : Is(x, "CreateOrder")} :
         c # d /\ CallOf[c].order = CallOf[d].order => effects[c] + effects[d] <= 1

\* The inductive invariant.
IInv == TypeOK /\ handled \in [Partitions -> Nat] /\ Places /\ Replies /\ Rows /\ Effects

-----------------------------------------------------------------------------
(* The engine *)

\* The operations are distinct.
LEMMA OneOperation ==
  ASSUME NEW c \in Calls
  PROVE  /\ CallOf[c].op \in Operations
         /\ Is(c, "CreateEvent") \/ Is(c, "GetOrderbook") => EventAt(c) \in EventIds
         /\ Is(c, "CreateOrder") \/ Is(c, "DeleteOrder") => CallOf[c].order \in Orders
  BY ApiAssumption, Zenon DEF Is, EventAt

\* What handleMessage does for each operation.
LEMMA HandleMessageCases ==
  ASSUME NEW p, NEW c \in Calls, NEW success \in BOOLEAN, HandleMessage(p, c, success)
  PROVE  /\ Is(c, "CreateEvent") =>
              /\ success /\ markets' = markets \cup {EventAt(c)}
              /\ UNCHANGED <<orders, accounts>>
         /\ Is(c, "CreateOrder") =>
              /\ success => Known(CallOf[c].order) \/ EventAt(c) \in markets
              /\ Known(CallOf[c].order) => success
              /\ orders' = IF ~success \/ Known(CallOf[c].order) THEN orders
                           ELSE [orders EXCEPT ![CallOf[c].order] = "open"]
              /\ UNCHANGED <<markets, accounts>>
         /\ Is(c, "DeleteOrder") =>
              /\ success = (orders[CallOf[c].order] = "open")
              /\ orders' = IF ~success THEN orders
                           ELSE [orders EXCEPT ![CallOf[c].order] = "canceled"]
              /\ UNCHANGED <<markets, accounts>>
         /\ Is(c, "GetOrderbook") =>
              /\ success = (EventAt(c) \in markets)
              /\ UNCHANGED <<markets, orders, accounts>>
         /\ Is(c, "Signup") =>
              /\ success /\ accounts' = accounts \cup {<<p, c>>}
              /\ UNCHANGED <<markets, orders>>
         /\ effects' = [effects EXCEPT ![c] =
                          IF <<markets, orders, accounts>>' = <<markets, orders, accounts>>
                          THEN @ ELSE @ + 1]
<1>1. /\ Is(c, "CreateEvent") => ~Is(c, "CreateOrder") /\ ~Is(c, "DeleteOrder")
                                 /\ ~Is(c, "GetOrderbook") /\ ~Is(c, "Signup")
      /\ Is(c, "CreateOrder") => ~Is(c, "DeleteOrder") /\ ~Is(c, "GetOrderbook")
                                 /\ ~Is(c, "Signup")
      /\ Is(c, "DeleteOrder") => ~Is(c, "GetOrderbook") /\ ~Is(c, "Signup")
      /\ Is(c, "GetOrderbook") => ~Is(c, "Signup")
  BY Zenon DEF Is
<1> QED
  BY <1>1, Zenon DEF HandleMessage

\* Markets stay open, and orders known.
EngineGrows ==
    /\ markets \subseteq markets'
    /\ \A o \in Orders : Known(o) => Known(o)'
    /\ \A o \in Orders : orders[o] = "canceled" => orders'[o] = "canceled"

\* A command leaves the engine well typed, and counts for its own call only.
LEMMA HandleMessageTypes ==
  ASSUME TypeOK, NEW p \in Partitions, NEW c \in Calls, NEW success \in BOOLEAN,
         HandleMessage(p, c, success)
  PROVE  /\ markets' \subseteq EventIds
         /\ orders' \in [Orders -> {"none", "open", "canceled"}]
         /\ accounts' \subseteq Partitions \X Calls
         /\ effects' \in [Calls -> Nat]
         /\ \A d \in Calls : d # c => effects'[d] = effects[d]
         /\ EngineGrows
<1>1. effects' = [effects EXCEPT ![c] =
                    IF <<markets, orders, accounts>>' = <<markets, orders, accounts>>
                    THEN @ ELSE @ + 1]
  BY HandleMessageCases, Zenon
<1>2. effects' \in [Calls -> Nat] /\ \A d \in Calls : d # c => effects'[d] = effects[d]
  BY <1>1 DEF TypeOK
<1>3. CASE Is(c, "CreateEvent")
  <2>1. markets' = markets \cup {EventAt(c)} /\ UNCHANGED <<orders, accounts>>
    BY <1>3, HandleMessageCases, Zenon
  <2> QED
    BY <1>2, <1>3, <2>1, OneOperation DEF TypeOK, EngineGrows, Known
<1>4. CASE Is(c, "CreateOrder")
  <2>1. /\ orders' = orders \/ (/\ ~Known(CallOf[c].order)
                                /\ orders' = [orders EXCEPT ![CallOf[c].order] = "open"])
        /\ UNCHANGED <<markets, accounts>>
    BY <1>4, HandleMessageCases, Zenon
  <2>2. PICK o \in Orders : o = CallOf[c].order
    BY <1>4, OneOperation, Zenon
  <2>3. CASE orders' = orders
    BY <1>2, <2>1, <2>3, Zenon DEF TypeOK, EngineGrows, Known
  <2>4. CASE orders[o] = "none" /\ orders' = [orders EXCEPT ![o] = "open"]
    <3>1. orders' \in [Orders -> {"none", "open", "canceled"}]
      BY <2>4, Zenon DEF TypeOK
    <3>2. \A q \in Orders : orders'[q] = IF q = o THEN "open" ELSE orders[q]
      BY <2>4, Zenon DEF TypeOK
    <3>3. EngineGrows
      BY <2>1, <2>4, <3>2, Zenon DEF EngineGrows, Known
    <3> QED
      BY <1>2, <2>1, <3>1, <3>3, Zenon DEF TypeOK
  <2> QED
    BY <2>1, <2>2, <2>3, <2>4, Zenon DEF Known
<1>5. CASE Is(c, "DeleteOrder")
  <2>1. /\ orders' = orders \/ orders' = [orders EXCEPT ![CallOf[c].order] = "canceled"]
        /\ UNCHANGED <<markets, accounts>>
    BY <1>5, HandleMessageCases, Zenon
  <2>2. PICK o \in Orders : o = CallOf[c].order
    BY <1>5, OneOperation, Zenon
  <2> QED
    BY <1>2, <2>1, <2>2 DEF TypeOK, EngineGrows, Known
<1>6. CASE Is(c, "GetOrderbook")
  <2>1. UNCHANGED <<markets, orders, accounts>>
    BY <1>6, HandleMessageCases, Zenon
  <2> QED
    BY <1>2, <2>1, Zenon DEF TypeOK, EngineGrows, Known
<1>7. CASE Is(c, "Signup")
  <2>1. UNCHANGED <<markets, orders>> /\ accounts' = accounts \cup {<<p, c>>}
    BY <1>7, HandleMessageCases, Zenon
  <2> QED
    BY <1>2, <2>1 DEF TypeOK, EngineGrows, Known
<1> QED
  BY <1>3, <1>4, <1>5, <1>6, <1>7, OneOperation, Zenon DEF Operations, Is

\* What the engine has done stays done.
LEMMA InEngineLasts ==
  ASSUME EngineGrows, NEW c \in Calls, InEngine(c)
  PROVE  InEngine(c)'
  BY OneOperation, Zenon DEF EngineGrows, InEngine, Is, EventAt

\* Success means done, and a command changes the engine only if it was not.
LEMMA HandleMessageActs ==
  ASSUME TypeOK, NEW p \in Partitions, NEW c \in Calls, NEW success \in BOOLEAN,
         HandleMessage(p, c, success)
  PROVE  /\ success => InEngine(c)'
         /\ ~Is(c, "Signup") =>
              /\ accounts' = accounts
              /\ \/ effects'[c] = effects[c]
                 \/ effects'[c] = effects[c] + 1 /\ ~InEngine(c) /\ InEngine(c)'
<1>1. effects' = [effects EXCEPT ![c] =
                    IF <<markets, orders, accounts>>' = <<markets, orders, accounts>>
                    THEN @ ELSE @ + 1]
  BY HandleMessageCases, Zenon
<1>2. effects'[c] = IF <<markets, orders, accounts>>' = <<markets, orders, accounts>>
                    THEN effects[c] ELSE effects[c] + 1
  BY <1>1, Zenon DEF TypeOK
<1>3. CASE Is(c, "CreateEvent")
  <2>1. markets' = markets \cup {EventAt(c)} /\ UNCHANGED <<orders, accounts>>
    BY <1>3, HandleMessageCases, Zenon
  <2>2. EventAt(c)' = EventAt(c)
    BY Zenon DEF EventAt
  <2>3. CASE EventAt(c) \in markets
    <3>1. markets' = markets
      BY <2>1, <2>3, Zenon
    <3> QED
      BY <1>2, <1>3, <2>1, <2>2, <2>3, <3>1, Zenon DEF InEngine, Is
  <2>4. CASE EventAt(c) \notin markets
    <3>1. markets' # markets
      BY <2>1, <2>4, Zenon
    <3> QED
      BY <1>2, <1>3, <2>1, <2>2, <2>4, <3>1, Zenon DEF InEngine, Is
  <2> QED
    BY <2>3, <2>4, Zenon
<1>4. CASE Is(c, "CreateOrder")
  <2>1. /\ Known(CallOf[c].order) => success
        /\ orders' = IF ~success \/ Known(CallOf[c].order) THEN orders
                     ELSE [orders EXCEPT ![CallOf[c].order] = "open"]
        /\ UNCHANGED <<markets, accounts>>
    BY <1>4, HandleMessageCases, Zenon
  <2>2. PICK o \in Orders : o = CallOf[c].order
    BY <1>4, OneOperation, Zenon
  <2>3. InEngine(c) <=> Known(o)
    BY <1>4, <2>2, Zenon DEF InEngine, Is
  <2>4. InEngine(c)' <=> orders'[o] # "none"
    BY <1>4, <2>2, Zenon DEF InEngine, Is, Known
  <2>5. CASE ~success \/ Known(o)
    BY <1>2, <2>1, <2>2, <2>3, <2>4, <2>5, Zenon DEF Known
  <2>6. CASE success /\ ~Known(o)
    <3>1. orders'[o] = "open" /\ orders[o] = "none"
      BY <2>1, <2>2, <2>6, Zenon DEF TypeOK, Known
    <3>2. orders' # orders
      BY <3>1, Zenon
    <3> QED
      BY <1>2, <1>4, <2>1, <2>3, <2>4, <2>6, <3>1, <3>2, Zenon
  <2> QED
    BY <2>5, <2>6, Zenon
<1>5. CASE Is(c, "DeleteOrder")
  <2>1. /\ success = (orders[CallOf[c].order] = "open")
        /\ orders' = IF ~success THEN orders
                     ELSE [orders EXCEPT ![CallOf[c].order] = "canceled"]
        /\ UNCHANGED <<markets, accounts>>
    BY <1>5, HandleMessageCases, Zenon
  <2>2. PICK o \in Orders : o = CallOf[c].order
    BY <1>5, OneOperation, Zenon
  <2>3. InEngine(c) <=> orders[o] = "canceled"
    BY <1>5, <2>2, Zenon DEF InEngine, Is
  <2>4. InEngine(c)' <=> orders'[o] = "canceled"
    BY <1>5, <2>2, Zenon DEF InEngine, Is
  <2>5. CASE ~success
    BY <1>2, <2>1, <2>5, Zenon
  <2>6. CASE success
    <3>1. orders'[o] = "canceled" /\ orders[o] = "open"
      BY <2>1, <2>2, <2>6, Zenon DEF TypeOK
    <3>2. orders' # orders
      BY <3>1, Zenon
    <3> QED
      BY <1>2, <2>1, <2>3, <2>4, <3>1, <3>2, Zenon
  <2> QED
    BY <2>5, <2>6, Zenon
<1>6. CASE Is(c, "GetOrderbook")
  <2>1. success = (EventAt(c) \in markets) /\ UNCHANGED <<markets, orders, accounts>>
    BY <1>6, HandleMessageCases, Zenon
  <2>2. EventAt(c)' = EventAt(c)
    BY Zenon DEF EventAt
  <2> QED
    BY <1>2, <1>6, <2>1, <2>2, Zenon DEF InEngine, Is
<1>7. CASE Is(c, "Signup")
  BY <1>7, Zenon DEF InEngine, Is
<1> QED
  BY <1>3, <1>4, <1>5, <1>6, <1>7, OneOperation, Zenon DEF Operations, Is

-----------------------------------------------------------------------------
(* A step of one call *)

\* A step of the handler of call c: the other calls stay where they are, and
\* it appends no command but its own.
Moves(c) ==
    /\ c \in scenario.calls
    /\ scenario' = scenario /\ faults' \in 0..MaxFaults
    /\ pc' \in [Calls -> Labels] /\ answer' \in [Calls -> Answers]
    /\ attempts' \in [Calls -> Nat]
    /\ \A d \in Calls \ {c} : pc'[d] = pc[d] /\ answer'[d] = answer[d]
    /\ subscribed' \subseteq Calls
    /\ \A d \in Calls \ {c} : d \in subscribed' <=> d \in subscribed
    /\ \/ commands' = commands
       \/ \E p \in Partitions : commands' = [commands EXCEPT ![p] = Append(@, c)]
    /\ UNCHANGED <<inbox, engineVars>>

\* Where the step takes the call.
ArrivesIn(c) ==
    /\ answer'[c] # "none" <=> pc'[c] = "done"
    /\ c \in subscribed' <=> pc'[c] \in {"append", "await"}
    /\ pc'[c] \in {"insert", "fanout"} => Is(c, "Signup")
    /\ pc'[c] \in {"subscribe", "append", "await", "rollback"} => ~Is(c, "Signup")
    /\ pc'[c] = "rollback" => Is(c, "CreateEvent")
    /\ pc'[c] # "new"
    /\ pc'[c] \in {"insert", "subscribe"} =>
         pc[c] \in {"new", "insert", "subscribe"} /\ commands' = commands
    /\ c \in subscribed' => c \in subscribed \/ pc[c] = "subscribe"
    /\ answer'[c] = "ok" => InEngine(c)

\* The rows of the database, between a step and the next.
RowsTyped ==
    /\ eventRows \subseteq EventIds /\ userRows \subseteq Calls
    /\ orderRows \subseteq Orders
    /\ \A o \in orderRows : orders[o] # "none" /\ EventOf[o] \in eventRows

\* An append leaves what has been handled alone, and sends no other command.
LEMMA MovesCommands ==
  ASSUME IInv, NEW c \in Calls, Moves(c)
  PROVE  /\ commands' \in [Partitions -> Seq(scenario.calls)]
         /\ \A p \in Partitions : handled[p] \in 0..Len(commands'[p])
         /\ \A d \in Calls : Handled(d)' <=> Handled(d)
         /\ \A d \in Calls : d # c => (Sent(d)' <=> Sent(d))
<1>1. handled' = handled /\ c \in scenario.calls
  BY Zenon DEF Moves, engineVars
<1>2. /\ commands \in [Partitions -> Seq(scenario.calls)]
      /\ handled \in [Partitions -> Nat]
      /\ \A p \in Partitions : handled[p] \in 0..Len(commands[p])
  BY Zenon DEF IInv, TypeOK
<1>3. CASE commands' = commands
  BY <1>1, <1>2, <1>3, Zenon DEF Handled, Sent
<1>4. ASSUME NEW q \in Partitions, commands' = [commands EXCEPT ![q] = Append(@, c)]
      PROVE  /\ commands' \in [Partitions -> Seq(scenario.calls)]
             /\ \A p \in Partitions : handled[p] \in 0..Len(commands'[p])
             /\ \A d \in Calls : Handled(d)' <=> Handled(d)
             /\ \A d \in Calls : d # c => (Sent(d)' <=> Sent(d))
  <2>1. PICK s \in Seq(scenario.calls) : s = commands[q]
    BY <1>2, Zenon
  <2>2. /\ commands'[q] = Append(s, c)
        /\ \A p \in Partitions : p # q => commands'[p] = commands[p]
    BY <1>2, <1>4, <2>1, Zenon
  <2>3. /\ Append(s, c) \in Seq(scenario.calls) /\ Len(Append(s, c)) = Len(s) + 1
        /\ Append(s, c)[Len(s) + 1] = c
        /\ \A i \in 1..Len(s) : Append(s, c)[i] = s[i]
        /\ Len(s) \in Nat
    BY <1>1
  <2>4. commands' \in [Partitions -> Seq(scenario.calls)]
    BY <1>2, <1>4, <2>1, <2>3, Zenon
  <2>5. handled[q] \in Nat /\ handled[q] <= Len(s)
    BY <1>2, <2>1
  <2>6. \A p \in Partitions : handled[p] \in 0..Len(commands'[p])
    BY <1>2, <2>1, <2>2, <2>3
  <2>7. \A p \in Partitions : \A i \in 1..handled[p] : commands'[p][i] = commands[p][i]
    BY <2>1, <2>2, <2>3, <2>5
  <2>8. \A d \in Calls : Handled(d)' <=> Handled(d)
    BY <1>1, <2>7 DEF Handled
  <2>9. ASSUME NEW d \in Calls, d # c
        PROVE  Sent(d)' <=> Sent(d)
    <3>1. ASSUME Sent(d) PROVE Sent(d)'
      <4>1. PICK p \in Partitions : \E i \in 1..Len(commands[p]) : commands[p][i] = d
        BY <3>1, Zenon DEF Sent
      <4>2. CASE p = q
        <5>1. PICK i \in 1..Len(s) : s[i] = d
          BY <2>1, <4>1, <4>2, Zenon
        <5>2. i \in 1..Len(Append(s, c)) /\ Append(s, c)[i] = d
          BY <2>3, <5>1
        <5> QED
          BY <2>2, <5>2, Zenon DEF Sent
      <4>3. CASE p # q
        BY <2>2, <4>1, <4>3, Zenon DEF Sent
      <4> QED
        BY <4>2, <4>3, Zenon
    <3>2. ASSUME Sent(d)' PROVE Sent(d)
      <4>1. PICK p \in Partitions : \E i \in 1..Len(commands'[p]) : commands'[p][i] = d
        BY <3>2, Zenon DEF Sent
      <4>2. CASE p = q
        <5>1. PICK i \in 1..(Len(s) + 1) : Append(s, c)[i] = d
          BY <2>2, <2>3, <4>1, <4>2, Zenon
        <5>2. i \in 1..Len(s) /\ s[i] = d
          BY <2>3, <2>9, <5>1
        <5> QED
          BY <2>1, <5>2, Zenon DEF Sent
      <4>3. CASE p # q
        BY <2>2, <4>1, <4>3, Zenon DEF Sent
      <4> QED
        BY <4>2, <4>3, Zenon
    <3> QED
      BY <3>1, <3>2, Zenon
  <2> QED
    BY <2>4, <2>6, <2>8, <2>9, Zenon
<1> QED
  BY <1>3, <1>4, Zenon DEF Moves

\* A step of one call keeps the invariant, when the call arrives where it may
\* be and the rows are what they have to be.
LEMMA MovesKeep ==
  ASSUME IInv, NEW c \in Calls, Moves(c), ArrivesIn(c), RowsTyped', Rows'
  PROVE  IInv'
<1>1. /\ commands' \in [Partitions -> Seq(scenario.calls)]
      /\ \A p \in Partitions : handled[p] \in 0..Len(commands'[p])
      /\ \A d \in Calls : Handled(d)' <=> Handled(d)
      /\ \A d \in Calls : d # c => (Sent(d)' <=> Sent(d))
  BY MovesCommands, Zenon
<1>2. /\ c \in scenario.calls
      /\ scenario' = scenario /\ faults' \in 0..MaxFaults
      /\ pc' \in [Calls -> Labels] /\ answer' \in [Calls -> Answers]
      /\ attempts' \in [Calls -> Nat]
      /\ \A d \in Calls \ {c} : pc'[d] = pc[d] /\ answer'[d] = answer[d]
      /\ subscribed' \subseteq Calls
      /\ \A d \in Calls \ {c} : d \in subscribed' <=> d \in subscribed
      /\ inbox' = inbox /\ handled' = handled /\ markets' = markets
      /\ orders' = orders /\ accounts' = accounts /\ effects' = effects
  BY Zenon DEF Moves, engineVars
<1>3. \A d \in Calls : InEngine(d)' <=> InEngine(d)
  BY <1>2, Zenon DEF InEngine, EventAt, Is, Known
<1>4. TypeOK'
  <2>1. \A d \in Calls : answer'[d] # "none" <=> pc'[d] = "done"
    BY <1>2 DEF IInv, TypeOK, ArrivesIn
  <2>2. subscribed' \subseteq {d \in Calls : pc'[d] \in {"append", "await"}}
    BY <1>2 DEF IInv, TypeOK, ArrivesIn
  <2>3. /\ scenario \in Scenarios /\ effects \in [Calls -> Nat]
        /\ inbox \in [Calls -> Seq(BOOLEAN)]
        /\ markets \subseteq EventIds /\ orders \in [Orders -> {"none", "open", "canceled"}]
        /\ accounts \subseteq Partitions \X Calls
    BY Zenon DEF IInv, TypeOK
  <2>4. commands' \in [Partitions -> Seq(scenario'.calls)]
    BY <1>1, <1>2, Zenon
  <2>5. \A p \in Partitions : handled'[p] \in 0..Len(commands'[p])
    BY <1>1, <1>2, Zenon
  <2> QED
    BY <1>2, <2>1, <2>2, <2>3, <2>4, <2>5, Zenon DEF TypeOK, RowsTyped, Labels, Answers
<1>5. Places'
  <2> SUFFICES ASSUME NEW d \in Calls
               PROVE  /\ pc'[d] # "new" => d \in scenario'.calls
                      /\ pc'[d] \in {"insert", "fanout"} => Is(d, "Signup")
                      /\ pc'[d] \in {"subscribe", "append", "await", "rollback"}
                           => ~Is(d, "Signup")
                      /\ pc'[d] = "rollback" => Is(d, "CreateEvent")
                      /\ pc'[d] \in {"append", "await"} => d \in subscribed'
                      /\ pc'[d] \in {"new", "insert", "subscribe"} => ~Sent(d)'
    BY Zenon DEF Places, Is
  <2>1. CASE d = c
    <3>1. commands' = commands => (Sent(c)' <=> Sent(c))
      BY Zenon DEF Sent
    <3> QED
      BY <1>2, <2>1, <3>1, Zenon DEF IInv, Places, ArrivesIn
  <2>2. CASE d # c
    BY <1>1, <1>2, <2>2, Zenon DEF IInv, Places
  <2> QED
    BY <2>1, <2>2, Zenon
<1>6. Replies'
  <2> SUFFICES ASSUME NEW d \in Calls
               PROVE  /\ "reply" \notin scenario'.faults /\ d \in subscribed' /\ Handled(d)'
                           => inbox'[d] # <<>>
                      /\ TRUE \in Range(inbox'[d]) => InEngine(d)'
                      /\ answer'[d] = "ok" => InEngine(d)'
    BY Zenon DEF Replies
  <2>1. CASE d = c
    <3>1. Handled(c) => Sent(c)
      <4>1. /\ handled \in [Partitions -> Nat]
            /\ \A p \in Partitions : handled[p] \in 0..Len(commands[p])
            /\ commands \in [Partitions -> Seq(scenario.calls)]
        BY Zenon DEF IInv, TypeOK
      <4>2. \A p \in Partitions : 1..handled[p] \subseteq 1..Len(commands[p])
        BY <4>1
      <4> QED
        BY <4>2, Zenon DEF Handled, Sent
    <3> QED
      BY <1>1, <1>2, <1>3, <2>1, <3>1, Zenon DEF IInv, Replies, Places, ArrivesIn
  <2>2. CASE d # c
    BY <1>1, <1>2, <1>3, <2>2, Zenon DEF IInv, Replies
  <2> QED
    BY <2>1, <2>2, Zenon
<1>7. Effects'
  BY <1>2, <1>3, Zenon DEF IInv, Effects, Is
<1> QED
  BY <1>1, <1>2, <1>4, <1>5, <1>6, <1>7, Zenon DEF IInv

\* The rows stay what they have to be when the step leaves them alone.
LEMMA RowsKept ==
  ASSUME IInv, NEW c \in Calls, Moves(c), UNCHANGED dbVars,
         Is(c, "CreateEvent") =>
           (pc'[c] \in {"subscribe", "append", "await"} \/ answer'[c] = "ok" =>
              pc[c] \in {"subscribe", "append", "await"} \/ answer[c] = "ok"),
         Is(c, "Signup") =>
           (pc'[c] = "fanout" \/ answer'[c] = "ok" => pc[c] = "fanout" \/ answer[c] = "ok")
  PROVE  RowsTyped' /\ Rows'
<1>1. /\ eventRows' = eventRows /\ orderRows' = orderRows /\ userRows' = userRows
      /\ orders' = orders
      /\ \A d \in Calls \ {c} : pc'[d] = pc[d] /\ answer'[d] = answer[d]
  BY Zenon DEF Moves, engineVars, dbVars
<1>2. RowsTyped'
  BY <1>1, Zenon DEF IInv, TypeOK, Rows, RowsTyped
<1>3. \A d \in Calls : EventAt(d)' = EventAt(d)
  BY Zenon DEF EventAt
<1>4. ASSUME NEW d \in Calls
      PROVE  /\ Is(d, "CreateEvent")
                  /\ (pc'[d] \in {"subscribe", "append", "await"} \/ answer'[d] = "ok")
                  => EventAt(d) \in eventRows'
             /\ Is(d, "Signup") /\ (pc'[d] = "fanout" \/ answer'[d] = "ok")
                  => d \in userRows'
  <2>1. CASE d = c
    BY <1>1, <2>1, Zenon DEF IInv, Rows
  <2>2. CASE d # c
    BY <1>1, <2>2, Zenon DEF IInv, Rows
  <2> QED
    BY <2>1, <2>2, Zenon
<1>5. Rows'
  BY <1>1, <1>3, <1>4, Zenon DEF IInv, Rows, Is
<1> QED
  BY <1>2, <1>5, Zenon

\* A call that has left "new" is one of the scenario's.
LEMMA InScenario ==
  ASSUME IInv, NEW c \in Calls, pc[c] # "new"
  PROVE  c \in scenario.calls
  BY Zenon DEF IInv, Places

-----------------------------------------------------------------------------
(* The handlers *)

\* CreateEvent: the row is there before the command is.
LEMMA CreateEventKeeps ==
  ASSUME IInv, NEW c \in Calls, CreateEvent(c)
  PROVE  IInv'
<1>1. /\ c \in scenario.calls /\ pc[c] = "new" /\ Is(c, "CreateEvent")
      /\ eventRows' = eventRows \cup {EventAt(c)}
      /\ pc' = [pc EXCEPT ![c] = "subscribe"]
      /\ UNCHANGED <<scenario, attempts, subscribed, inbox, answer, commands,
                     engineVars, orderRows, userRows, faults>>
  BY Zenon DEF CreateEvent, New, InsertEvent, Goto
<1>2. orders' = orders
  BY <1>1, Zenon DEF engineVars
<1>3. /\ pc' \in [Calls -> Labels] /\ pc'[c] = "subscribe"
      /\ \A d \in Calls \ {c} : pc'[d] = pc[d]
  BY <1>1, Zenon DEF IInv, TypeOK, Labels
<1>4. Moves(c)
  BY <1>1, <1>3, Zenon DEF Moves, IInv, TypeOK, Answers
<1>5. ArrivesIn(c)
  BY <1>1, <1>3, Zenon DEF ArrivesIn, IInv, TypeOK, Is
<1>6. RowsTyped'
  BY <1>1, <1>2, OneOperation DEF RowsTyped, IInv, TypeOK, Rows
<1>7. Rows'
  <2>1. \A d \in Calls : EventAt(d)' = EventAt(d)
    BY Zenon DEF EventAt
  <2>2. ~Is(c, "Signup")
    BY <1>1, Zenon DEF Is
  <2> QED
    BY <1>1, <1>3, <2>1, <2>2, Zenon DEF IInv, Rows, Is
<1> QED
  BY <1>4, <1>5, <1>6, <1>7, MovesKeep, Zenon

\* CreateOrder, DeleteOrder and GetOrderbook, found or not.
LEMMA LookUpKeeps ==
  ASSUME IInv, NEW c \in Calls, NEW op \in {"CreateOrder", "DeleteOrder", "GetOrderbook"},
         NEW found \in BOOLEAN, LookUp(c, op, found)
  PROVE  IInv'
<1>1. /\ c \in scenario.calls /\ pc[c] = "new" /\ Is(c, op)
      /\ UNCHANGED <<scenario, attempts, subscribed, inbox, commands, engineVars,
                     dbVars, faults>>
  BY Zenon DEF LookUp, New
<1>2. \/ pc' = [pc EXCEPT ![c] = "subscribe"] /\ answer' = answer
      \/ pc' = [pc EXCEPT ![c] = "done"] /\ answer' = [answer EXCEPT ![c] = "refused"]
  BY Zenon DEF LookUp, Goto, Answer
<1>3. /\ pc' \in [Calls -> Labels] /\ answer' \in [Calls -> Answers]
      /\ \/ pc'[c] = "subscribe" /\ answer'[c] = answer[c]
         \/ pc'[c] = "done" /\ answer'[c] = "refused"
      /\ \A d \in Calls \ {c} : pc'[d] = pc[d] /\ answer'[d] = answer[d]
  BY <1>2 DEF IInv, TypeOK, Labels, Answers
<1>4. Moves(c)
  BY <1>1, <1>3, Zenon DEF Moves, IInv, TypeOK
<1>5. ~Is(c, "Signup") /\ ~Is(c, "CreateEvent")
  BY <1>1, Zenon DEF Is
<1>6. ArrivesIn(c)
  BY <1>1, <1>3, <1>5, Zenon DEF ArrivesIn, IInv, TypeOK
<1>7. RowsTyped' /\ Rows'
  BY <1>1, <1>4, <1>5, RowsKept, Zenon
<1> QED
  BY <1>4, <1>6, <1>7, MovesKeep, Zenon

\* Signup, with the address taken or free.
LEMMA SignupKeeps ==
  ASSUME IInv, NEW c \in Calls, Signup(c)
  PROVE  IInv'
<1>1. /\ c \in scenario.calls /\ pc[c] = "new" /\ Is(c, "Signup")
      /\ UNCHANGED <<scenario, attempts, subscribed, inbox, commands, engineVars,
                     dbVars, faults>>
  BY Zenon DEF Signup, New
<1>2. \/ pc' = [pc EXCEPT ![c] = "insert"] /\ answer' = answer
      \/ pc' = [pc EXCEPT ![c] = "done"] /\ answer' = [answer EXCEPT ![c] = "refused"]
  BY Zenon DEF Signup, Goto, Answer
<1>3. /\ pc' \in [Calls -> Labels] /\ answer' \in [Calls -> Answers]
      /\ \/ pc'[c] = "insert" /\ answer'[c] = answer[c]
         \/ pc'[c] = "done" /\ answer'[c] = "refused"
      /\ \A d \in Calls \ {c} : pc'[d] = pc[d] /\ answer'[d] = answer[d]
  BY <1>2 DEF IInv, TypeOK, Labels, Answers
<1>4. Moves(c)
  BY <1>1, <1>3, Zenon DEF Moves, IInv, TypeOK
<1>5. ~Is(c, "CreateEvent")
  BY <1>1, Zenon DEF Is
<1>6. answer[c] = "none" /\ c \notin subscribed
  BY <1>1, Zenon DEF IInv, TypeOK
<1>7. ArrivesIn(c)
  BY <1>1, <1>3, <1>6, Zenon DEF ArrivesIn
<1>8. RowsTyped' /\ Rows'
  BY <1>1, <1>3, <1>4, <1>5, <1>6, RowsKept, Zenon
<1> QED
  BY <1>4, <1>7, <1>8, MovesKeep, Zenon

\* The unique address: a user is inserted only beside others.
LEMMA CreateUserKeeps ==
  ASSUME IInv, NEW c \in Calls, CreateUser(c)
  PROVE  IInv'
<1>1. /\ pc[c] = "insert"
      /\ UNCHANGED <<scenario, attempts, subscribed, inbox, commands, engineVars,
                     eventRows, orderRows, faults>>
  BY Zenon DEF CreateUser
<1>2. \/ /\ pc' = [pc EXCEPT ![c] = "done"] /\ answer' = [answer EXCEPT ![c] = "refused"]
         /\ userRows' = userRows
      \/ /\ pc' = [pc EXCEPT ![c] = "fanout"] /\ answer' = answer
         /\ ~GetUserByEmail(CallOf[c].email) /\ userRows' = userRows \cup {c}
  BY Zenon DEF CreateUser, Goto, Answer, InsertUser
<1>3. /\ pc' \in [Calls -> Labels] /\ answer' \in [Calls -> Answers]
      /\ \/ pc'[c] = "fanout" /\ answer'[c] = answer[c] /\ userRows' = userRows \cup {c}
         \/ pc'[c] = "done" /\ answer'[c] = "refused" /\ userRows' = userRows
      /\ \A d \in Calls \ {c} : pc'[d] = pc[d] /\ answer'[d] = answer[d]
  BY <1>2 DEF IInv, TypeOK, Labels, Answers
<1>4. c \in scenario.calls /\ Is(c, "Signup") /\ answer[c] = "none" /\ c \notin subscribed
  BY <1>1, Zenon DEF IInv, TypeOK, Places
<1>5. Moves(c)
  BY <1>1, <1>3, <1>4, Zenon DEF Moves, IInv, TypeOK
<1>6. ArrivesIn(c)
  BY <1>1, <1>3, <1>4, Zenon DEF ArrivesIn
<1>7. orders' = orders
  BY <1>1, Zenon DEF engineVars
<1>8. RowsTyped'
  BY <1>1, <1>3, <1>7 DEF RowsTyped, IInv, TypeOK, Rows
<1>9. Rows'
  <2>1. \A d \in Calls : EventAt(d)' = EventAt(d)
    BY Zenon DEF EventAt
  <2>2. ~Is(c, "CreateEvent")
    BY <1>4, Zenon DEF Is
  <2>3. \A d, e \in userRows' : CallOf[d].email = CallOf[e].email => d = e
    BY <1>2, Zenon DEF IInv, Rows, GetUserByEmail
  <2> QED
    BY <1>1, <1>3, <2>1, <2>2, <2>3, Zenon DEF IInv, Rows, Is
<1> QED
  BY <1>5, <1>6, <1>8, <1>9, MovesKeep, Zenon

\* XADD appends to one stream.
LEMMA XAddAppends ==
  ASSUME IInv, NEW c \in Calls, NEW p, XAdd(p, c)
  PROVE  \/ commands' = commands
         \/ \E q \in Partitions : commands' = [commands EXCEPT ![q] = Append(@, c)]
<1>1. commands \in [Partitions -> Seq(scenario.calls)]
  BY Zenon DEF IInv, TypeOK
<1>2. commands' = [commands EXCEPT ![p] = Append(@, c)]
  BY Zenon DEF XAdd
<1>3. CASE p \in Partitions
  BY <1>2, <1>3, Zenon
<1>4. CASE p \notin Partitions
  <2>1. commands' = commands
    BY <1>1, <1>2, <1>4, Zenon
  <2> QED
    BY <2>1, Zenon
<1> QED
  BY <1>3, <1>4, Zenon

\* A fan-out goes on, ends, or fails and ends all the same.
LEMMA FanoutKeeps ==
  ASSUME IInv, NEW c \in Calls, SendCommandFanout(c) \/ FanoutFails(c)
  PROVE  IInv'
<1>1. /\ pc[c] = "fanout"
      /\ UNCHANGED <<scenario, subscribed, inbox, engineVars, dbVars>>
  BY Zenon DEF SendCommandFanout, FanoutFails
<1>2. \/ pc' = pc /\ answer' = answer
      \/ pc' = [pc EXCEPT ![c] = "done"] /\ answer' = [answer EXCEPT ![c] = "ok"]
  BY Zenon DEF SendCommandFanout, FanoutFails, Answer, Goto
<1>3. XAdd(attempts[c] + 1, c) \/ commands' = commands
  BY Zenon DEF SendCommandFanout, FanoutFails
<1>4. \/ commands' = commands
      \/ \E q \in Partitions : commands' = [commands EXCEPT ![q] = Append(@, c)]
  BY <1>3, XAddAppends, Zenon
<1>5. attempts' = attempts \/ attempts' = [attempts EXCEPT ![c] = attempts[c] + 1]
  BY Zenon DEF SendCommandFanout, FanoutFails
<1>6. faults' = faults \/ (faults < MaxFaults /\ faults' = faults + 1)
  BY Zenon DEF SendCommandFanout, FanoutFails, Fault
<1>7. /\ pc' \in [Calls -> Labels] /\ answer' \in [Calls -> Answers]
      /\ \/ pc'[c] = "fanout" /\ answer'[c] = answer[c]
         \/ pc'[c] = "done" /\ answer'[c] = "ok"
      /\ \A d \in Calls \ {c} : pc'[d] = pc[d] /\ answer'[d] = answer[d]
  BY <1>1, <1>2 DEF IInv, TypeOK, Labels, Answers
<1>8. attempts' \in [Calls -> Nat]
  <2>1. attempts \in [Calls -> Nat]
    BY Zenon DEF IInv, TypeOK
  <2>2. CASE attempts' = attempts
    BY <2>1, <2>2, Zenon
  <2>3. CASE attempts' = [attempts EXCEPT ![c] = attempts[c] + 1]
    BY <2>1, <2>3
  <2> QED
    BY <1>5, <2>2, <2>3, Zenon
<1>9. faults' \in 0..MaxFaults
  BY <1>6, ApiAssumption DEF IInv, TypeOK
<1>10. c \in scenario.calls /\ Is(c, "Signup") /\ answer[c] = "none" /\ c \notin subscribed
  BY <1>1, Zenon DEF IInv, TypeOK, Places
<1>11. Moves(c)
  BY <1>1, <1>4, <1>7, <1>8, <1>9, <1>10, Zenon DEF Moves, IInv, TypeOK
<1>12. InEngine(c)
  BY <1>10, Zenon DEF InEngine, Is
<1>13. ArrivesIn(c)
  BY <1>1, <1>7, <1>10, <1>12, Zenon DEF ArrivesIn
<1>14. ~Is(c, "CreateEvent")
  BY <1>10, Zenon DEF Is
<1>15. RowsTyped' /\ Rows'
  BY <1>1, <1>11, <1>14, RowsKept, Zenon
<1> QED
  BY <1>11, <1>13, <1>15, MovesKeep, Zenon

-----------------------------------------------------------------------------
(* SendAndAwait *)

\* A call that waits for a reply, or will.
LEMMA AwaitsReply ==
  ASSUME IInv, NEW c \in Calls, pc[c] \in {"subscribe", "append", "await"}
  PROVE  /\ c \in scenario.calls /\ ~Is(c, "Signup") /\ answer[c] = "none"
         /\ c \in subscribed <=> pc[c] # "subscribe"
  BY Zenon DEF IInv, TypeOK, Places

\* Every error path of SendAndAwait.
LEMMA FailedKeeps ==
  ASSUME IInv, NEW c \in Calls, pc[c] \in {"subscribe", "append", "await"}, Failed(c),
         \/ commands' = commands
         \/ \E q \in Partitions : commands' = [commands EXCEPT ![q] = Append(@, c)],
         attempts' \in [Calls -> Nat], faults' \in 0..MaxFaults,
         UNCHANGED <<scenario, inbox, engineVars, dbVars>>
  PROVE  IInv'
<1>1. subscribed' = subscribed \ {c}
  BY Zenon DEF Failed
<1>2. \/ Is(c, "CreateEvent") /\ pc' = [pc EXCEPT ![c] = "rollback"] /\ answer' = answer
      \/ pc' = [pc EXCEPT ![c] = "done"] /\ answer' = [answer EXCEPT ![c] = "error"]
  BY Zenon DEF Failed, Answer, Goto
<1>3. /\ pc' \in [Calls -> Labels] /\ answer' \in [Calls -> Answers]
      /\ \/ Is(c, "CreateEvent") /\ pc'[c] = "rollback" /\ answer'[c] = answer[c]
         \/ pc'[c] = "done" /\ answer'[c] = "error"
      /\ \A d \in Calls \ {c} : pc'[d] = pc[d] /\ answer'[d] = answer[d]
  BY <1>2 DEF IInv, TypeOK, Labels, Answers
<1>4. c \in scenario.calls /\ ~Is(c, "Signup") /\ answer[c] = "none"
  BY AwaitsReply, Zenon
<1>5. Moves(c)
  BY <1>1, <1>3, <1>4, Zenon DEF Moves, IInv, TypeOK
<1>6. ArrivesIn(c)
  BY <1>1, <1>3, <1>4, Zenon DEF ArrivesIn
<1>7. RowsTyped' /\ Rows'
  BY <1>3, <1>4, <1>5, RowsKept, Zenon
<1> QED
  BY <1>5, <1>6, <1>7, MovesKeep, Zenon

\* A step on the way to the reply.
LEMMA WaitingKeeps ==
  ASSUME IInv, NEW c \in Calls, pc[c] \in {"subscribe", "append"},
         NEW l \in {"append", "await"},
         (pc' = pc /\ l = pc[c]) \/ pc' = [pc EXCEPT ![c] = l],
         subscribed' = subscribed \cup {c}, pc[c] = "subscribe" => l = "append",
         \/ commands' = commands
         \/ \E q \in Partitions : commands' = [commands EXCEPT ![q] = Append(@, c)],
         attempts' \in [Calls -> Nat], faults' \in 0..MaxFaults,
         UNCHANGED <<scenario, inbox, answer, engineVars, dbVars>>
  PROVE  IInv'
<1>1. /\ pc' \in [Calls -> Labels] /\ pc'[c] = l
      /\ \A d \in Calls \ {c} : pc'[d] = pc[d]
  <2>1. pc \in [Calls -> Labels] /\ l \in Labels
    BY Zenon DEF IInv, TypeOK, Labels
  <2>2. CASE pc' = pc /\ l = pc[c]
    BY <2>1, <2>2, Zenon
  <2>3. CASE pc' = [pc EXCEPT ![c] = l]
    BY <2>1, <2>3, Zenon
  <2> QED
    BY <2>2, <2>3, Zenon
<1>2. /\ c \in scenario.calls /\ ~Is(c, "Signup") /\ answer[c] = "none"
      /\ c \in subscribed <=> pc[c] # "subscribe"
  BY AwaitsReply, Zenon
<1>3. Moves(c)
  BY <1>1, <1>2, Zenon DEF Moves, IInv, TypeOK, Answers
<1>4. ArrivesIn(c)
  BY <1>1, <1>2, Zenon DEF ArrivesIn
<1>5. RowsTyped' /\ Rows'
  BY <1>1, <1>2, <1>3, RowsKept, Zenon
<1> QED
  BY <1>3, <1>4, <1>5, MovesKeep, Zenon

\* The subscription comes first.
LEMMA SubscribeKeeps ==
  ASSUME IInv, NEW c \in Calls, Subscribe(c)
  PROVE  IInv'
<1>1. /\ pc[c] = "subscribe" /\ subscribed' = subscribed \cup {c}
      /\ pc' = [pc EXCEPT ![c] = "append"]
      /\ UNCHANGED <<scenario, attempts, inbox, answer, commands, engineVars, dbVars,
                     faults>>
  BY Zenon DEF Subscribe, Goto
<1>2. attempts' \in [Calls -> Nat] /\ faults' \in 0..MaxFaults
  BY <1>1, Zenon DEF IInv, TypeOK
<1> QED
  BY <1>1, <1>2, WaitingKeeps, Zenon

\* The command is appended by a call that is subscribed.
LEMMA AppendCommandKeeps ==
  ASSUME IInv, NEW c \in Calls, AppendCommand(c)
  PROVE  IInv'
<1>1. /\ pc[c] = "append" /\ XAdd(PartitionOf[EventAt(c)], c)
      /\ pc' = [pc EXCEPT ![c] = "await"]
      /\ UNCHANGED <<scenario, attempts, subscribed, inbox, answer, engineVars, dbVars,
                     faults>>
  BY Zenon DEF AppendCommand, Goto
<1>2. attempts' \in [Calls -> Nat] /\ faults' \in 0..MaxFaults
  BY <1>1, Zenon DEF IInv, TypeOK
<1>3. c \in subscribed
  BY <1>1, AwaitsReply, Zenon
<1>4. subscribed' = subscribed \cup {c}
  BY <1>1, <1>3, Zenon
<1>5. \/ commands' = commands
      \/ \E q \in Partitions : commands' = [commands EXCEPT ![q] = Append(@, c)]
  BY <1>1, XAddAppends, Zenon
<1> QED
  BY <1>1, <1>2, <1>4, <1>5, WaitingKeeps, Zenon

\* Faults are counted.
LEMMA FaultCounted ==
  ASSUME IInv, NEW kind, Fault(kind)
  PROVE  faults' \in 0..MaxFaults
  BY ApiAssumption DEF IInv, TypeOK, Fault

\* No subscription, no command.
LEMMA SubscribeFailsKeeps ==
  ASSUME IInv, NEW c \in Calls, SubscribeFails(c)
  PROVE  IInv'
<1>1. /\ pc[c] = "subscribe" /\ Failed(c) /\ Fault("redis")
      /\ UNCHANGED <<scenario, attempts, inbox, commands, engineVars, dbVars>>
  BY Zenon DEF SubscribeFails
<1>2. attempts' \in [Calls -> Nat] /\ faults' \in 0..MaxFaults
  BY <1>1, FaultCounted, Zenon DEF IInv, TypeOK
<1> QED
  BY <1>1, <1>2, FailedKeeps, Zenon

\* An append is retried, or given up; the command may be in the stream.
LEMMA AppendFailsKeeps ==
  ASSUME IInv, NEW c \in Calls, AppendFails(c)
  PROVE  IInv'
<1>1. /\ pc[c] = "append" /\ Fault("redis")
      /\ XAdd(PartitionOf[EventAt(c)], c) \/ commands' = commands
      /\ attempts' = [attempts EXCEPT ![c] = @ + 1]
      /\ Failed(c) \/ UNCHANGED <<pc, subscribed, answer>>
      /\ UNCHANGED <<scenario, inbox, engineVars, dbVars>>
  BY Zenon DEF AppendFails
<1>2. attempts' \in [Calls -> Nat] /\ faults' \in 0..MaxFaults
  BY <1>1, FaultCounted DEF IInv, TypeOK
<1>3. \/ commands' = commands
      \/ \E q \in Partitions : commands' = [commands EXCEPT ![q] = Append(@, c)]
  BY <1>1, XAddAppends, Zenon
<1>4. CASE Failed(c)
  BY <1>1, <1>2, <1>3, <1>4, FailedKeeps, Zenon
<1>5. CASE UNCHANGED <<pc, subscribed, answer>>
  <2>1. c \in subscribed
    BY <1>1, AwaitsReply, Zenon
  <2>2. subscribed' = subscribed \cup {c}
    BY <1>5, <2>1, Zenon
  <2> QED
    BY <1>1, <1>2, <1>3, <1>5, <2>2, WaitingKeeps, Zenon
<1> QED
  BY <1>1, <1>4, <1>5, Zenon

\* A caller that gives up reports an error.
LEMMA GiveUpKeeps ==
  ASSUME IInv, NEW c \in Calls, GiveUp(c)
  PROVE  IInv'
<1>1. /\ pc[c] = "await" /\ Failed(c)
      /\ UNCHANGED <<scenario, attempts, inbox, commands, engineVars, dbVars, faults>>
  BY Zenon DEF GiveUp
<1>2. attempts' \in [Calls -> Nat] /\ faults' \in 0..MaxFaults
  BY <1>1, Zenon DEF IInv, TypeOK
<1> QED
  BY <1>1, <1>2, FailedKeeps, Zenon

\* The first reply is one of those that have arrived.
LEMMA AwaitResponseKeeps ==
  ASSUME IInv, NEW c \in Calls, AwaitResponse(c)
  PROVE  IInv'
<1>1. /\ pc[c] = "await" /\ inbox[c] # <<>>
      /\ \/ /\ Head(inbox[c]) /\ subscribed' = subscribed \ {c}
            /\ pc' = [pc EXCEPT ![c] = "done"] /\ answer' = [answer EXCEPT ![c] = "ok"]
         \/ Failed(c)
      /\ UNCHANGED <<scenario, attempts, inbox, commands, engineVars, dbVars, faults>>
  BY Zenon DEF AwaitResponse, Answer, Goto
<1>2. attempts' \in [Calls -> Nat] /\ faults' \in 0..MaxFaults
  BY <1>1, Zenon DEF IInv, TypeOK
<1>3. CASE Failed(c)
  BY <1>1, <1>2, <1>3, FailedKeeps, Zenon
<1>4. CASE /\ Head(inbox[c]) /\ subscribed' = subscribed \ {c}
           /\ pc' = [pc EXCEPT ![c] = "done"] /\ answer' = [answer EXCEPT ![c] = "ok"]
  <2>1. /\ pc' \in [Calls -> Labels] /\ answer' \in [Calls -> Answers]
        /\ pc'[c] = "done" /\ answer'[c] = "ok"
        /\ \A d \in Calls \ {c} : pc'[d] = pc[d] /\ answer'[d] = answer[d]
    BY <1>4, Zenon DEF IInv, TypeOK, Labels, Answers
  <2>2. c \in scenario.calls /\ ~Is(c, "Signup") /\ answer[c] = "none"
    BY <1>1, AwaitsReply, Zenon
  <2>3. PICK s \in Seq(BOOLEAN) : s = inbox[c]
    BY Zenon DEF IInv, TypeOK
  <2>4. s # <<>> /\ Head(s)
    BY <1>1, <1>4, <2>3, Zenon
  <2>5. Head(s) \in BOOLEAN /\ Head(s) \in Range(s)
    BY <2>4, RangeOfTail, Zenon
  <2>6. Head(s) = TRUE
    BY <2>4, <2>5, Zenon
  <2>7. TRUE \in Range(s)
    BY <2>5, <2>6, Zenon
  <2>8. InEngine(c)
    BY <2>3, <2>7, Zenon DEF IInv, Replies
  <2>9. Moves(c)
    BY <1>1, <1>2, <1>4, <2>1, <2>2, Zenon DEF Moves, IInv, TypeOK
  <2>10. ArrivesIn(c)
    BY <1>4, <2>1, <2>8, Zenon DEF ArrivesIn
  <2>11. RowsTyped' /\ Rows'
    BY <1>1, <2>2, <2>9, RowsKept
  <2> QED
    BY <2>9, <2>10, <2>11, MovesKeep, Zenon
<1> QED
  BY <1>1, <1>3, <1>4, Zenon

\* No other call has created the event whose row is taken back.
LEMMA RollbackKeeps ==
  ASSUME IInv, NEW c \in Calls, Rollback(c)
  PROVE  IInv'
<1>1. /\ pc[c] = "rollback"
      /\ pc' = [pc EXCEPT ![c] = "done"] /\ answer' = [answer EXCEPT ![c] = "error"]
      /\ UNCHANGED <<scenario, attempts, subscribed, inbox, commands, engineVars,
                     userRows, faults>>
  BY Zenon DEF Rollback, Answer, Goto
<1>2. \/ eventRows' = eventRows /\ orderRows' = orderRows
      \/ /\ eventRows' = eventRows \ {EventAt(c)}
         /\ orderRows' = {o \in orderRows : EventOf[o] # EventAt(c)}
  BY Zenon DEF Rollback, DeleteEvent
<1>3. /\ pc' \in [Calls -> Labels] /\ answer' \in [Calls -> Answers]
      /\ pc'[c] = "done" /\ answer'[c] = "error"
      /\ \A d \in Calls \ {c} : pc'[d] = pc[d] /\ answer'[d] = answer[d]
  BY <1>1, Zenon DEF IInv, TypeOK, Labels, Answers
<1>4. c \in scenario.calls /\ Is(c, "CreateEvent") /\ c \notin subscribed
  BY <1>1, Zenon DEF IInv, TypeOK, Places
<1>5. Moves(c)
  BY <1>1, <1>3, <1>4, Zenon DEF Moves, IInv, TypeOK
<1>6. ArrivesIn(c)
  BY <1>1, <1>3, <1>4, Zenon DEF ArrivesIn
<1>7. orders' = orders /\ userRows' = userRows
  BY <1>1, Zenon DEF engineVars
<1>8. RowsTyped'
  BY <1>2, <1>7, Zenon DEF RowsTyped, IInv, TypeOK, Rows
<1>9. Rows'
  <2>1. \A d \in Calls : EventAt(d)' = EventAt(d)
    BY Zenon DEF EventAt
  <2>2. \A d \in Calls : Is(d, "CreateEvent") /\ d # c => EventAt(d) # EventAt(c)
    BY <1>4, ApiAssumption, Zenon DEF Is, EventAt
  <2>3. ASSUME NEW d \in Calls
        PROVE  /\ Is(d, "CreateEvent")
                    /\ (pc'[d] \in {"subscribe", "append", "await"} \/ answer'[d] = "ok")
                    => EventAt(d) \in eventRows'
               /\ Is(d, "Signup") /\ (pc'[d] = "fanout" \/ answer'[d] = "ok")
                    => d \in userRows'
    <3>1. CASE d = c
      BY <1>3, <3>1, Zenon
    <3>2. CASE d # c
      BY <1>2, <1>3, <1>7, <2>2, <3>2, Zenon DEF IInv, Rows
    <3> QED
      BY <3>1, <3>2, Zenon
  <2>4. orderRows' \subseteq Orders
    BY <1>2, Zenon DEF IInv, Rows
  <2> QED
    BY <1>7, <2>1, <2>3, <2>4, Zenon DEF IInv, Rows, Is
<1> QED
  BY <1>5, <1>6, <1>8, <1>9, MovesKeep, Zenon

\* A caller that goes away leaves its handler running.
LEMMA DisconnectKeeps ==
  ASSUME IInv, NEW c \in Calls, Disconnect(c)
  PROVE  IInv'
<1>1. /\ Fault("late") /\ pc[c] \notin {"new", "done", "dead"}
      /\ UNCHANGED <<scenario, pc, attempts, subscribed, inbox, answer, commands,
                     engineVars, dbVars>>
  BY Zenon DEF Disconnect
<1>2. faults' \in 0..MaxFaults
  BY <1>1, FaultCounted, Zenon
<1>3. c \in scenario.calls
  BY <1>1, InScenario, Zenon
<1>4. Moves(c)
  BY <1>1, <1>2, <1>3, Zenon DEF Moves, IInv, TypeOK, Labels, Answers
<1>5. ArrivesIn(c)
  BY <1>1, Zenon DEF ArrivesIn, IInv, TypeOK, Places, Replies
<1>6. RowsTyped' /\ Rows'
  BY <1>1, <1>4, RowsKept, Zenon
<1> QED
  BY <1>4, <1>5, <1>6, MovesKeep, Zenon

\* A crash ends the subscriptions of the calls that it ends.
LEMMA CrashKeeps ==
  ASSUME IInv, Crash
  PROVE  IInv'
<1>1. /\ Fault("crash") /\ subscribed' = {}
      /\ pc' = [c \in Calls |-> IF pc[c] \in {"new", "done"} THEN pc[c] ELSE "dead"]
      /\ UNCHANGED <<scenario, attempts, inbox, answer, commands, engineVars, dbVars>>
  BY Zenon DEF Crash
<1>2. faults' \in 0..MaxFaults
  BY <1>1, FaultCounted, Zenon
<1>3. /\ scenario' = scenario /\ attempts' = attempts /\ inbox' = inbox
      /\ answer' = answer /\ commands' = commands /\ handled' = handled
      /\ markets' = markets /\ orders' = orders /\ accounts' = accounts
      /\ effects' = effects /\ eventRows' = eventRows /\ orderRows' = orderRows
      /\ userRows' = userRows
  BY <1>1, Zenon DEF engineVars, dbVars
<1>4. \A c \in Calls : /\ pc[c] \in {"new", "done"} => pc'[c] = pc[c]
                       /\ pc[c] \notin {"new", "done"} => pc'[c] = "dead"
  BY <1>1, Zenon
<1>5. /\ pc' \in [Calls -> Labels]
      /\ \A c \in Calls : answer'[c] # "none" <=> pc'[c] = "done"
  BY <1>1, <1>3, <1>4 DEF IInv, TypeOK, Labels
<1>6. TypeOK'
  BY <1>1, <1>2, <1>3, <1>5 DEF IInv, TypeOK, Labels
<1>7. \A c \in Calls : InEngine(c)' <=> InEngine(c)
  BY <1>3, Zenon DEF InEngine, EventAt, Is, Known
<1>8. \A c \in Calls : Sent(c)' <=> Sent(c)
  BY <1>3, Zenon DEF Sent
<1>9. Places'
  BY <1>3, <1>4, <1>8, Zenon DEF IInv, Places, Is
<1>10. Replies'
  BY <1>1, <1>3, <1>7, Zenon DEF IInv, Replies
<1>11. \A c \in Calls : EventAt(c)' = EventAt(c)
  BY Zenon DEF EventAt
<1>12. Rows'
  BY <1>3, <1>4, <1>11, Zenon DEF IInv, Rows, Is
<1>13. Effects'
  BY <1>3, <1>7, Zenon DEF IInv, Effects, Is
<1> QED
  BY <1>3, <1>6, <1>9, <1>10, <1>12, <1>13, Zenon DEF IInv

-----------------------------------------------------------------------------
(* The engine's step *)

\* A delivery of the next command of partition p, which is c's: the engine
\* handles it, the reply may arrive, and the entry may be acknowledged.  When
\* no reply gets lost, an acknowledged command has been replied to.
Delivers(p, c, success) ==
    /\ HandleMessage(p, c, success)
    /\ \/ inbox' = inbox
       \/ c \in subscribed /\ inbox' = [inbox EXCEPT ![c] = Append(@, success)]
    /\ \/ handled' = handled
       \/ /\ handled' = [handled EXCEPT ![p] = @ + 1]
          /\ \/ "reply" \in scenario.faults
             \/ c \notin subscribed
             \/ inbox' = [inbox EXCEPT ![c] = Append(@, success)]
    /\ faults' \in 0..MaxFaults
    /\ UNCHANGED <<scenario, pc, attempts, subscribed, answer, commands, dbVars>>

\* The replies after a delivery: no reply is dropped, and each new one is true.
LEMMA DeliversReplies ==
  ASSUME IInv, NEW p \in Partitions, NEW c \in Calls, NEW success \in BOOLEAN,
         Delivers(p, c, success)
  PROVE  /\ inbox' \in [Calls -> Seq(BOOLEAN)]
         /\ \A d \in Calls : inbox[d] # <<>> => inbox'[d] # <<>>
         /\ inbox' = [inbox EXCEPT ![c] = Append(@, success)] => inbox'[c] # <<>>
         /\ \A d \in Calls : TRUE \in Range(inbox'[d]) =>
              TRUE \in Range(inbox[d]) \/ (d = c /\ success)
<1>1. inbox \in [Calls -> Seq(BOOLEAN)]
  BY Zenon DEF IInv, TypeOK
<1>2. CASE inbox' = [inbox EXCEPT ![c] = Append(@, success)]
  <2>1. PICK s \in Seq(BOOLEAN) : s = inbox[c]
    BY <1>1, Zenon
  <2>2. /\ inbox'[c] = Append(s, success)
        /\ \A d \in Calls : d # c => inbox'[d] = inbox[d]
    BY <1>1, <1>2, <2>1, Zenon
  <2>3. /\ Append(s, success) \in Seq(BOOLEAN)
        /\ Range(Append(s, success)) = Range(s) \cup {success}
    BY RangeOfAppend, Zenon
  <2>4. Append(s, success) # <<>>
    <3>1. Len(Append(s, success)) = Len(s) + 1 /\ Len(s) \in Nat
      OBVIOUS
    <3> QED
      BY <3>1
  <2>5. inbox' \in [Calls -> Seq(BOOLEAN)]
    <3>1. inbox' = [inbox EXCEPT ![c] = Append(s, success)]
      BY <1>2, <2>1, Zenon
    <3> QED
      BY <1>1, <2>3, <3>1, Zenon
  <2>6. \A d \in Calls : inbox[d] # <<>> => inbox'[d] # <<>>
    BY <2>2, <2>4, Zenon
  <2>7. ASSUME NEW d \in Calls, TRUE \in Range(inbox'[d])
        PROVE  TRUE \in Range(inbox[d]) \/ (d = c /\ success)
    <3>1. CASE d = c
      <4>1. TRUE \in Range(s) \/ TRUE = success
        BY <2>2, <2>3, <2>7, <3>1, Zenon
      <4> QED
        BY <2>1, <3>1, <4>1, Zenon
    <3>2. CASE d # c
      BY <2>2, <2>7, <3>2, Zenon
    <3> QED
      BY <3>1, <3>2, Zenon
  <2> QED
    BY <2>2, <2>4, <2>5, <2>6, <2>7, Zenon
<1>3. CASE inbox' = inbox /\ inbox' # [inbox EXCEPT ![c] = Append(@, success)]
  BY <1>1, <1>3, Zenon
<1> QED
  BY <1>2, <1>3, Zenon DEF Delivers

\* What has been handled after a delivery of c's command.
LEMMA DeliversHandled ==
  ASSUME IInv, NEW p \in Partitions, NEW c \in Calls, NEW success \in BOOLEAN,
         handled[p] < Len(commands[p]), c = commands[p][handled[p] + 1],
         Delivers(p, c, success)
  PROVE  /\ handled' \in [Partitions -> Nat]
         /\ \A q \in Partitions : handled'[q] \in 0..Len(commands[q])
         /\ \A d \in Calls : d # c \/ handled' = handled => (Handled(d)' <=> Handled(d))
<1>1. /\ commands \in [Partitions -> Seq(scenario.calls)]
      /\ handled \in [Partitions -> Nat]
      /\ \A q \in Partitions : handled[q] \in 0..Len(commands[q])
  BY Zenon DEF IInv, TypeOK
<1>2. commands' = commands
  BY Zenon DEF Delivers
<1>3. CASE handled' = handled
  BY <1>1, <1>2, <1>3, Zenon DEF Handled
<1>4. CASE handled' = [handled EXCEPT ![p] = @ + 1]
  <2>1. PICK n \in Nat : n = handled[p]
    BY <1>1, Zenon
  <2>2. /\ handled' \in [Partitions -> Nat] /\ handled'[p] = n + 1
        /\ \A q \in Partitions : q # p => handled'[q] = handled[q]
    BY <1>1, <1>4, <2>1
  <2>3. \A q \in Partitions : Len(commands[q]) \in Nat
    BY <1>1
  <2>4. \A q \in Partitions : handled'[q] \in 0..Len(commands[q])
    BY <1>1, <2>1, <2>2, <2>3
  <2>5. ASSUME NEW d \in Calls, d # c
        PROVE  Handled(d)' <=> Handled(d)
    <3>1. ASSUME NEW q \in Partitions
          PROVE  (\E i \in 1..handled'[q] : commands[q][i] = d) <=>
                 (\E i \in 1..handled[q] : commands[q][i] = d)
      <4>1. CASE q = p
        <5>1. \A i \in 1..(n + 1) : i \in 1..n \/ i = n + 1
          OBVIOUS
        <5>2. \A i \in 1..n : i \in 1..(n + 1)
          OBVIOUS
        <5>3. commands[p][n + 1] # d
          BY <2>1, <2>5, Zenon
        <5> QED
          BY <2>1, <2>2, <4>1, <5>1, <5>2, <5>3, Zenon
      <4>2. CASE q # p
        BY <2>2, <4>2, Zenon
      <4> QED
        BY <4>1, <4>2, Zenon
    <3> QED
      BY <1>2, <3>1, Zenon DEF Handled
  <2>6. handled' # handled
    <3>1. handled'[p] # handled[p]
      BY <2>1, <2>2
    <3> QED
      BY <3>1, Zenon
  <2> QED
    BY <2>2, <2>4, <2>5, <2>6, Zenon
<1> QED
  BY <1>3, <1>4, Zenon DEF Delivers

\* The partitions in which a user has an account.
AccountsOf(c) == {p \in Partitions : <<p, c>> \in accounts}

\* There are at most as many as there are partitions.
LEMMA AccountsFinite ==
  ASSUME NEW c
  PROVE  IsFiniteSet(AccountsOf(c)) /\ Cardinality(AccountsOf(c)) <= NumPartitions
<1>1. NumPartitions \in Nat
  BY ApiAssumption, Zenon
<1>2. IsFiniteSet(Partitions) /\ Cardinality(Partitions) = NumPartitions
  BY <1>1, FS_Interval DEF Partitions
<1>3. AccountsOf(c) \subseteq Partitions
  BY Zenon DEF AccountsOf
<1>4. IsFiniteSet(AccountsOf(c)) /\ Cardinality(AccountsOf(c)) <= Cardinality(Partitions)
  BY <1>2, <1>3, FS_Subset, Zenon
<1> QED
  BY <1>2, <1>4, Zenon

\* A fan-out's command acts where the user has no account yet.
LEMMA SignupActs ==
  ASSUME IInv, NEW p \in Partitions, NEW c \in Calls, NEW success \in BOOLEAN,
         Is(c, "Signup"), HandleMessage(p, c, success)
  PROVE  /\ effects'[c] = Cardinality(AccountsOf(c)')
         /\ \A d \in Calls : d # c => AccountsOf(d)' = AccountsOf(d)
<1>1. /\ accounts' = accounts \cup {<<p, c>>} /\ markets' = markets /\ orders' = orders
      /\ effects' = [effects EXCEPT ![c] =
                       IF <<markets, orders, accounts>>' = <<markets, orders, accounts>>
                       THEN @ ELSE @ + 1]
  BY HandleMessageCases, Zenon
<1>2. effects \in [Calls -> Nat]
  BY Zenon DEF IInv, TypeOK
<1>3. effects[c] = Cardinality(AccountsOf(c))
  BY Zenon DEF IInv, Effects, AccountsOf
<1>4. AccountsOf(c)' = AccountsOf(c) \cup {p}
  BY <1>1, Zenon DEF AccountsOf
<1>5. \A d \in Calls : d # c => AccountsOf(d)' = AccountsOf(d)
  BY <1>1, Zenon DEF AccountsOf
<1>6. CASE <<p, c>> \in accounts
  <2>1. accounts' = accounts /\ p \in AccountsOf(c)
    BY <1>1, <1>6, Zenon DEF AccountsOf
  <2>2. effects'[c] = effects[c]
    BY <1>1, <1>2, <2>1, Zenon
  <2>3. AccountsOf(c)' = AccountsOf(c)
    BY <1>4, <2>1, Zenon
  <2> QED
    BY <1>3, <1>5, <2>2, <2>3, Zenon
<1>7. CASE <<p, c>> \notin accounts
  <2>1. accounts' # accounts /\ p \notin AccountsOf(c)
    BY <1>1, <1>7, Zenon DEF AccountsOf
  <2>2. effects'[c] = effects[c] + 1
    BY <1>1, <1>2, <2>1, Zenon
  <2>3. Cardinality(AccountsOf(c) \cup {p}) = Cardinality(AccountsOf(c)) + 1
    BY <2>1, AccountsFinite, FS_AddElement, Zenon
  <2> QED
    BY <1>3, <1>4, <1>5, <2>2, <2>3, Zenon
<1> QED
  BY <1>6, <1>7, Zenon

\* What a delivery does shows in the engine, and nothing is done twice.
LEMMA DeliversEffects ==
  ASSUME IInv, NEW p \in Partitions, NEW c \in Calls, NEW success \in BOOLEAN,
         HandleMessage(p, c, success)
  PROVE  Effects'
<1>1. TypeOK
  BY Zenon DEF IInv
<1>2. /\ effects' \in [Calls -> Nat]
      /\ \A d \in Calls : d # c => effects'[d] = effects[d]
      /\ EngineGrows
  BY <1>1, HandleMessageTypes, Zenon
<1>3. ~Is(c, "Signup") =>
        /\ accounts' = accounts
        /\ \/ effects'[c] = effects[c]
           \/ effects'[c] = effects[c] + 1 /\ ~InEngine(c) /\ InEngine(c)'
  BY <1>1, HandleMessageActs, Zenon
<1>4. \A d \in Calls : InEngine(d) => InEngine(d)'
  BY <1>2, InEngineLasts, Zenon
<1>5. effects \in [Calls -> Nat]
  BY Zenon DEF IInv, TypeOK
<1>6. ASSUME NEW d \in Calls, Is(d, "Signup")
      PROVE  effects'[d] = Cardinality({q \in Partitions : <<q, d>> \in accounts'})
  <2>1. effects[d] = Cardinality(AccountsOf(d))
    BY <1>6, Zenon DEF IInv, Effects, AccountsOf
  <2>2. effects'[d] = Cardinality(AccountsOf(d)')
    <3>1. CASE Is(c, "Signup")
      BY <1>2, <2>1, <3>1, SignupActs, Zenon
    <3>2. CASE ~Is(c, "Signup")
      <4>1. accounts' = accounts /\ d # c
        BY <1>3, <1>6, <3>2, Zenon
      <4>2. AccountsOf(d)' = AccountsOf(d)
        BY <4>1, Zenon DEF AccountsOf
      <4> QED
        BY <1>2, <2>1, <4>1, <4>2, Zenon
    <3> QED
      BY <3>1, <3>2, Zenon
  <2> QED
    BY <2>2, Zenon DEF AccountsOf
<1>7. ASSUME NEW d \in Calls, ~Is(d, "Signup")
      PROVE  effects'[d] <= 1 /\ (effects'[d] # 0 => InEngine(d)')
  <2>1. effects[d] <= 1 /\ (effects[d] # 0 => InEngine(d))
    BY <1>7, Zenon DEF IInv, Effects
  <2>2. CASE d # c
    BY <1>2, <1>4, <2>1, <2>2, Zenon
  <2>3. CASE d = c
    BY <1>3, <1>4, <1>5, <1>7, <2>1, <2>3
  <2> QED
    BY <2>2, <2>3, Zenon
<1>8. ASSUME NEW d \in Calls, NEW e \in Calls, Is(d, "CreateOrder"), Is(e, "CreateOrder"),
             d # e, CallOf[d].order = CallOf[e].order
      PROVE  effects'[d] + effects'[e] <= 1
  <2>1. effects[d] + effects[e] <= 1
    BY <1>8, Zenon DEF IInv, Effects
  <2>2. ~Is(d, "Signup") /\ ~Is(e, "Signup")
    BY <1>8, Zenon DEF Is
  <2>3. (effects[d] # 0 => InEngine(d)) /\ (effects[e] # 0 => InEngine(e))
    BY <2>2, Zenon DEF IInv, Effects
  <2>4. InEngine(d) <=> InEngine(e)
    BY <1>8, Zenon DEF InEngine, Is
  <2> QED
    BY <1>2, <1>3, <1>5, <1>8, <2>1, <2>2, <2>3, <2>4
<1> QED
  BY <1>6, <1>7, <1>8, Zenon DEF Effects, Is

\* A delivery keeps the invariant.
LEMMA DeliversKeeps ==
  ASSUME IInv, NEW p \in Partitions, NEW c \in Calls, NEW success \in BOOLEAN,
         handled[p] < Len(commands[p]), c = commands[p][handled[p] + 1],
         Delivers(p, c, success)
  PROVE  IInv'
<1>1. /\ HandleMessage(p, c, success) /\ faults' \in 0..MaxFaults
      /\ scenario' = scenario /\ pc' = pc /\ attempts' = attempts
      /\ subscribed' = subscribed /\ answer' = answer /\ commands' = commands
      /\ eventRows' = eventRows /\ orderRows' = orderRows /\ userRows' = userRows
  BY Zenon DEF Delivers, dbVars
<1>2. /\ inbox' \in [Calls -> Seq(BOOLEAN)]
      /\ \A d \in Calls : inbox[d] # <<>> => inbox'[d] # <<>>
      /\ inbox' = [inbox EXCEPT ![c] = Append(@, success)] => inbox'[c] # <<>>
      /\ \A d \in Calls : TRUE \in Range(inbox'[d]) =>
           TRUE \in Range(inbox[d]) \/ (d = c /\ success)
  BY DeliversReplies
<1>3. /\ handled' \in [Partitions -> Nat]
      /\ \A q \in Partitions : handled'[q] \in 0..Len(commands[q])
      /\ \A d \in Calls : d # c \/ handled' = handled => (Handled(d)' <=> Handled(d))
  BY DeliversHandled
<1>4. /\ markets' \subseteq EventIds
      /\ orders' \in [Orders -> {"none", "open", "canceled"}]
      /\ accounts' \subseteq Partitions \X Calls
      /\ effects' \in [Calls -> Nat]
      /\ EngineGrows
  BY <1>1, HandleMessageTypes, Zenon DEF IInv
<1>5. success => InEngine(c)'
  BY <1>1, HandleMessageActs, Zenon DEF IInv
<1>6. \A d \in Calls : InEngine(d) => InEngine(d)'
  BY <1>4, InEngineLasts, Zenon
<1>7. \A o \in orderRows : orders'[o] # "none" /\ EventOf[o] \in eventRows
  BY <1>4, Zenon DEF IInv, TypeOK, Rows, EngineGrows, Known
<1>8. TypeOK'
  BY <1>1, <1>2, <1>3, <1>4, <1>7, Zenon DEF IInv, TypeOK
<1>9. Places'
  BY <1>1 DEF IInv, Places, Sent, Is
<1>10. Replies'
  <2> SUFFICES ASSUME NEW d \in Calls
               PROVE  /\ "reply" \notin scenario'.faults /\ d \in subscribed' /\ Handled(d)'
                           => inbox'[d] # <<>>
                      /\ TRUE \in Range(inbox'[d]) => InEngine(d)'
                      /\ answer'[d] = "ok" => InEngine(d)'
    BY Zenon DEF Replies
  <2>1. TRUE \in Range(inbox'[d]) => InEngine(d)'
    BY <1>2, <1>5, <1>6, Zenon DEF IInv, Replies
  <2>2. answer'[d] = "ok" => InEngine(d)'
    BY <1>1, <1>6, Zenon DEF IInv, Replies
  <2>3. ASSUME "reply" \notin scenario'.faults, d \in subscribed', Handled(d)'
        PROVE  inbox'[d] # <<>>
    <3>1. CASE d # c \/ handled' = handled
      BY <1>1, <1>2, <1>3, <2>3, <3>1, Zenon DEF IInv, Replies
    <3>2. CASE d = c /\ handled' # handled
      <4>1. inbox' = [inbox EXCEPT ![c] = Append(@, success)]
        BY <1>1, <2>3, <3>2, Zenon DEF Delivers
      <4> QED
        BY <1>2, <3>2, <4>1, Zenon
    <3> QED
      BY <3>1, <3>2, Zenon
  <2> QED
    BY <2>1, <2>2, <2>3, Zenon
<1>11. \A d \in Calls : EventAt(d)' = EventAt(d)
  BY Zenon DEF EventAt
<1>12. Rows'
  BY <1>1, <1>11, Zenon DEF IInv, Rows, Is
<1>13. Effects'
  BY <1>1, DeliversEffects, Zenon
<1> QED
  BY <1>3, <1>8, <1>9, <1>10, <1>12, <1>13, Zenon DEF IInv

\* Every step of the engine is a delivery.
LEMMA EngineKeeps ==
  ASSUME IInv, NEW p \in Partitions, ProcessStreamEntry(p) \/ ReplyLost(p) \/ Redeliver(p)
  PROVE  IInv'
<1>1. handled[p] < Len(commands[p])
  BY Zenon DEF ProcessStreamEntry, ReplyLost, Redeliver
<1>2. PICK c \in Calls : c = commands[p][handled[p] + 1]
  <2>1. PICK n \in Nat : n = handled[p]
    BY Zenon DEF IInv
  <2>2. PICK s \in Seq(scenario.calls) : s = commands[p]
    BY Zenon DEF IInv, TypeOK
  <2>3. n + 1 \in 1..Len(s)
    BY <1>1, <2>1, <2>2
  <2>4. s[n + 1] \in scenario.calls
    BY <2>2, <2>3
  <2>5. scenario.calls \subseteq Calls
    BY ApiAssumption, Zenon DEF IInv, TypeOK
  <2> QED
    BY <2>1, <2>2, <2>4, <2>5, Zenon
<1>3. NextEntry(p) = c
  BY <1>2, Zenon DEF NextEntry
<1>4. faults' \in 0..MaxFaults
  <2>1. CASE ProcessStreamEntry(p)
    BY <2>1, Zenon DEF ProcessStreamEntry, IInv, TypeOK
  <2>2. CASE ReplyLost(p)
    BY <2>2, FaultCounted, Zenon DEF ReplyLost
  <2>3. CASE Redeliver(p)
    BY <2>3, FaultCounted, Zenon DEF Redeliver
  <2> QED
    BY <2>1, <2>2, <2>3, Zenon
<1>5. UNCHANGED <<scenario, pc, attempts, subscribed, answer, commands, dbVars>>
  BY Zenon DEF ProcessStreamEntry, ReplyLost, Redeliver, callVars
<1>6. PICK success \in BOOLEAN : Delivers(p, c, success)
  <2>1. CASE ProcessStreamEntry(p)
    <3>1. PICK success \in BOOLEAN : HandleMessage(p, c, success) /\ Publish(c, success)
      BY <1>3, <2>1, Zenon DEF ProcessStreamEntry
    <3>2. handled' = [handled EXCEPT ![p] = @ + 1]
      BY <2>1, Zenon DEF ProcessStreamEntry
    <3>3. \/ c \notin subscribed /\ inbox' = inbox
          \/ c \in subscribed /\ inbox' = [inbox EXCEPT ![c] = Append(@, success)]
      BY <3>1, Zenon DEF Publish
    <3> QED
      BY <1>4, <1>5, <3>1, <3>2, <3>3, Zenon DEF Delivers
  <2>2. CASE ReplyLost(p)
    <3>1. PICK success \in BOOLEAN : HandleMessage(p, c, success)
      BY <1>3, <2>2, Zenon DEF ReplyLost
    <3>2. /\ handled' = [handled EXCEPT ![p] = @ + 1] /\ inbox' = inbox
          /\ "reply" \in scenario.faults
      BY <2>2, Zenon DEF ReplyLost, Fault, callVars
    <3> QED
      BY <1>4, <1>5, <3>1, <3>2, Zenon DEF Delivers
  <2>3. CASE Redeliver(p)
    <3>1. PICK success \in BOOLEAN : /\ HandleMessage(p, c, success)
                                     /\ Publish(c, success) \/ inbox' = inbox
      BY <1>3, <2>3, Zenon DEF Redeliver
    <3>2. handled' = handled
      BY <2>3, Zenon DEF Redeliver
    <3>3. \/ inbox' = inbox
          \/ c \in subscribed /\ inbox' = [inbox EXCEPT ![c] = Append(@, success)]
      BY <3>1, Zenon DEF Publish
    <3> QED
      BY <1>4, <1>5, <3>1, <3>2, <3>3, Zenon DEF Delivers
  <2> QED
    BY <2>1, <2>2, <2>3, Zenon
<1> QED
  BY <1>1, <1>2, <1>6, DeliversKeeps, Zenon

\* The DB worker inserts rows of orders that the engine knows.
LEMMA ProjectOrderKeeps ==
  ASSUME IInv, NEW o \in Orders, ProjectOrder(o)
  PROVE  IInv'
<1>1. /\ orders[o] # "none" /\ EventOf[o] \in eventRows
      /\ orderRows' = orderRows \cup {o}
      /\ scenario' = scenario /\ pc' = pc /\ attempts' = attempts
      /\ subscribed' = subscribed /\ inbox' = inbox /\ answer' = answer
      /\ commands' = commands /\ handled' = handled
      /\ markets' = markets /\ orders' = orders /\ accounts' = accounts
      /\ effects' = effects /\ eventRows' = eventRows /\ userRows' = userRows
      /\ faults' = faults
  BY Zenon DEF ProjectOrder, callVars, engineVars
<1>2. TypeOK'
  BY <1>1, Zenon DEF IInv, TypeOK
<1>3. \A c \in Calls : InEngine(c)' <=> InEngine(c)
  BY <1>1, Zenon DEF InEngine, EventAt, Is, Known
<1>4. \A c \in Calls : (Sent(c)' <=> Sent(c)) /\ (Handled(c)' <=> Handled(c))
  BY <1>1, Zenon DEF Sent, Handled
<1>5. Places'
  BY <1>1, <1>4, Zenon DEF IInv, Places, Is
<1>6. Replies'
  BY <1>1, <1>3, <1>4, Zenon DEF IInv, Replies
<1>7. \A c \in Calls : EventAt(c)' = EventAt(c)
  BY Zenon DEF EventAt
<1>8. Rows'
  BY <1>1, <1>7, Zenon DEF IInv, Rows, Is
<1>9. Effects'
  BY <1>1, <1>3, Zenon DEF IInv, Effects, Is
<1> QED
  BY <1>1, <1>2, <1>5, <1>6, <1>8, <1>9 DEF IInv

-----------------------------------------------------------------------------
(* The theorems *)

\* Before any call there is nothing to report.
LEMMA InitHolds ==
  Init => IInv
<1> SUFFICES ASSUME Init PROVE IInv
  BY Zenon
<1>1. /\ scenario \in Scenarios /\ faults = 0
      /\ pc = [c \in Calls |-> "new"] /\ attempts = [c \in Calls |-> 0]
      /\ subscribed = {} /\ inbox = [c \in Calls |-> <<>>]
      /\ answer = [c \in Calls |-> "none"]
      /\ commands = [p \in Partitions |-> <<>>] /\ handled = [p \in Partitions |-> 0]
      /\ markets = {} /\ orders = [o \in Orders |-> "none"] /\ accounts = {}
      /\ effects = [c \in Calls |-> 0]
      /\ eventRows = {} /\ orderRows = {} /\ userRows = {}
  BY Zenon DEF Init
<1>2. inbox \in [Calls -> Seq(BOOLEAN)] /\ commands \in [Partitions -> Seq(scenario.calls)]
  BY <1>1
<1>3. /\ \A p \in Partitions : handled[p] = 0 /\ commands[p] = <<>> /\ Len(commands[p]) = 0
      /\ handled \in [Partitions -> Nat]
  BY <1>1, Zenon
<1>4. TypeOK
  <2>1. faults \in 0..MaxFaults
    BY <1>1, ApiAssumption
  <2>2. \A p \in Partitions : handled[p] \in 0..Len(commands[p])
    BY <1>3
  <2> QED
    BY <1>1, <1>2, <2>1, <2>2, Zenon DEF TypeOK
<1>5. \A c \in Calls : ~Sent(c) /\ ~Handled(c)
  BY <1>3 DEF Sent, Handled
<1>6. Places
  BY <1>1, <1>5, Zenon DEF Places
<1>7. \A c \in Calls : Range(inbox[c]) = {} /\ answer[c] = "none" /\ c \notin subscribed
  BY <1>1, RangeOfSmall, Zenon
<1>8. Replies
  BY <1>5, <1>7, Zenon DEF Replies
<1>9. Rows
  BY <1>1, Zenon DEF Rows
<1>10. Effects
  <2>1. \A c \in Calls : effects[c] = 0
    BY <1>1, Zenon
  <2>2. \A c \in Calls : {p \in Partitions : <<p, c>> \in accounts} = {}
    BY <1>1, Zenon
  <2>3. Cardinality({}) = 0
    BY FS_EmptySet, Zenon
  <2>4. \A c \in Calls :
          effects[c] = Cardinality({p \in Partitions : <<p, c>> \in accounts})
    BY <2>1, <2>2, <2>3, Zenon
  <2>5. \A c, d \in Calls : effects[c] + effects[d] <= 1 /\ effects[c] <= 1
    BY <2>1
  <2> QED
    BY <2>1, <2>4, <2>5, Zenon DEF Effects
<1> QED
  BY <1>3, <1>4, <1>6, <1>8, <1>9, <1>10, Zenon DEF IInv

\* The first step of each handler.
LEMMA HandlersKeep ==
  ASSUME IInv, NEW c \in Calls, Handlers(c)
  PROVE  IInv'
<1>1. CASE CreateEvent(c)
  BY <1>1, CreateEventKeeps, Zenon
<1>2. CASE CreateOrder(c)
  <2>1. GetEventByID(EventAt(c)) \in BOOLEAN
    BY DEF GetEventByID
  <2> QED
    BY <1>2, <2>1, LookUpKeeps, Zenon DEF CreateOrder
<1>3. CASE DeleteOrder(c)
  <2>1. GetOrderByID(CallOf[c].order) \in BOOLEAN
    BY DEF GetOrderByID
  <2> QED
    BY <1>3, <2>1, LookUpKeeps, Zenon DEF DeleteOrder
<1>4. CASE GetOrderbook(c)
  <2>1. GetEventByID(EventAt(c)) \in BOOLEAN
    BY DEF GetEventByID
  <2> QED
    BY <1>4, <2>1, LookUpKeeps DEF GetOrderbook
<1>5. CASE Signup(c)
  BY <1>5, SignupKeeps, Zenon
<1> QED
  BY <1>1, <1>2, <1>3, <1>4, <1>5, Zenon DEF Handlers

\* Every later step of a call, and every failure.
LEMMA ContinueKeeps ==
  ASSUME IInv, NEW c \in Calls, Continue(c) \/ Fails(c)
  PROVE  IInv'
<1>1. CASE CreateUser(c)
  BY <1>1, CreateUserKeeps, Zenon
<1>2. CASE SendCommandFanout(c) \/ FanoutFails(c)
  BY <1>2, FanoutKeeps
<1>3. CASE Subscribe(c)
  BY <1>3, SubscribeKeeps, Zenon
<1>4. CASE AppendCommand(c)
  BY <1>4, AppendCommandKeeps, Zenon
<1>5. CASE AwaitResponse(c)
  BY <1>5, AwaitResponseKeeps, Zenon
<1>6. CASE GiveUp(c)
  BY <1>6, GiveUpKeeps, Zenon
<1>7. CASE Rollback(c)
  BY <1>7, RollbackKeeps, Zenon
<1>8. CASE SubscribeFails(c)
  BY <1>8, SubscribeFailsKeeps, Zenon
<1>9. CASE AppendFails(c)
  BY <1>9, AppendFailsKeeps, Zenon
<1>10. CASE Disconnect(c)
  BY <1>10, DisconnectKeeps, Zenon
<1> QED
  BY <1>1, <1>2, <1>3, <1>4, <1>5, <1>6, <1>7, <1>8, <1>9, <1>10 DEF Continue, Fails

\* A step that changes nothing.
LEMMA StutterKeeps ==
  ASSUME IInv, UNCHANGED vars
  PROVE  IInv'
<1>1. /\ scenario' = scenario /\ pc' = pc /\ attempts' = attempts
      /\ subscribed' = subscribed /\ inbox' = inbox /\ answer' = answer
      /\ commands' = commands /\ handled' = handled
      /\ markets' = markets /\ orders' = orders /\ accounts' = accounts
      /\ effects' = effects /\ eventRows' = eventRows /\ orderRows' = orderRows
      /\ userRows' = userRows /\ faults' = faults
  BY Zenon DEF vars, callVars, engineVars, dbVars
<1>2. \A c \in Calls : /\ InEngine(c)' <=> InEngine(c)
                       /\ Sent(c)' <=> Sent(c)
                       /\ Handled(c)' <=> Handled(c)
                       /\ EventAt(c)' = EventAt(c)
  BY <1>1, Zenon DEF InEngine, EventAt, Is, Known, Sent, Handled
<1>3. TypeOK'
  BY <1>1, Zenon DEF IInv, TypeOK
<1>4. Places' /\ Replies'
  BY <1>1, <1>2, Zenon DEF IInv, Places, Replies, Is
<1>5. Rows' /\ Effects'
  BY <1>1, <1>2, Zenon DEF IInv, Rows, Effects, Is
<1> QED
  BY <1>1, <1>3, <1>4, <1>5, Zenon DEF IInv

\* The invariant holds whatever calls are made, and whatever fails.
THEOREM Invariance == Spec => []IInv
<1>1. IInv /\ [Next]_vars => IInv'
  <2> SUFFICES ASSUME IInv, [Next]_vars PROVE IInv'
    BY Zenon
  <2>1. ASSUME NEW c \in Calls, Handlers(c) \/ Continue(c) \/ Fails(c) PROVE IInv'
    BY <2>1, HandlersKeep, ContinueKeeps, Zenon
  <2>2. ASSUME NEW p \in Partitions, ProcessStreamEntry(p) \/ ReplyLost(p) \/ Redeliver(p)
        PROVE  IInv'
    BY <2>2, EngineKeeps, Zenon
  <2>3. ASSUME NEW o \in Orders, ProjectOrder(o) PROVE IInv'
    BY <2>3, ProjectOrderKeeps, Zenon
  <2>4. CASE Crash
    BY <2>4, CrashKeeps, Zenon
  <2>5. CASE UNCHANGED vars
    BY <2>5, StutterKeeps, Zenon
  <2> QED
    BY <2>1, <2>2, <2>3, <2>4, <2>5, Zenon DEF Next
<1> QED
  BY <1>1, InitHolds, PTL DEF Spec

\* Calls are somewhere in their handlers, an answered call is done, only calls
\* that wait for a reply are subscribed, and the rows of orders have the row
\* of their event (the foreign key).
THEOREM ApiTypes == Spec => []TypeOK
<1>1. IInv => TypeOK
  BY Zenon DEF IInv
<1> QED
  BY <1>1, Invariance, PTL

\* What a handler reports has happened, and for good: the event is in the
\* database and the engine, the order is placed or canceled, the user is in
\* the database, and no address is signed up twice.
THEOREM ReportsAreTrue == Spec => []AnswersTrue
<1>1. IInv => AnswersTrue
  <2> SUFFICES ASSUME IInv PROVE AnswersTrue
    BY Zenon
  <2>1. ASSUME NEW c \in Calls, answer[c] = "ok"
        PROVE  CASE Is(c, "CreateEvent") -> EventAt(c) \in eventRows \cap markets
                 [] Is(c, "CreateOrder") -> orders[CallOf[c].order] # "none"
                 [] Is(c, "DeleteOrder") -> orders[CallOf[c].order] = "canceled"
                 [] Is(c, "GetOrderbook") -> EventAt(c) \in markets
                 [] Is(c, "Signup") -> c \in userRows
    <3>1. InEngine(c)
      BY <2>1, Zenon DEF IInv, Replies
    <3>2. /\ Is(c, "CreateEvent") => EventAt(c) \in eventRows
          /\ Is(c, "Signup") => c \in userRows
      BY <2>1, Zenon DEF IInv, Rows
    <3>3. CallOf[c].op \in Operations
      BY OneOperation, Zenon
    <3> QED
      BY <3>1, <3>2, <3>3, Zenon DEF InEngine, Operations, Is, Known
  <2>2. \A c, d \in userRows : CallOf[c].email = CallOf[d].email => c = d
    BY Zenon DEF IInv, Rows
  <2> QED
    BY <2>1, <2>2, Zenon DEF AnswersTrue
<1> QED
  BY <1>1, Invariance, PTL

\* However often SendCommand retries XADD or the engine is given the entry
\* again, the command of a call acts at most once, a fan-out's once in each
\* partition, and two calls with the same order id once together.
THEOREM CommandsActOnce == Spec => []ActsAtMostOnce
<1>1. IInv => ActsAtMostOnce
  <2> SUFFICES ASSUME IInv PROVE ActsAtMostOnce
    BY Zenon
  <2>1. ASSUME NEW c \in Calls
        PROVE  effects[c] <= IF Is(c, "Signup") THEN NumPartitions ELSE 1
    <3>1. CASE Is(c, "Signup")
      <4>1. effects[c] = Cardinality(AccountsOf(c))
        BY <3>1, Zenon DEF IInv, Effects, AccountsOf
      <4> QED
        BY <3>1, <4>1, AccountsFinite, Zenon
    <3>2. CASE ~Is(c, "Signup")
      BY <3>2, Zenon DEF IInv, Effects
    <3> QED
      BY <3>1, <3>2, Zenon
  <2> QED
    BY <2>1, Zenon DEF IInv, Effects, ActsAtMostOnce
<1> QED
  BY <1>1, Invariance, PTL

\* SendAndAwait subscribes before it appends, so that a caller whose command
\* has been handled finds the reply, unless Redis has lost it.
THEOREM NoReplyIsMissed == Spec => []NoReplyMissed
<1>1. IInv => NoReplyMissed
  BY Zenon DEF IInv, Places, Replies, NoReplyMissed
<1> QED
  BY <1>1, Invariance, PTL
=============================================================================
