------------------------ MODULE WebSocketHubTheorems ------------------------
(***************************************************************************)
(* Proofs about WebSocketHub, for any clients, events, buffer size and     *)
(* bounds: a client gets the updates of its events in order and, until it  *)
(* is closed, without a gap; and it is closed once, by whichever goroutine *)
(* comes first.                                                            *)
(*                                                                         *)
(* The order of what a client has received says nothing of what it gets    *)
(* next.  The invariant speaks of received and send as one line, and says  *)
(* that the update being handed out is newer than all in the lines of its  *)
(* remaining targets.                                                      *)
(***************************************************************************)
EXTENDS WebSocketHub, SequenceTheorems, TLAPS

-----------------------------------------------------------------------------
(* Sequences and their elements *)

\* The elements of a sequence are its values at 1..Len.
LEMMA InRange ==
  ASSUME NEW S, NEW s \in Seq(S), NEW y
  PROVE  y \in Range(s) <=> \E i \in 1..Len(s) : y = s[i]
<1>1. DOMAIN s = 1..Len(s)
  OBVIOUS
<1> QED
  BY <1>1, Zenon DEF Range

\* Appending adds one element.
LEMMA RangeOfAppend ==
  ASSUME NEW S, NEW s \in Seq(S), NEW x \in S
  PROVE  /\ Append(s, x) \in Seq(S)
         /\ Range(Append(s, x)) = Range(s) \cup {x}
<1> DEFINE t == Append(s, x)
<1>1. /\ t \in Seq(S) /\ Len(s) \in Nat /\ Len(t) = Len(s) + 1
      /\ t[Len(s) + 1] = x /\ \A i \in 1..Len(s) : t[i] = s[i]
  OBVIOUS
<1> HIDE DEF t
<1>2. ASSUME NEW y PROVE y \in Range(t) <=> y \in Range(s) \cup {x}
  <2>1. y \in Range(t) <=> \E i \in 1..Len(t) : y = t[i]
    BY <1>1, InRange
  <2>2. y \in Range(s) <=> \E i \in 1..Len(s) : y = s[i]
    BY InRange
  <2> QED
    BY <1>1, <2>1, <2>2
<1> QED
  BY <1>1, <1>2, Zenon DEF t

\* The empty and the one-element sequence.
LEMMA RangeOfSmall ==
  /\ Range(<<>>) = {}
  /\ \A x : Range(<<x>>) = {x}
  BY DEF Range

\* What is on its way to the peer of c, or has reached it.
Line(c) == received[c] \o send[c]

Message == Nat \cup {ErrorReply}

\* The types of the variables.
WellTyped ==
    /\ published \in Seq(Events \cup {Unreadable}) /\ handled \in Nat
    /\ targets \subseteq Clients /\ clients \subseteq Clients
    /\ subscriptions \in [Events -> SUBSET Clients]
    /\ reader \in [Clients -> {"none", "reading", "subscribing", "unsubscribing",
                               "closing", "done"}]
    /\ params \in [Clients -> SUBSET Events]
    /\ writer \in [Clients -> {"none", "writing", "done"}]
    /\ send \in [Clients -> Seq(Message)] /\ received \in [Clients -> Seq(Message)]
    /\ due \in [Clients -> SUBSET Nat]
    /\ closing \subseteq Calls

\* Before its connection is made nothing is said to or of a client; a reader
\* has the events of a request only while it processes it.
Starting ==
    \A c \in Clients :
      /\ reader[c] = "none" <=> writer[c] = "none"
      /\ reader[c] = "none" => c \notin targets /\ due[c] = {} /\ Line(c) = <<>>
      /\ params[c] # {} => reader[c] \in {"subscribing", "unsubscribing"}

\* Updates are numbered by their places on the channel, and the one being
\* handed out has not been sent to its targets.
Numbered ==
    \A c \in Clients :
      /\ due[c] \subseteq 1..handled
      /\ c \in targets => handled \in due[c]
      /\ writer[c] = "writing" => \A m \in Updates(Line(c)) :
           m \in 1..handled /\ (c \in targets => m < handled)

\* What a client is sent is in order, and complete until it is closed.
InLine ==
    \A c \in Clients :
      /\ writer[c] = "writing" => InOrder(Line(c))
      /\ InOrder(received[c])
      /\ writer[c] = "writing" /\ c \notin closed =>
           Updates(Line(c)) = IF c \in targets THEN due[c] \ {handled} ELSE due[c]

\* One goroutine closes a client.
ClosedOnce ==
    /\ \A k \in closing :
         /\ k.of \in closed
         /\ k.at = "channel" <=> k.of \notin ended
    /\ \A k, l \in closing : k.of = l.of => k = l

\* The other conjuncts of ClientLifecycle.
Flags ==
    /\ panic # "close of closed channel"
    /\ hungUp \subseteq ended /\ ended \subseteq closed
    /\ \A c \in Clients : Len(send[c]) <= SendBufferSize

\* A client is in the hub only while its ReadPump runs.
Listed ==
    \A c \in Clients : reader[c] \in {"none", "closing", "done"} =>
        c \notin clients /\ \A e \in Events : c \notin subscriptions[e]

\* The inductive invariant.
IInv == WellTyped /\ Starting /\ Numbered /\ InLine /\ ClosedOnce /\ Flags /\ Listed

-----------------------------------------------------------------------------
(* Lines *)

\* A message that goes into the buffer goes to the end of the line.
LEMMA ConcatAppend ==
  ASSUME NEW S, NEW r \in Seq(S), NEW s \in Seq(S), NEW m \in S
  PROVE  r \o Append(s, m) = Append(r \o s, m)
  OBVIOUS

\* A message that goes from the buffer to the peer stays in its place.
LEMMA ConcatShift ==
  ASSUME NEW S, NEW r \in Seq(S), NEW s \in Seq(S), s # <<>>
  PROVE  Append(r, Head(s)) \o Tail(s) = r \o s
  OBVIOUS

\* An error reply, or an update newer than all others, may go to the end of a
\* line.
LEMMA InOrderAppend ==
  ASSUME NEW s \in Seq(Message), NEW m \in Message, InOrder(s),
         m = ErrorReply \/ \A x \in Updates(s) : x < m
  PROVE  InOrder(Append(s, m))
<1> DEFINE t == Append(s, m)
<1>1. /\ Len(s) \in Nat /\ DOMAIN s = 1..Len(s) /\ DOMAIN t = 1..(Len(s) + 1)
      /\ t[Len(s) + 1] = m /\ \A i \in 1..Len(s) : t[i] = s[i]
  OBVIOUS
<1> HIDE DEF t
<1>2. \A i \in 1..Len(s) : s[i] # ErrorReply => s[i] \in Updates(s)
  BY <1>1, InRange, Zenon DEF Updates
<1> SUFFICES ASSUME NEW i \in DOMAIN t, NEW j \in DOMAIN t, i < j,
                    t[i] # ErrorReply, t[j] # ErrorReply
             PROVE  t[i] < t[j]
  BY Zenon DEF InOrder, t
<1>3. i \in 1..Len(s)
  BY <1>1
<1>4. CASE j \in 1..Len(s)
  BY <1>1, <1>3, <1>4, Zenon DEF InOrder
<1>5. CASE j = Len(s) + 1
  BY <1>1, <1>2, <1>3, <1>5, Zenon
<1> QED
  BY <1>1, <1>4, <1>5

\* The beginning of a line in order is in order.
LEMMA InOrderPrefix ==
  ASSUME NEW r \in Seq(Message), NEW s \in Seq(Message), InOrder(r \o s)
  PROVE  InOrder(r)
<1>1. /\ Len(r) \in Nat /\ DOMAIN r = 1..Len(r)
      /\ \A i \in 1..Len(r) : i \in DOMAIN (r \o s) /\ (r \o s)[i] = r[i]
  OBVIOUS
<1> QED
  BY <1>1, Zenon DEF InOrder

-----------------------------------------------------------------------------
(* Groups of conjuncts that a step leaves alone *)

\* The lines of clients, and what they are due.
LEMMA LinesKept ==
  ASSUME IInv, UNCHANGED <<handled, targets, send, received, due, writer>>,
         closed \subseteq closed'
  PROVE  Numbered' /\ InLine'
<1>1. Numbered'
  BY Zenon DEF IInv, Numbered, Line, Updates
<1>2. InLine'
  BY Zenon DEF IInv, InLine, Line, Updates, InOrder
<1> QED
  BY <1>1, <1>2, Zenon

\* The calls of Client.close.
LEMMA ClosesKept ==
  ASSUME IInv, UNCHANGED <<closing, closed, ended>>
  PROVE  ClosedOnce'
  BY Zenon DEF IInv, ClosedOnce

\* The first call of Client.close sets the flag and is the only one to go on.
LEMMA CloseKeeps ==
  ASSUME IInv, NEW g \in Goroutines, NEW c \in Clients, Close(g, c), ended' = ended
  PROVE  ClosedOnce' /\ closed \subseteq closed' /\ closing' \subseteq Calls
<1>1. closed' = closed \cup {c}
  BY Zenon DEF Close
<1>2. closed \subseteq closed'
  BY <1>1, Zenon
<1>3. CASE c \in closed
  <2>1. closing' = closing
    BY <1>3, Zenon DEF Close
  <2> QED
    BY <1>2, <2>1, Zenon DEF IInv, WellTyped, ClosedOnce
<1>4. CASE c \notin closed
  <2>1. PICK n : n = Call(g, c, "channel")
    BY Zenon
  <2>2. closing' = closing \cup {n}
    BY <1>4, <2>1, Zenon DEF Close
  <2>3. n \in Calls
    BY <2>1 DEF Calls
  <2>4. n.of = c /\ n.at = "channel"
    BY <2>1, Zenon DEF Call
  <2>5. c \notin ended
    BY <1>4, Zenon DEF IInv, Flags
  <2>6. \A k \in closing : k.of # c
    BY <1>4, Zenon DEF IInv, ClosedOnce
  <2>7. \A k \in closing' : k.of \in closed' /\ (k.at = "channel" <=> k.of \notin ended')
    <3> SUFFICES ASSUME NEW k \in closing'
                 PROVE  k.of \in closed' /\ (k.at = "channel" <=> k.of \notin ended')
      BY Zenon
    <3>1. CASE k = n
      BY <1>1, <2>4, <2>5, <3>1, Zenon
    <3>2. CASE k \in closing
      BY <1>2, <3>2, Zenon DEF IInv, ClosedOnce
    <3> QED
      BY <2>2, <3>1, <3>2, Zenon
  <2>8. \A k, l \in closing' : k.of = l.of => k = l
    BY <2>2, <2>4, <2>6, Zenon DEF IInv, ClosedOnce
  <2> QED
    BY <1>2, <2>2, <2>3, <2>7, <2>8, Zenon DEF IInv, WellTyped, ClosedOnce
<1> QED
  BY <1>3, <1>4, Zenon

-----------------------------------------------------------------------------
(* The peers and the channel *)

\* At first nobody is connected.
LEMMA InitHolds == Init => IInv
<1> SUFFICES ASSUME Init PROVE IInv
  BY Zenon
<1>1. WellTyped
  <2>1. /\ published \in Seq(Events \cup {Unreadable})
        /\ send \in [Clients -> Seq(Message)] /\ received \in [Clients -> Seq(Message)]
    <3>1. \A S : <<>> \in Seq(S)
      OBVIOUS
    <3> QED
      BY <3>1, Zenon DEF Init
  <2>2. /\ targets \subseteq Clients /\ clients \subseteq Clients /\ closing \subseteq Calls
        /\ subscriptions \in [Events -> SUBSET Clients]
        /\ params \in [Clients -> SUBSET Events] /\ due \in [Clients -> SUBSET Nat]
    BY Zenon DEF Init
  <2>3. handled \in Nat
    BY Zenon DEF Init
  <2> QED
    BY <2>1, <2>2, <2>3, Zenon DEF Init, WellTyped
<1>2. \A c \in Clients : Line(c) = <<>> /\ received[c] = <<>> /\ send[c] = <<>>
  <2>1. <<>> \o <<>> = <<>>
    OBVIOUS
  <2> QED
    BY <2>1, Zenon DEF Init, Line
<1>3. Starting /\ Numbered
  BY <1>2, Zenon DEF Init, Starting, Numbered
<1>4. InLine
  <2>1. InOrder(<<>>) /\ Updates(<<>>) = {}
    BY RangeOfSmall DEF InOrder, Updates
  <2> QED
    BY <1>2, <2>1, Zenon DEF Init, InLine
<1>5. ClosedOnce
  BY Zenon DEF Init, ClosedOnce
<1>6. Flags
  <2>1. Len(<<>>) <= SendBufferSize
    BY HubAssumption
  <2> QED
    BY <1>2, <2>1, Zenon DEF Init, Flags
<1>7. Listed
  BY Zenon DEF Init, Listed
<1> QED
  BY <1>1, <1>3, <1>4, <1>5, <1>6, <1>7, Zenon DEF IInv

\* The engine publishes an update.
LEMMA PublishKeeps ==
  ASSUME IInv, Publish PROVE IInv'
<1>1. /\ \E e \in Events \cup {Unreadable} : published' = Append(published, e)
      /\ UNCHANGED <<handled, targets, clients, subscriptions, reader, params, writer,
                     send, closing, closed, ended, hungUp, due, received, panic>>
  BY Zenon DEF Publish, hubVars, readerVars, closeVars, history
<1>2. WellTyped'
  <2>1. published' \in Seq(Events \cup {Unreadable})
    BY <1>1 DEF IInv, WellTyped
  <2> QED
    BY <1>1, <2>1, Zenon DEF IInv, WellTyped
<1>3. Numbered' /\ InLine' /\ ClosedOnce'
  BY <1>1, LinesKept, ClosesKept, Zenon
<1>4. Starting' /\ Flags' /\ Listed'
  BY <1>1, Zenon DEF IInv, Starting, Line, Flags, Listed
<1> QED
  BY <1>2, <1>3, <1>4, Zenon DEF IInv

\* Handle registers a client that nobody has sent anything.
LEMMA HandleKeeps ==
  ASSUME IInv, NEW c \in Clients, Handle(c) PROVE IInv'
<1>1. /\ reader[c] = "none"
      /\ clients' = clients \cup {c}
      /\ reader' = [reader EXCEPT ![c] = "reading"]
      /\ writer' = [writer EXCEPT ![c] = "writing"]
      /\ UNCHANGED <<published, handled, targets, subscriptions, params, requests, send,
                     closing, closed, ended, hungUp, due, received, panic>>
  BY Zenon DEF Handle, Register, ReaderGoto, WriterGoto, busVars, closeVars, history
<1>2. WellTyped'
  BY <1>1, Zenon DEF IInv, WellTyped
<1>3. /\ c \notin targets /\ due[c] = {} /\ Line(c) = <<>>
      /\ \A x \in Clients : Line(x)' = Line(x)
  BY <1>1, Zenon DEF IInv, Starting, Line
<1>4. \A x \in Clients : x # c => reader'[x] = reader[x] /\ writer'[x] = writer[x]
  BY <1>1, Zenon DEF IInv, WellTyped
<1>5. reader'[c] = "reading" /\ writer'[c] = "writing"
  BY <1>1, Zenon DEF IInv, WellTyped
<1>6. Updates(<<>>) = {} /\ InOrder(<<>>)
  BY RangeOfSmall DEF Updates, InOrder
<1>7. Starting'
  BY <1>1, <1>3, <1>4, <1>5 DEF IInv, Starting
<1>8. Numbered'
  BY <1>1, <1>3, <1>4, <1>6, Zenon DEF IInv, Numbered
<1>9. InLine'
  <2> SUFFICES ASSUME NEW x \in Clients
               PROVE  /\ writer'[x] = "writing" => InOrder(Line(x)')
                      /\ InOrder(received'[x])
                      /\ writer'[x] = "writing" /\ x \notin closed' =>
                           Updates(Line(x)') = IF x \in targets' THEN due'[x] \ {handled'}
                                                                 ELSE due'[x]
    BY Zenon DEF InLine, InOrder, Updates
  <2>1. CASE x = c
    BY <1>1, <1>3, <1>6, <2>1, Zenon DEF IInv, InLine
  <2>2. CASE x # c
    BY <1>1, <1>3, <1>4, <2>2, Zenon DEF IInv, InLine
  <2> QED
    BY <2>1, <2>2, Zenon
<1>10. ClosedOnce'
  BY <1>1, ClosesKept, Zenon
<1>11. Flags'
  BY <1>1, Zenon DEF IInv, Flags
<1>12. Listed'
  BY <1>1, <1>4, <1>5, Zenon DEF IInv, Listed
<1> QED
  BY <1>2, <1>7, <1>8, <1>9, <1>10, <1>11, <1>12, Zenon DEF IInv

\* A peer that leaves changes nothing of what the gateway knows.
LEMMA PeerLeavesKeeps ==
  ASSUME IInv, NEW c \in Clients, PeerLeaves(c) PROVE IInv'
<1>1. UNCHANGED <<published, handled, targets, clients, subscriptions, reader, params,
                  writer, send, closing, closed, ended, hungUp, due, received, panic>>
  BY Zenon DEF PeerLeaves, busVars, hubVars, readerVars, closeVars, history
<1>2. Numbered' /\ InLine' /\ ClosedOnce'
  BY <1>1, LinesKept, ClosesKept, Zenon
<1>3. WellTyped' /\ Starting' /\ Flags' /\ Listed'
  BY <1>1, Zenon DEF IInv, WellTyped, Starting, Line, Flags, Listed
<1> QED
  BY <1>2, <1>3, Zenon DEF IInv

-----------------------------------------------------------------------------
(* Client.close and Client.Send *)

\* The channel that is closed has not been closed before.
LEMMA CloseChannelKeeps ==
  ASSUME IInv, NEW k \in Calls, CloseChannel(k) PROVE IInv'
<1>1. /\ k \in closing /\ k.at = "channel"
      /\ closing' = (closing \ {k}) \cup {Call(k.by, k.of, "conn")}
      /\ ended' = ended \cup {k.of}
      /\ panic' = IF k.of \in ended THEN "close of closed channel" ELSE ""
      /\ UNCHANGED <<published, handled, targets, clients, subscriptions, reader, params,
                     writer, send, closed, hungUp, due, received>>
  BY Zenon DEF CloseChannel, busVars, hubVars, readerVars, history
<1>2. PICK n : n = Call(k.by, k.of, "conn")
  BY Zenon
<1>3. n.of = k.of /\ n.at = "conn"
  BY <1>2, Zenon DEF Call
<1>4. n \in Calls
  <2>1. k.by \in Goroutines /\ k.of \in Clients
    BY DEF Calls, Call
  <2> QED
    BY <1>2, <2>1 DEF Calls
<1>5. k.of \in closed /\ k.of \notin ended
  BY <1>1, Zenon DEF IInv, ClosedOnce
<1>6. \A l \in closing : l # k => l.of # k.of
  BY <1>1, Zenon DEF IInv, ClosedOnce
<1>7. \A l \in closing' : l = n \/ (l \in closing /\ l # k)
  BY <1>1, <1>2, Zenon
<1>8. ClosedOnce'
  <2>1. \A l \in closing' : l.of \in closed' /\ (l.at = "channel" <=> l.of \notin ended')
    <3> SUFFICES ASSUME NEW l \in closing'
                 PROVE  l.of \in closed' /\ (l.at = "channel" <=> l.of \notin ended')
      BY Zenon
    <3>1. CASE l = n
      BY <1>1, <1>3, <1>5, <3>1, Zenon
    <3>2. CASE l \in closing /\ l # k
      <4>1. l.of \in closed /\ (l.at = "channel" <=> l.of \notin ended) /\ l.of # k.of
        BY <1>6, <3>2, Zenon DEF IInv, ClosedOnce
      <4> QED
        BY <1>1, <4>1, Zenon
    <3> QED
      BY <1>7, <3>1, <3>2, Zenon
  <2>2. \A l, m \in closing' : l.of = m.of => l = m
    BY <1>3, <1>6, <1>7, Zenon DEF IInv, ClosedOnce
  <2> QED
    BY <2>1, <2>2, Zenon DEF ClosedOnce
<1>9. WellTyped'
  <2>1. closing' \subseteq Calls
    BY <1>1, <1>2, <1>4, Zenon DEF IInv, WellTyped
  <2> QED
    BY <1>1, <2>1, Zenon DEF IInv, WellTyped
<1>10. Numbered' /\ InLine'
  BY <1>1, LinesKept, Zenon
<1>11. Flags'
  BY <1>1, <1>5, Zenon DEF IInv, Flags
<1>12. Starting' /\ Listed'
  BY <1>1, Zenon DEF IInv, Starting, Line, Listed
<1> QED
  BY <1>8, <1>9, <1>10, <1>11, <1>12, Zenon DEF IInv

\* The connection is closed after the channel.
LEMMA CloseConnKeeps ==
  ASSUME IInv, NEW k \in Calls, CloseConn(k) PROVE IInv'
<1>1. /\ k \in closing /\ k.at = "conn"
      /\ closing' = closing \ {k}
      /\ hungUp' = hungUp \cup {k.of}
      /\ UNCHANGED <<published, handled, targets, clients, subscriptions, reader, params,
                     writer, send, closed, ended, due, received, panic>>
  BY Zenon DEF CloseConn, busVars, hubVars, readerVars, history
<1>2. k.of \in ended
  BY <1>1, Zenon DEF IInv, ClosedOnce
<1>3. ClosedOnce'
  BY <1>1, Zenon DEF IInv, ClosedOnce
<1>4. WellTyped'
  <2>1. closing' \subseteq Calls
    BY <1>1, Zenon DEF IInv, WellTyped
  <2> QED
    BY <1>1, <2>1, Zenon DEF IInv, WellTyped
<1>5. Numbered' /\ InLine'
  BY <1>1, LinesKept, Zenon
<1>6. Flags'
  BY <1>1, <1>2, Zenon DEF IInv, Flags
<1>7. Starting' /\ Listed'
  BY <1>1, Zenon DEF IInv, Starting, Line, Listed
<1> QED
  BY <1>3, <1>4, <1>5, <1>6, <1>7, Zenon DEF IInv

\* The message is a reply to a client that is read from, or the update that
\* is handed out to it.
Sends(c, m) ==
    \/ m = ErrorReply /\ targets' = targets /\ reader[c] = "reading"
    \/ m = handled /\ c \in targets /\ targets' = targets \ {c}

\* Client.Send puts the message at the end of the client's line, or closes it.
LEMMA SendToKeeps ==
  ASSUME IInv, NEW g \in Goroutines, NEW c \in Clients, NEW m, SendTo(g, c, m), Sends(c, m),
         UNCHANGED <<published, handled, clients, subscriptions, reader, params, writer,
                     ended, hungUp, due, received>>
  PROVE  IInv'
<1>1. /\ targets' \subseteq targets
      /\ \A x \in Clients : x # c => (x \in targets' <=> x \in targets)
  BY Zenon DEF Sends
<1>2. m \in Message
  BY Zenon DEF Sends, Message, IInv, WellTyped
<1>3. reader[c] # "none"
  BY Zenon DEF IInv, Starting, Sends
<1>4. Listed'
  BY Zenon DEF IInv, Listed
<1>5. CASE /\ c \notin ended /\ Len(send[c]) < SendBufferSize
           /\ send' = [send EXCEPT ![c] = Append(@, m)]
           /\ UNCHANGED <<closing, closed, panic>>
  <2>1. /\ received[c] \in Seq(Message) /\ send[c] \in Seq(Message)
        /\ Line(c) \in Seq(Message)
    BY DEF IInv, WellTyped, Line
  <2>2. /\ send'[c] = Append(send[c], m)
        /\ \A x \in Clients : x # c => send'[x] = send[x]
    BY <1>5, Zenon DEF IInv, WellTyped
  <2>3. Line(c)' = Append(Line(c), m)
    <3>1. PICK r \in Seq(Message), s \in Seq(Message) : r = received[c] /\ s = send[c]
      BY <2>1, Zenon
    <3>2. r \o Append(s, m) = Append(r \o s, m)
      BY <1>2, ConcatAppend
    <3> QED
      BY <2>2, <3>1, <3>2, Zenon DEF Line
  <2>4. \A x \in Clients : x # c => Line(x)' = Line(x)
    BY <2>2, Zenon DEF Line
  <2>5. /\ Append(send[c], m) \in Seq(Message)
        /\ Len(Append(send[c], m)) <= SendBufferSize
    BY <1>2, <1>5, <2>1, HubAssumption
  <2>6. WellTyped'
    <3>1. send' \in [Clients -> Seq(Message)]
      BY <1>5, <2>5, Zenon DEF IInv, WellTyped
    <3> QED
      BY <1>1, <1>5, <3>1, Zenon DEF IInv, WellTyped
  <2>7. Starting'
    BY <1>1, <1>3, <2>4, Zenon DEF IInv, Starting
  <2>8. ClosedOnce'
    BY <1>5, ClosesKept, Zenon
  <2>9. Flags'
    BY <1>5, <2>2, <2>5, Zenon DEF IInv, Flags
  <2>10. Range(Append(Line(c), m)) = Range(Line(c)) \cup {m}
    BY <1>2, <2>1, RangeOfAppend
  <2>11. Updates(Line(c))' = Updates(Line(c)) \cup (IF m = ErrorReply THEN {} ELSE {m})
    BY <2>3, <2>10, Zenon DEF Updates
  <2>12. handled # ErrorReply
    BY HubAssumption, Zenon DEF IInv, WellTyped
  <2>13. Numbered'
    <3> SUFFICES ASSUME NEW x \in Clients
                 PROVE  /\ due'[x] \subseteq 1..handled'
                        /\ x \in targets' => handled' \in due'[x]
                        /\ writer'[x] = "writing" => \A y \in Updates(Line(x))' :
                             y \in 1..handled' /\ (x \in targets' => y < handled')
      BY Zenon DEF Numbered
    <3>1. due'[x] \subseteq 1..handled' /\ (x \in targets' => handled' \in due'[x])
      BY <1>1, Zenon DEF IInv, Numbered
    <3>2. CASE x # c
      <4>1. Updates(Line(x))' = Updates(Line(x))
        BY <2>4, <3>2, Zenon DEF Updates
      <4> QED
        BY <1>1, <3>1, <3>2, <4>1, Zenon DEF IInv, Numbered
    <3>3. CASE x = c
      <4>1. m # ErrorReply => m \in 1..handled /\ c \notin targets'
        BY <2>12, Zenon DEF Sends, IInv, Numbered
      <4> SUFFICES ASSUME writer[c] = "writing", NEW y \in Updates(Line(c))'
                   PROVE  y \in 1..handled /\ (c \in targets' => y < handled)
        BY <3>1, <3>3, Zenon
      <4>2. y \in Updates(Line(c)) \/ (y = m /\ m # ErrorReply)
        BY <2>11, Zenon
      <4> QED
        BY <1>1, <4>1, <4>2, Zenon DEF IInv, Numbered
    <3> QED
      BY <3>2, <3>3, Zenon
  <2>14. InLine'
    <3> SUFFICES ASSUME NEW x \in Clients
                 PROVE  /\ writer[x] = "writing" => InOrder(Line(x)')
                        /\ InOrder(received[x])
                        /\ writer[x] = "writing" /\ x \notin closed =>
                             Updates(Line(x))' = IF x \in targets' THEN due[x] \ {handled}
                                                                   ELSE due[x]
      BY <1>5, Zenon DEF InLine, InOrder
    <3>1. InOrder(received[x])
      BY Zenon DEF IInv, InLine
    <3>2. CASE x # c
      <4>1. Updates(Line(x))' = Updates(Line(x))
        BY <2>4, <3>2, Zenon DEF Updates
      <4> QED
        BY <1>1, <2>4, <3>1, <3>2, <4>1, Zenon DEF IInv, InLine
    <3>3. CASE x = c
      <4> SUFFICES ASSUME writer[c] = "writing"
                   PROVE  /\ InOrder(Line(c)')
                          /\ c \notin closed =>
                               Updates(Line(c))' = IF c \in targets' THEN due[c] \ {handled}
                                                                     ELSE due[c]
        BY <3>1, <3>3, Zenon
      <4>1. m = ErrorReply \/ \A y \in Updates(Line(c)) : y < m
        BY Zenon DEF Sends, IInv, Numbered
      <4>2. InOrder(Line(c))
        BY Zenon DEF IInv, InLine
      <4>3. InOrder(Append(Line(c), m))
        BY <1>2, <2>1, <4>1, <4>2, InOrderAppend, Zenon
      <4>4. c \notin closed => Updates(Line(c)) = IF c \in targets THEN due[c] \ {handled}
                                                                   ELSE due[c]
        BY Zenon DEF IInv, InLine
      <4>5. c \in targets => handled \in due[c]
        BY Zenon DEF IInv, Numbered
      <4>6. InOrder(Line(c)')
        BY <2>3, <4>3, Zenon
      <4> QED
        BY <2>11, <2>12, <4>4, <4>5, <4>6, Zenon DEF Sends
    <3> QED
      BY <3>2, <3>3, Zenon
  <2> QED
    BY <1>4, <2>6, <2>7, <2>8, <2>9, <2>13, <2>14, Zenon DEF IInv
<1>6. CASE send' = send /\ c \in closed' /\ closed \subseteq closed'
           /\ panic' # "close of closed channel" /\ closing' \subseteq Calls /\ ClosedOnce'
  <2>1. WellTyped'
    BY <1>1, <1>6, Zenon DEF IInv, WellTyped
  <2>2. \A x : Line(x)' = Line(x) /\ Updates(Line(x))' = Updates(Line(x))
    BY <1>6, Zenon DEF Line, Updates
  <2>3. Starting'
    BY <1>1, <2>2, Zenon DEF IInv, Starting
  <2>4. Numbered'
    BY <1>1, <2>2, Zenon DEF IInv, Numbered
  <2>5. InLine'
    <3> SUFFICES ASSUME NEW x \in Clients
                 PROVE  /\ writer[x] = "writing" => InOrder(Line(x))
                        /\ InOrder(received[x])
                        /\ writer[x] = "writing" /\ x \notin closed' =>
                             Updates(Line(x)) = IF x \in targets' THEN due[x] \ {handled}
                                                                  ELSE due[x]
      BY <2>2, Zenon DEF InLine, InOrder
    <3> QED
      BY <1>1, <1>6, Zenon DEF IInv, InLine
  <2>6. Flags'
    BY <1>6, Zenon DEF IInv, Flags
  <2> QED
    BY <1>4, <1>6, <2>1, <2>3, <2>4, <2>5, <2>6, Zenon DEF IInv
<1>7. CASE c \in ended /\ panic' = "send on closed channel" /\ UNCHANGED <<send, closing, closed>>
  <2>1. c \in closed'
    BY <1>7, Zenon DEF IInv, Flags
  <2>2. ClosedOnce' /\ closing' \subseteq Calls
    BY <1>7, ClosesKept, Zenon DEF IInv, WellTyped
  <2> QED
    BY <1>6, <1>7, <2>1, <2>2, Zenon
<1>8. CASE Close(g, c) /\ UNCHANGED <<send, panic>>
  <2>1. ClosedOnce' /\ closed \subseteq closed' /\ closing' \subseteq Calls
    BY <1>8, CloseKeeps, Zenon
  <2>2. c \in closed'
    BY <1>8, Zenon DEF Close
  <2>3. panic' # "close of closed channel"
    BY <1>8, Zenon DEF IInv, Flags
  <2> QED
    BY <1>6, <1>8, <2>1, <2>2, <2>3, Zenon
<1> QED
  BY <1>5, <1>7, <1>8, Zenon DEF SendTo

-----------------------------------------------------------------------------
(* RedisSubscriber *)

\* The update that is handed out is newer than all in the lines.
LEMMA BroadcastEventKeeps ==
  ASSUME IInv, BroadcastEvent PROVE IInv'
<1>1. PICK S : S = handle(published[handled + 1])
  BY Zenon
<1>2. /\ targets = {} /\ handled < Len(published)
      /\ handled' = handled + 1 /\ targets' = S
      /\ due' = [c \in Clients |-> IF c \in S THEN due[c] \cup {handled'} ELSE due[c]]
      /\ UNCHANGED <<published, clients, subscriptions, reader, params, writer, send,
                     closing, closed, ended, hungUp, received, panic>>
  BY <1>1, Zenon DEF BroadcastEvent, BusIdle, hubVars, readerVars, closeVars
<1>3. S \subseteq Clients /\ \A c \in S : \E e \in Events : c \in subscriptions[e]
  <2>1. CASE published[handled + 1] \in Events
    <3>1. PICK e \in Events : e = published[handled + 1]
      BY <2>1, Zenon
    <3>2. S = subscriptions[e]
      BY <1>1, <2>1, <3>1, Zenon DEF handle
    <3>3. subscriptions[e] \subseteq Clients
      BY Zenon DEF IInv, WellTyped
    <3> QED
      BY <3>2, <3>3, Zenon
  <2>2. CASE published[handled + 1] \notin Events
    BY <1>1, <2>2, Zenon DEF handle
  <2> QED
    BY <2>1, <2>2, Zenon
<1>4. \A c \in S : reader[c] # "none"
  BY <1>3, Zenon DEF IInv, Listed
<1>5. handled \in Nat /\ handled' \in Nat /\ handled < handled'
  BY <1>2 DEF IInv, WellTyped
<1>6. \A c \in Clients : due'[c] = IF c \in S THEN due[c] \cup {handled'} ELSE due[c]
  BY <1>2, Zenon
<1>7. \A c : Line(c)' = Line(c) /\ Updates(Line(c))' = Updates(Line(c))
  BY <1>2, Zenon DEF Line, Updates
<1>8. \A c \in Clients : due[c] \subseteq 1..handled
  BY Zenon DEF IInv, Numbered
<1>9. WellTyped'
  <2>1. due' \in [Clients -> SUBSET Nat]
    BY <1>2, <1>5, Zenon DEF IInv, WellTyped
  <2> QED
    BY <1>2, <1>3, <1>5, <2>1, Zenon DEF IInv, WellTyped
<1>10. Starting'
  BY <1>2, <1>4, <1>6, <1>7, Zenon DEF IInv, Starting
<1>11. Numbered'
  <2> SUFFICES ASSUME NEW c \in Clients
               PROVE  /\ due'[c] \subseteq 1..handled'
                      /\ c \in targets' => handled' \in due'[c]
                      /\ writer[c] = "writing" => \A y \in Updates(Line(c)) :
                           y \in 1..handled' /\ (c \in targets' => y < handled')
    BY <1>2, <1>7, Zenon DEF Numbered
  <2>1. /\ due'[c] \subseteq 1..handled'
        /\ c \in targets' => handled' \in due'[c]
    BY <1>2, <1>5, <1>6, <1>8
  <2>2. ASSUME writer[c] = "writing", NEW y \in Updates(Line(c))
        PROVE  y \in 1..handled' /\ y < handled'
    <3>1. y \in 1..handled
      BY <2>2, Zenon DEF IInv, Numbered
    <3> QED
      BY <1>5, <3>1
  <2> QED
    BY <2>1, <2>2, Zenon
<1>12. InLine'
  <2> SUFFICES ASSUME NEW c \in Clients
               PROVE  /\ writer[c] = "writing" => InOrder(Line(c))
                      /\ InOrder(received[c])
                      /\ writer[c] = "writing" /\ c \notin closed =>
                           Updates(Line(c)) = IF c \in targets' THEN due'[c] \ {handled'}
                                                                ELSE due'[c]
    BY <1>2, <1>7, Zenon DEF InLine, InOrder
  <2>1. c \in targets' => due'[c] \ {handled'} = due[c]
    BY <1>2, <1>5, <1>6, <1>8
  <2>2. c \notin targets' => due'[c] = due[c]
    BY <1>2, <1>6, Zenon
  <2> QED
    BY <1>2, <2>1, <2>2, Zenon DEF IInv, InLine
<1>13. ClosedOnce'
  BY <1>2, ClosesKept, Zenon
<1>14. Flags' /\ Listed'
  BY <1>2, Zenon DEF IInv, Flags, Listed
<1> QED
  BY <1>9, <1>10, <1>11, <1>12, <1>13, <1>14, Zenon DEF IInv

\* An update that is missed is due to nobody.
LEMMA MissUpdateKeeps ==
  ASSUME IInv, MissUpdate PROVE IInv'
<1>1. /\ targets = {} /\ handled' = handled + 1
      /\ UNCHANGED <<published, targets, clients, subscriptions, reader, params, writer, send,
                     closing, closed, ended, hungUp, due, received, panic>>
  BY Zenon DEF MissUpdate, BusIdle, hubVars, readerVars, closeVars, history
<1>2. handled \in Nat /\ handled' \in Nat /\ 1..handled \subseteq 1..handled'
  BY <1>1 DEF IInv, WellTyped
<1>3. \A c : Line(c)' = Line(c) /\ Updates(Line(c))' = Updates(Line(c))
  BY <1>1, Zenon DEF Line, Updates
<1>4. WellTyped'
  BY <1>1, <1>2, Zenon DEF IInv, WellTyped
<1>5. Starting'
  BY <1>1, <1>3, Zenon DEF IInv, Starting
<1>6. Numbered'
  BY <1>1, <1>2, <1>3, Zenon DEF IInv, Numbered
<1>7. InLine'
  BY <1>1, <1>3, Zenon DEF IInv, InLine, InOrder
<1>8. ClosedOnce'
  BY <1>1, ClosesKept, Zenon
<1>9. Flags' /\ Listed'
  BY <1>1, Zenon DEF IInv, Flags, Listed
<1> QED
  BY <1>4, <1>5, <1>6, <1>7, <1>8, <1>9, Zenon DEF IInv

\* The subscriber sends the update to one of the remaining targets.
LEMMA SendKeeps ==
  ASSUME IInv, NEW c \in Clients, Send(c) PROVE IInv'
<1>1. /\ c \in targets /\ targets' = targets \ {c}
      /\ SendTo("bus", c, handled)
      /\ UNCHANGED <<published, handled, clients, subscriptions, reader, params, writer,
                     ended, hungUp, due, received>>
  BY Zenon DEF Send, hubVars, readerVars, history
<1>2. Sends(c, handled)
  BY <1>1, Zenon DEF Sends
<1>3. "bus" \in Goroutines
  BY Zenon DEF Goroutines
<1> QED
  BY <1>1, <1>2, <1>3, SendToKeeps, Zenon

-----------------------------------------------------------------------------
(* ReadPump *)

\* A request is read by a ReadPump that has dealt with the one before.
LEMMA ReadRequestKeeps ==
  ASSUME IInv, NEW c \in Clients, ReadRequest(c) PROVE IInv'
<1>1. /\ reader[c] = "reading"
      /\ \E method \in {"subscribing", "unsubscribing"} :
           reader' = [reader EXCEPT ![c] = method]
      /\ \E S \in SUBSET Events \ {{}} : params' = [params EXCEPT ![c] = S]
      /\ UNCHANGED <<published, handled, targets, clients, subscriptions, writer, send,
                     closing, closed, ended, hungUp, due, received, panic>>
  BY Zenon DEF ReadRequest, Reading, ReaderGoto, busVars, hubVars, closeVars, history
<1>2. /\ reader'[c] \in {"subscribing", "unsubscribing"}
      /\ \A x \in Clients : x # c => reader'[x] = reader[x] /\ params'[x] = params[x]
  BY <1>1, Zenon DEF IInv, WellTyped
<1>3. WellTyped'
  <2>1. params' \in [Clients -> SUBSET Events]
    BY <1>1 DEF IInv, WellTyped
  <2>2. reader' \in [Clients -> {"none", "reading", "subscribing", "unsubscribing",
                                 "closing", "done"}]
    BY <1>1, Zenon DEF IInv, WellTyped
  <2> QED
    BY <1>1, <2>1, <2>2, Zenon DEF IInv, WellTyped
<1>4. Starting'
  <2>1. \A x : Line(x)' = Line(x)
    BY <1>1, Zenon DEF Line
  <2> QED
    BY <1>1, <1>2, <2>1, Zenon DEF IInv, Starting
<1>5. Numbered' /\ InLine' /\ ClosedOnce'
  BY <1>1, LinesKept, ClosesKept, Zenon
<1>6. Flags'
  BY <1>1, Zenon DEF IInv, Flags
<1>7. Listed'
  BY <1>1, <1>2, Zenon DEF IInv, Listed
<1> QED
  BY <1>3, <1>4, <1>5, <1>6, <1>7, Zenon DEF IInv

\* The reply to nonsense goes through Client.Send.
LEMMA ReadNonsenseKeeps ==
  ASSUME IInv, NEW c \in Clients, ReadNonsense(c) PROVE IInv'
<1>1. /\ reader[c] = "reading"
      /\ SendTo("reader", c, ErrorReply)
      /\ UNCHANGED <<published, handled, targets, clients, subscriptions, reader, params,
                     writer, ended, hungUp, due, received>>
  BY Zenon DEF ReadNonsense, Reading, busVars, hubVars, history
<1>2. Sends(c, ErrorReply)
  BY <1>1, Zenon DEF Sends
<1>3. "reader" \in Goroutines
  BY Zenon DEF Goroutines
<1> QED
  BY <1>1, <1>2, <1>3, SendToKeeps, Zenon

\* One event of a request; after the last the ReadPump reads again.
LEMMA HandleParamKeeps ==
  ASSUME IInv, NEW c \in Clients, NEW e \in Events, HandleParam(c, e) PROVE IInv'
<1>1. /\ e \in params[c]
      /\ \/ subscriptions' = [subscriptions EXCEPT ![e] = @ \cup {c}]
         \/ subscriptions' = [subscriptions EXCEPT ![e] = @ \ {c}]
      /\ params' = [params EXCEPT ![c] = @ \ {e}]
      /\ IF params'[c] = {} THEN reader' = [reader EXCEPT ![c] = "reading"]
                            ELSE reader' = reader
      /\ UNCHANGED <<published, handled, targets, clients, writer, send, closing, closed,
                     ended, hungUp, due, received, panic>>
  BY Zenon DEF HandleParam, Subscribe, Unsubscribe, ReaderGoto, busVars, closeVars, history
<1>2. reader[c] \in {"subscribing", "unsubscribing"}
  BY <1>1, Zenon DEF IInv, Starting
<1>3. /\ reader'[c] = IF params'[c] = {} THEN "reading" ELSE reader[c]
      /\ \A x \in Clients : x # c => reader'[x] = reader[x] /\ params'[x] = params[x]
  BY <1>1, Zenon DEF IInv, WellTyped
<1>4. PICK S \in SUBSET Clients :
        /\ subscriptions' = [subscriptions EXCEPT ![e] = S]
        /\ \A x \in Clients : x # c => (x \in S <=> x \in subscriptions[e])
  <2>1. subscriptions[e] \subseteq Clients
    BY Zenon DEF IInv, WellTyped
  <2>2. CASE subscriptions' = [subscriptions EXCEPT ![e] = @ \cup {c}]
    <3>1. PICK S \in SUBSET Clients : S = subscriptions[e] \cup {c}
      BY <2>1, Zenon
    <3> QED
      BY <2>2, <3>1, Zenon
  <2>3. CASE subscriptions' = [subscriptions EXCEPT ![e] = @ \ {c}]
    <3>1. PICK S \in SUBSET Clients : S = subscriptions[e] \ {c}
      BY <2>1, Zenon
    <3> QED
      BY <2>3, <3>1, Zenon
  <2> QED
    BY <1>1, <2>2, <2>3, Zenon
<1>5. WellTyped'
  <2>1. params' \in [Clients -> SUBSET Events]
    BY <1>1, Zenon DEF IInv, WellTyped
  <2>2. reader' \in [Clients -> {"none", "reading", "subscribing", "unsubscribing",
                                 "closing", "done"}]
    BY <1>1, Zenon DEF IInv, WellTyped
  <2>3. subscriptions' \in [Events -> SUBSET Clients]
    BY <1>4, Zenon DEF IInv, WellTyped
  <2> QED
    BY <1>1, <2>1, <2>2, <2>3, Zenon DEF IInv, WellTyped
<1>6. Starting'
  <2>1. \A x : Line(x)' = Line(x)
    BY <1>1, Zenon DEF Line
  <2> QED
    BY <1>1, <1>2, <1>3, <2>1, Zenon DEF IInv, Starting
<1>7. Numbered' /\ InLine' /\ ClosedOnce'
  BY <1>1, LinesKept, ClosesKept, Zenon
<1>8. Flags'
  BY <1>1, Zenon DEF IInv, Flags
<1>9. Listed'
  <2>1. \A x \in Clients, f \in Events :
           x # c => (x \in subscriptions'[f] <=> x \in subscriptions[f])
    BY <1>4, Zenon DEF IInv, WellTyped
  <2>2. reader'[c] \notin {"none", "closing", "done"}
    BY <1>2, <1>3, Zenon
  <2> QED
    BY <1>1, <1>3, <2>1, <2>2, Zenon DEF IInv, Listed
<1> QED
  BY <1>5, <1>6, <1>7, <1>8, <1>9, Zenon DEF IInv

\* Unregister takes the client out of the hub and of every subscription.
LEMMA UnregisterKeeps ==
  ASSUME IInv, NEW c \in Clients, Unregister(c) PROVE IInv'
<1>1. /\ reader[c] = "reading"
      /\ clients' = clients \ {c}
      /\ subscriptions' = [e \in Events |-> subscriptions[e] \ {c}]
      /\ reader' = [reader EXCEPT ![c] = "closing"]
      /\ UNCHANGED <<published, handled, targets, params, writer, send, closing, closed,
                     ended, hungUp, due, received, panic>>
  BY Zenon DEF Unregister, Reading, ReaderGoto, busVars, closeVars, history
<1>2. /\ reader'[c] = "closing" /\ params[c] = {}
      /\ \A x \in Clients : x # c => reader'[x] = reader[x]
  BY <1>1, Zenon DEF IInv, WellTyped, Starting
<1>3. WellTyped'
  BY <1>1, Zenon DEF IInv, WellTyped
<1>4. Starting'
  <2>1. \A x : Line(x)' = Line(x)
    BY <1>1, Zenon DEF Line
  <2> QED
    BY <1>1, <1>2, <2>1, Zenon DEF IInv, Starting
<1>5. Numbered' /\ InLine' /\ ClosedOnce'
  BY <1>1, LinesKept, ClosesKept, Zenon
<1>6. Flags'
  BY <1>1, Zenon DEF IInv, Flags
<1>7. Listed'
  BY <1>1, <1>2, Zenon DEF IInv, Listed
<1> QED
  BY <1>3, <1>4, <1>5, <1>6, <1>7, Zenon DEF IInv

\* The ReadPump closes the client after it has taken it out of the hub.
LEMMA ReaderReturnsKeeps ==
  ASSUME IInv, NEW c \in Clients, ReaderReturns(c) PROVE IInv'
<1>1. /\ reader[c] = "closing"
      /\ Close("reader", c)
      /\ reader' = [reader EXCEPT ![c] = "done"]
      /\ UNCHANGED <<published, handled, targets, clients, subscriptions, params, writer,
                     send, ended, hungUp, due, received, panic>>
  BY Zenon DEF ReaderReturns, ReaderGoto, busVars, hubVars, history
<1>2. ClosedOnce' /\ closed \subseteq closed' /\ closing' \subseteq Calls
  BY <1>1, CloseKeeps, Zenon DEF Goroutines
<1>3. /\ reader'[c] = "done"
      /\ \A x \in Clients : x # c => reader'[x] = reader[x]
  BY <1>1, Zenon DEF IInv, WellTyped
<1>4. WellTyped'
  <2>1. reader' \in [Clients -> {"none", "reading", "subscribing", "unsubscribing",
                                 "closing", "done"}]
    BY <1>1, Zenon DEF IInv, WellTyped
  <2> QED
    BY <1>1, <1>2, <2>1, Zenon DEF IInv, WellTyped
<1>5. Starting'
  <2>1. \A x : Line(x)' = Line(x)
    BY <1>1, Zenon DEF Line
  <2> QED
    BY <1>1, <1>3, <2>1, Zenon DEF IInv, Starting
<1>6. Numbered' /\ InLine'
  BY <1>1, <1>2, LinesKept, Zenon
<1>7. Flags'
  BY <1>1, <1>2, Zenon DEF IInv, Flags
<1>8. Listed'
  BY <1>1, <1>3, Zenon DEF IInv, Listed
<1> QED
  BY <1>2, <1>4, <1>5, <1>6, <1>7, <1>8, Zenon DEF IInv

-----------------------------------------------------------------------------
(* WritePump *)

\* A message that is written stays in its place in the line.
LEMMA WriteMessageKeeps ==
  ASSUME IInv, NEW c \in Clients, WriteMessage(c) PROVE IInv'
<1>1. /\ writer[c] = "writing" /\ send[c] # <<>>
      /\ send' = [send EXCEPT ![c] = Tail(@)]
      /\ received' = [received EXCEPT ![c] = Append(@, Head(send[c]))]
      /\ UNCHANGED <<published, handled, targets, clients, subscriptions, reader, params,
                     writer, closing, closed, ended, hungUp, due, panic>>
  BY Zenon DEF WriteMessage, Writing, busVars, hubVars, readerVars, closeVars
<1>2. PICK r \in Seq(Message), s \in Seq(Message) : r = received[c] /\ s = send[c] /\ s # <<>>
  BY <1>1, Zenon DEF IInv, WellTyped
<1>3. /\ Tail(s) \in Seq(Message) /\ Append(r, Head(s)) \in Seq(Message)
      /\ Len(Tail(s)) = Len(s) - 1 /\ Len(s) \in Nat
  BY <1>2
<1>4. /\ send'[c] = Tail(s) /\ received'[c] = Append(r, Head(s))
      /\ \A x \in Clients : x # c => send'[x] = send[x] /\ received'[x] = received[x]
  BY <1>1, <1>2, Zenon DEF IInv, WellTyped
<1>5. Append(r, Head(s)) \o Tail(s) = r \o s
  BY <1>2, ConcatShift, Zenon
<1>6. \A x \in Clients : Line(x)' = Line(x) /\ Updates(Line(x))' = Updates(Line(x))
  BY <1>2, <1>4, <1>5, Zenon DEF Line, Updates
<1>7. WellTyped'
  <2>1. send' \in [Clients -> Seq(Message)] /\ received' \in [Clients -> Seq(Message)]
    BY <1>1, <1>2, <1>3, Zenon DEF IInv, WellTyped
  <2> QED
    BY <1>1, <2>1, Zenon DEF IInv, WellTyped
<1>8. Starting'
  BY <1>1, <1>6, Zenon DEF IInv, Starting
<1>9. Numbered'
  BY <1>1, <1>6, Zenon DEF IInv, Numbered
<1>10. InLine'
  <2> SUFFICES ASSUME NEW x \in Clients
               PROVE  /\ writer[x] = "writing" => InOrder(Line(x))
                      /\ InOrder(received'[x])
                      /\ writer[x] = "writing" /\ x \notin closed =>
                           Updates(Line(x)) = IF x \in targets THEN due[x] \ {handled}
                                                               ELSE due[x]
    BY <1>1, <1>6, Zenon DEF InLine, InOrder
  <2>1. InOrder(received'[x])
    <3>1. CASE x = c
      <4>1. InOrder(r \o s)
        BY <1>1, <1>2, Zenon DEF IInv, InLine, Line
      <4>2. PICK a \in Seq(Message), b \in Seq(Message) : a = Append(r, Head(s)) /\ b = Tail(s)
        BY <1>3, Zenon
      <4>3. InOrder(a \o b)
        BY <1>5, <4>1, <4>2, Zenon
      <4> QED
        BY <1>4, <3>1, <4>2, <4>3, InOrderPrefix, Zenon
    <3>2. CASE x # c
      BY <1>4, <3>2, Zenon DEF IInv, InLine
    <3> QED
      BY <3>1, <3>2, Zenon
  <2> QED
    BY <2>1, Zenon DEF IInv, InLine
<1>11. ClosedOnce'
  BY <1>1, ClosesKept, Zenon
<1>12. Flags'
  <2>1. \A x \in Clients : Len(send'[x]) <= SendBufferSize
    <3>1. Len(s) <= SendBufferSize
      BY <1>2, Zenon DEF IInv, Flags
    <3>2. Len(Tail(s)) <= SendBufferSize
      BY <1>3, <3>1, HubAssumption
    <3> QED
      BY <1>4, <3>2, Zenon DEF IInv, Flags
  <2> QED
    BY <1>1, <2>1, Zenon DEF IInv, Flags
<1>13. Listed'
  BY <1>1, Zenon DEF IInv, Listed
<1> QED
  BY <1>7, <1>8, <1>9, <1>10, <1>11, <1>12, <1>13, Zenon DEF IInv

\* A WritePump that returns closes the client; what is left in its buffer, and
\* the message it could not write, is lost.
WriterEnds(c) ==
    /\ writer[c] = "writing"
    /\ writer' = [writer EXCEPT ![c] = "done"]
    /\ Close("writer", c)
    /\ \/ send' = send
       \/ send[c] # <<>> /\ send' = [send EXCEPT ![c] = Tail(@)]
    /\ UNCHANGED <<published, handled, targets, clients, subscriptions, reader, params,
                   ended, hungUp, due, received, panic>>

\* The client no longer counts on its line.
LEMMA WriterEndsKeeps ==
  ASSUME IInv, NEW c \in Clients, WriterEnds(c) PROVE IInv'
<1>1. /\ writer[c] = "writing"
      /\ writer' = [writer EXCEPT ![c] = "done"]
      /\ Close("writer", c)
      /\ send' = send \/ (send[c] # <<>> /\ send' = [send EXCEPT ![c] = Tail(@)])
      /\ UNCHANGED <<published, handled, targets, clients, subscriptions, reader, params,
                     ended, hungUp, due, received, panic>>
  BY Zenon DEF WriterEnds
<1>2. ClosedOnce' /\ closed \subseteq closed' /\ closing' \subseteq Calls
  BY <1>1, CloseKeeps, Zenon DEF Goroutines
<1>3. /\ writer'[c] = "done" /\ reader[c] # "none"
      /\ \A x \in Clients : x # c => writer'[x] = writer[x]
  BY <1>1, Zenon DEF IInv, WellTyped, Starting
<1>4. PICK t \in Seq(Message) : send' = [send EXCEPT ![c] = t] /\ Len(t) <= SendBufferSize
  <2>1. PICK s \in Seq(Message) : s = send[c] /\ Len(s) <= SendBufferSize
    BY Zenon DEF IInv, WellTyped, Flags
  <2>2. CASE send' = send
    <3>1. send' = [send EXCEPT ![c] = s]
      BY <2>1, <2>2, Zenon DEF IInv, WellTyped
    <3> QED
      BY <2>1, <3>1, Zenon
  <2>3. CASE send[c] # <<>> /\ send' = [send EXCEPT ![c] = Tail(@)]
    <3>1. Tail(s) \in Seq(Message) /\ Len(Tail(s)) <= SendBufferSize
      BY <2>1, <2>3, HubAssumption
    <3>2. send' = [send EXCEPT ![c] = Tail(s)]
      BY <2>1, <2>3, Zenon
    <3> QED
      BY <3>1, <3>2, Zenon
  <2> QED
    BY <1>1, <2>2, <2>3, Zenon
<1>5. /\ send'[c] = t
      /\ \A x \in Clients : x # c => send'[x] = send[x]
  BY <1>4, Zenon DEF IInv, WellTyped
<1>6. \A x \in Clients : x # c => Line(x)' = Line(x) /\ Updates(Line(x))' = Updates(Line(x))
  BY <1>1, <1>5, Zenon DEF Line, Updates
<1>7. WellTyped'
  <2>1. send' \in [Clients -> Seq(Message)]
    BY <1>4, Zenon DEF IInv, WellTyped
  <2>2. writer' \in [Clients -> {"none", "writing", "done"}]
    BY <1>1, Zenon DEF IInv, WellTyped
  <2> QED
    BY <1>1, <1>2, <2>1, <2>2, Zenon DEF IInv, WellTyped
<1>8. Starting'
  BY <1>1, <1>3, <1>6, Zenon DEF IInv, Starting
<1>9. Numbered'
  BY <1>1, <1>3, <1>6, Zenon DEF IInv, Numbered
<1>10. InLine'
  <2> SUFFICES ASSUME NEW x \in Clients
               PROVE  /\ writer'[x] = "writing" => InOrder(Line(x)')
                      /\ InOrder(received[x])
                      /\ writer'[x] = "writing" /\ x \notin closed' =>
                           Updates(Line(x))' = IF x \in targets THEN due[x] \ {handled}
                                                                ELSE due[x]
    BY <1>1, Zenon DEF InLine, InOrder
  <2>1. CASE x = c
    BY <1>3, <2>1, Zenon DEF IInv, InLine
  <2>2. CASE x # c
    BY <1>2, <1>3, <1>6, <2>2, Zenon DEF IInv, InLine
  <2> QED
    BY <2>1, <2>2, Zenon
<1>11. Flags'
  BY <1>1, <1>2, <1>4, <1>5, Zenon DEF IInv, Flags
<1>12. Listed'
  BY <1>1, Zenon DEF IInv, Listed
<1> QED
  BY <1>2, <1>7, <1>8, <1>9, <1>10, <1>11, <1>12, Zenon DEF IInv

-----------------------------------------------------------------------------
(* The invariant and the theorems *)

\* Every step keeps the invariant.
LEMMA NextKeeps == IInv /\ [Next]_vars => IInv'
<1> SUFFICES ASSUME IInv, [Next]_vars PROVE IInv'
  BY Zenon
<1>1. CASE UNCHANGED vars
  <2>1. UNCHANGED <<published, handled, targets, clients, subscriptions, reader, params,
                    writer, send, closing, closed, ended, hungUp, due, received, panic>>
    BY <1>1, Zenon DEF vars, busVars, hubVars, readerVars, closeVars, history
  <2>2. Numbered' /\ InLine' /\ ClosedOnce'
    BY <2>1, LinesKept, ClosesKept, Zenon
  <2>3. WellTyped' /\ Starting' /\ Flags' /\ Listed'
    BY <2>1, Zenon DEF IInv, WellTyped, Starting, Line, Flags, Listed
  <2> QED
    BY <2>2, <2>3, Zenon DEF IInv
<1>2. ASSUME NEW c \in Clients, WritePump(c) PROVE IInv'
  <2>1. CASE WriteMessage(c)
    BY <2>1, WriteMessageKeeps, Zenon
  <2>2. CASE WriteFails(c)
    <3>1. WriterEnds(c)
      BY <2>2, Zenon DEF WriteFails, Writing, WriterGoto, WriterEnds, busVars, hubVars,
         readerVars, history
    <3> QED
      BY <3>1, WriterEndsKeeps, Zenon
  <2>3. CASE WriterReturns(c)
    <3>1. WriterEnds(c)
      BY <2>3, Zenon DEF WriterReturns, Writing, WriterGoto, WriterEnds, busVars, hubVars,
         readerVars, history
    <3> QED
      BY <3>1, WriterEndsKeeps, Zenon
  <2> QED
    BY <1>2, <2>1, <2>2, <2>3, Zenon DEF WritePump
<1>3. CASE Gateway
  BY <1>2, <1>3, BroadcastEventKeeps, MissUpdateKeeps, SendKeeps, UnregisterKeeps,
     ReaderReturnsKeeps, HandleParamKeeps, CloseChannelKeeps, CloseConnKeeps, Zenon
     DEF Gateway, Bus, ReadPump, InClose
<1> QED
  BY <1>1, <1>3, PublishKeeps, HandleKeeps, PeerLeavesKeeps, ReadRequestKeeps,
     ReadNonsenseKeeps, Zenon DEF Next

\* Hence it holds in every reachable state.
LEMMA Invariance == Spec => []IInv
  BY InitHolds, NextKeeps, PTL DEF Spec

\* Subscriber, ReadPump, WritePump and close in any order: a client receives
\* the updates of its events in order and none twice, and one that has not
\* been closed has missed none (BroadcastEvent, Client.Send, WritePump).
THEOREM UpdatesWithoutGaps == Spec => []GaplessUntilClosed
<1>1. IInv => GaplessUntilClosed
  BY Zenon DEF IInv, InLine, Line, GaplessUntilClosed
<1> QED
  BY <1>1, Invariance, PTL

\* Whichever goroutines call Client.close, flag, channel and connection are
\* closed in this order and once; a buffer never holds more than its size; and
\* a client whose ReadPump has returned is neither in the hub nor subscribed.
THEOREM ClientsClosedOnce == Spec => []ClientLifecycle
<1>1. IInv => ClientLifecycle
  BY Zenon DEF IInv, Flags, Listed, ClientLifecycle
<1> QED
  BY <1>1, Invariance, PTL
=============================================================================
