---------------------------- MODULE WebSocketHub ----------------------------
(***************************************************************************)
(* The WebSocket gateway (internal/websocket).  Its goroutines are the     *)
(* subscriber to ws:updates, which hands every update to the clients that  *)
(* are subscribed to its event, and two pumps for each connection.  What a *)
(* goroutine does under a mutex, or in one operation on a channel, is one  *)
(* step.  A send on a closed channel and the second close of a channel are *)
(* panics, which end the process and everything in it.                     *)
(***************************************************************************)
EXTENDS Integers, Sequences, Functions

CONSTANTS
    Clients,        \* the connections ever made
    Events,         \* events that can be subscribed to
    Unreadable,     \* an update that cannot be decoded, or of another type
    ErrorReply,     \* the reply to a request that makes no sense
    SendBufferSize,
    MaxMessages,    \* bound on the updates published
    MaxRequests     \* bound on the requests of all clients

ASSUME HubAssumption ==
    /\ SendBufferSize \in Nat \ {0}
    /\ {MaxMessages, MaxRequests} \subseteq Nat
    /\ ErrorReply \notin Nat

VARIABLES
    published,      \* updates on the channel: the event of each
    handled,        \* how many of them the subscriber has handled
    targets,        \* clients it has yet to send the current one to
    clients,        \* Hub.clients
    subscriptions,  \* Hub.subscriptions
    reader, params, \* where ReadPump is; the request it is processing
    writer,         \* where WritePump is
    send,           \* Client.send
    closing,        \* calls of Client.close in progress
    closed,         \* clients whose closed flag is set
    ended,          \* clients whose channel is closed
    hungUp,         \* clients whose connection the gateway has closed
    gone,           \* clients whose peer is gone, or silent
    requests,       \* how many requests the peers have sent
    due, received,  \* updates each client should get, and messages it got
    panic           \* why the process has ended, or ""

busVars == <<published, handled, targets>>

hubVars == <<clients, subscriptions>>

readerVars == <<reader, params, requests>>

closeVars == <<closing, closed, ended, hungUp>>

history == <<due, received>>

vars == <<busVars, hubVars, readerVars, writer, send, closeVars, gone, history,
          panic>>

Init ==
    /\ published = <<>> /\ handled = 0 /\ targets = {}
    /\ clients = {} /\ subscriptions = [e \in Events |-> {}]
    /\ reader = [c \in Clients |-> "none"]
    /\ params = [c \in Clients |-> {}]
    /\ requests = 0
    /\ writer = [c \in Clients |-> "none"]
    /\ send = [c \in Clients |-> <<>>]
    /\ closing = {} /\ closed = {} /\ ended = {} /\ hungUp = {} /\ gone = {}
    /\ due = [c \in Clients |-> {}] /\ received = [c \in Clients |-> <<>>]
    /\ panic = ""

Running == panic = ""

ReaderGoto(c, label) == reader' = [reader EXCEPT ![c] = label]

WriterGoto(c, label) == writer' = [writer EXCEPT ![c] = label]

-----------------------------------------------------------------------------
(* The peers and the channel *)

Publish ==
    /\ Running /\ Len(published) < MaxMessages
    /\ \E e \in Events \cup {Unreadable} : published' = Append(published, e)
    /\ UNCHANGED <<handled, targets, hubVars, readerVars, writer, send,
                   closeVars, gone, history, panic>>

Register(c) == clients' = clients \cup {c}

\* Handle: upgrade, Register, and start the pumps.
Handle(c) ==
    /\ Running /\ reader[c] = "none"
    /\ Register(c)
    /\ ReaderGoto(c, "reading")
    /\ WriterGoto(c, "writing")
    /\ UNCHANGED <<busVars, subscriptions, params, requests, send, closeVars, gone,
                   history, panic>>

\* The peer disconnects or no longer answers pings.
PeerLeaves(c) ==
    /\ Running /\ reader[c] # "none" /\ c \notin gone
    /\ gone' = gone \cup {c}
    /\ UNCHANGED <<busVars, hubVars, readerVars, writer, send, closeVars, history,
                   panic>>

-----------------------------------------------------------------------------
(* Client.close: the first goroutine to set the flag closes the channel and *)
(* then the connection; for the others it returns at once.                  *)

Goroutines == {"bus", "reader", "writer"}

Call(g, c, step) == [by |-> g, of |-> c, at |-> step]

\* A goroutine that is not inside close.
Free(g, c) == ~\E k \in closing : k.by = g /\ (g = "bus" \/ k.of = c)

Close_unchecked(g, c) ==
    /\ closed' = closed \cup {c}
    /\ closing' = closing \cup {Call(g, c, "channel")}

\* The flag is tested and set under the client's mutex.
Close(g, c) ==
    /\ closed' = closed \cup {c}
    /\ closing' = IF c \in closed THEN closing
                  ELSE closing \cup {Call(g, c, "channel")}

CloseChannel(k) ==
    /\ Running /\ k \in closing /\ k.at = "channel"
    /\ closing' = (closing \ {k}) \cup {Call(k.by, k.of, "conn")}
    /\ ended' = ended \cup {k.of}
    /\ panic' = IF k.of \in ended THEN "close of closed channel" ELSE ""
    /\ UNCHANGED <<busVars, hubVars, readerVars, writer, send, closed, hungUp,
                   gone, history>>

CloseConn_leftOpen(k) ==
    /\ Running /\ k \in closing /\ k.at = "conn"
    /\ closing' = closing \ {k}
    /\ UNCHANGED <<busVars, hubVars, readerVars, writer, send, closed, ended,
                   hungUp, gone, history, panic>>

CloseConn(k) ==
    /\ Running /\ k \in closing /\ k.at = "conn"
    /\ closing' = closing \ {k}
    /\ hungUp' = hungUp \cup {k.of}
    /\ UNCHANGED <<busVars, hubVars, readerVars, writer, send, closed, ended,
                   gone, history, panic>>

(* Client.Send never waits: it queues the message or closes the client.    *)

SendTo_drops(g, c, message) ==
    IF c \in ended
    THEN /\ panic' = "send on closed channel"
         /\ UNCHANGED <<send, closing, closed>>
    ELSE /\ send' = [send EXCEPT ![c] =
                      IF Len(@) < SendBufferSize THEN Append(@, message) ELSE @]
         /\ UNCHANGED <<closing, closed, panic>>

SendTo(g, c, message) ==
    \/ /\ c \in ended
       /\ panic' = "send on closed channel"
       /\ UNCHANGED <<send, closing, closed>>
    \/ /\ c \notin ended /\ Len(send[c]) < SendBufferSize
       /\ send' = [send EXCEPT ![c] = Append(@, message)]
       /\ UNCHANGED <<closing, closed, panic>>
    \/ /\ c \notin ended /\ Len(send[c]) = SendBufferSize
       /\ Close(g, c)
       /\ UNCHANGED <<send, panic>>

-----------------------------------------------------------------------------
(* RedisSubscriber.Run and BroadcastEvent *)

BusIdle == Running /\ targets = {} /\ handled < Len(published)

\* handle: a trade or a depth update is for the clients of its event;
\* anything else is logged.
handle(update) == IF update \in Events THEN subscriptions[update] ELSE {}

\* The targets are copied under the hub's read lock.
BroadcastEvent ==
    LET subscribers == handle(published[handled + 1])
    IN  /\ BusIdle
        /\ handled' = handled + 1
        /\ targets' = subscribers
        /\ due' = [c \in Clients |-> IF c \in subscribers THEN due[c] \cup {handled'}
                                                          ELSE due[c]]
        /\ UNCHANGED <<published, hubVars, readerVars, writer, send,
                       closeVars, gone, received, panic>>

\* The connection to Redis is lost and made again after the update.
MissUpdate ==
    /\ BusIdle
    /\ handled' = handled + 1
    /\ UNCHANGED <<published, targets, hubVars, readerVars, writer, send,
                   closeVars, gone, history, panic>>

Send(c) ==
    /\ Running /\ c \in targets /\ Free("bus", c)
    /\ targets' = targets \ {c}
    /\ SendTo("bus", c, handled)
    /\ UNCHANGED <<published, handled, hubVars, readerVars, writer, ended, hungUp,
                   gone, history>>

-----------------------------------------------------------------------------
(* ReadPump *)

Reading(c) == Running /\ reader[c] = "reading" /\ Free("reader", c)

\* A request to subscribe to, or unsubscribe from, some events.
ReadRequest(c) ==
    /\ Reading(c)
    /\ c \notin gone \cup hungUp
    /\ requests < MaxRequests
    /\ requests' = requests + 1
    /\ \E method \in {"subscribing", "unsubscribing"} : ReaderGoto(c, method)
    /\ \E S \in SUBSET Events \ {{}} : params' = [params EXCEPT ![c] = S]
    /\ UNCHANGED <<busVars, hubVars, writer, send, closeVars, gone, history, panic>>

\* Any other message is answered with an error.
ReadNonsense(c) ==
    /\ Reading(c)
    /\ c \notin gone \cup hungUp
    /\ requests < MaxRequests
    /\ requests' = requests + 1
    /\ SendTo("reader", c, ErrorReply)
    /\ UNCHANGED <<busVars, hubVars, reader, params, writer, ended, hungUp, gone,
                   history>>

Subscribe(c, e) == subscriptions' = [subscriptions EXCEPT ![e] = @ \cup {c}]

Unsubscribe(c, e) == subscriptions' = [subscriptions EXCEPT ![e] = @ \ {c}]

\* handleSubscribe and handleUnsubscribe, one event at a time.
HandleParam(c, e) ==
    /\ Running /\ e \in params[c]
    /\ IF reader[c] = "subscribing" THEN Subscribe(c, e) ELSE Unsubscribe(c, e)
    /\ params' = [params EXCEPT ![c] = @ \ {e}]
    /\ IF params'[c] = {} THEN ReaderGoto(c, "reading") ELSE UNCHANGED reader
    /\ UNCHANGED <<busVars, clients, requests, writer, send, closeVars, gone,
                   history, panic>>

\* The read fails: the deferred calls of Unregister ...
Unregister(c) ==
    /\ Reading(c)
    /\ c \in gone \cup hungUp
    /\ clients' = clients \ {c}
    /\ subscriptions' = [e \in Events |-> subscriptions[e] \ {c}]
    /\ ReaderGoto(c, "closing")
    /\ UNCHANGED <<busVars, params, requests, writer, send, closeVars, gone,
                   history, panic>>

\* ... and of close.
ReaderReturns(c) ==
    /\ Running /\ reader[c] = "closing"
    /\ Close("reader", c)
    /\ ReaderGoto(c, "done")
    /\ UNCHANGED <<busVars, hubVars, params, requests, writer, send, ended, hungUp,
                   gone, history, panic>>

-----------------------------------------------------------------------------
(* WritePump *)

Writing(c) == Running /\ writer[c] = "writing"

WriteMessage(c) ==
    /\ Writing(c)
    /\ send[c] # <<>>
    /\ c \notin gone \cup hungUp
    /\ send' = [send EXCEPT ![c] = Tail(@)]
    /\ received' = [received EXCEPT ![c] = Append(@, Head(send[c]))]
    /\ UNCHANGED <<busVars, hubVars, readerVars, writer, closeVars, gone, due, panic>>

\* A peer that is there may still be too slow for the write deadline.
WriteFails(c) ==
    /\ Writing(c)
    /\ send[c] # <<>>
    /\ send' = [send EXCEPT ![c] = Tail(@)]
    /\ WriterGoto(c, "done")
    /\ Close("writer", c)
    /\ UNCHANGED <<busVars, hubVars, readerVars, ended, hungUp, gone, history, panic>>

\* The channel is closed and empty, or a ping cannot be written.
WriterReturns(c) ==
    /\ Writing(c)
    /\ \/ send[c] = <<>> /\ c \in ended
       \/ c \in gone \cup hungUp
    /\ WriterGoto(c, "done")
    /\ Close("writer", c)
    /\ UNCHANGED <<busVars, hubVars, readerVars, send, ended, hungUp, gone, history,
                   panic>>

-----------------------------------------------------------------------------
Calls == {Call(g, c, step) : g \in Goroutines, c \in Clients,
                             step \in {"channel", "conn"}}

Bus == BroadcastEvent \/ MissUpdate \/ \E c \in Clients : Send(c)

ReadPump(c) ==
    \/ Unregister(c) \/ ReaderReturns(c) \/ \E e \in Events : HandleParam(c, e)

WritePump(c) == WriteMessage(c) \/ WriteFails(c) \/ WriterReturns(c)

InClose(k) == CloseChannel(k) \/ CloseConn(k)

Gateway ==
    \/ Bus
    \/ \E c \in Clients : ReadPump(c) \/ WritePump(c)
    \/ \E k \in Calls : InClose(k)

Next ==
    \/ Publish
    \/ \E c \in Clients :
         Handle(c) \/ PeerLeaves(c) \/ ReadRequest(c) \/ ReadNonsense(c)
    \/ Gateway

(* Go schedules the goroutines that can run.  Reads of a connection that is *)
(* closed or silent fail, by the read deadline at the latest, and writes    *)
(* end by the write deadline.  Peers and the engine owe nothing.            *)
Fairness == WF_vars(Gateway)

Spec == Init /\ [][Next]_vars /\ Fairness

-----------------------------------------------------------------------------
(* What the gateway promises *)

\* The updates among some messages; an update is named by its place on the
\* channel.
Updates(messages) == Range(messages) \ {ErrorReply}

InOrder(messages) ==
    \A i, j \in DOMAIN messages :
        i < j /\ ErrorReply \notin {messages[i], messages[j]} => messages[i] < messages[j]

\* A client gets the updates of its events in their order, none twice, and
\* as long as it is not closed with none left out: what it is due it has
\* received, or is in its buffer or about to be put there.  A client that
\* falls behind is closed, never skipped (Client.Send).
GaplessUntilClosed ==
    \A c \in Clients :
      /\ InOrder(received[c])
      /\ writer[c] = "writing" /\ c \notin closed =>
           /\ InOrder(received[c] \o send[c])
           /\ Updates(received[c] \o send[c])
                = IF c \in targets THEN due[c] \ {handled} ELSE due[c]

\* The life of a client: three goroutines may close it, and its flag, its
\* channel and its connection are closed in this order and once (the second
\* close of a channel would end the gateway); a client whose ReadPump is over
\* is neither in the hub nor in a subscription; no buffer overflows.
ClientLifecycle ==
    /\ panic # "close of closed channel"
    /\ hungUp \subseteq ended /\ ended \subseteq closed
    /\ \A c \in Clients :
         /\ Len(send[c]) <= SendBufferSize
         /\ reader[c] \in {"none", "closing", "done"} =>
              c \notin clients \cup UNION {subscriptions[e] : e \in Events}

\* The gateway keeps going unless it panics: every update is handled, no
\* client holds up the subscriber, and a client that is closed or gone is
\* taken out of the hub and its goroutines end.
HubProgress ==
    <>[](Running =>
           /\ handled = Len(published) /\ targets = {}
           /\ \A c \in closed \cup gone :
                /\ reader[c] = "done" /\ writer[c] = "done"
                /\ Free("reader", c) /\ Free("writer", c)
                /\ c \notin clients \cup UNION {subscriptions[e] : e \in Events})
=============================================================================
