----------------------------- MODULE SSEBroker -----------------------------
(***************************************************************************)
(* Server-sent events of one gateway (sse.Broker): a goroutine per topic   *)
(* takes messages from the event bus, looks up whom they are for, and puts *)
(* them into the buffers of the connected clients; each client's request   *)
(* handler writes its buffer out.  A client whose buffer is full is        *)
(* dropped.                                                                *)
(*                                                                         *)
(* The lock covers the two maps only.  Publish copies the targets under    *)
(* the lock and sends to them after it let go, so clients come and go, and *)
(* are dropped by others, between the two.  A client that reconnects is    *)
(* another client.                                                         *)
(***************************************************************************)
EXTENDS Naturals, Sequences

CONSTANTS Topics,       \* the topics subscribed to
          Users,        \* owners of labs
          Clients,      \* connections to /sse/labs
          UserOf,       \* Clients -> Users: who is logged in
          BufferSize,   \* clientBufferSize (32 in the code)
          BusSize,      \* messages the bus keeps for a slow subscriber
          MaxMessages   \* bound: Topics -> number of messages sent on the topic

QuotaTopic == "quota.snapshot"
All        == "all"
Audiences  == Users \cup {All}

ASSUME SSEAssumption ==
    /\ BufferSize \in Nat \ {0}
    /\ BusSize \in Nat \ {0}
    /\ MaxMessages \in [Topics -> Nat]
    /\ UserOf \in [Clients -> Users]
    /\ All \notin Users

\* The n-th message of a topic. A lab's event is for the lab's owner.
MessagesOf(t) == [topic : {t}, n : 1 .. MaxMessages[t],
                  audience : IF t = QuotaTopic THEN {All} ELSE Users]
Messages      == UNION {MessagesOf(t) : t \in Topics}

VARIABLES bus,        \* Topics -> messages the goroutine of the topic has not taken yet
          sent,       \* Topics -> number of messages sent on the topic
          emitted,    \* all that was sent (history)
          lost,       \* what the bus lost, or the gateway could not read (history)
          handled,    \* Topics -> messages that were projected, in order (history)
          current,    \* Topics -> the message being published, if any: a set
          targets,    \* Topics -> clients it is still to be sent to
          stopped,    \* the context of Start is cancelled
          handler,    \* Clients -> the request handler: "new", "open", "gone"
          clients,    \* the map clients
          byAud,      \* Audiences -> the clients registered for it
          closes,     \* Clients -> how often done was closed
          buffer,     \* Clients -> the channel events
          written     \* Clients -> what the client received

vars == <<bus, sent, emitted, lost, handled, current, targets, stopped,
          handler, clients, byAud, closes, buffer, written>>
busVars    == <<bus, sent, emitted, lost>>
topicVars  == <<handled, current, targets, stopped>>
clientVars == <<handler, buffer, written>>
brokerVars == <<clients, byAud, closes>>

TypeOK ==
    /\ bus \in [Topics -> Seq(Messages)] /\ \A t \in Topics : Len(bus[t]) <= BusSize
    /\ sent \in [Topics -> Nat]
    /\ emitted \subseteq Messages
    /\ lost \subseteq Messages
    /\ handled \in [Topics -> Seq(Messages)]
    /\ current \in [Topics -> SUBSET Messages]
    /\ targets \in [Topics -> SUBSET Clients]
    /\ stopped \in BOOLEAN
    /\ handler \in [Clients -> {"new", "open", "gone"}]
    /\ clients \subseteq Clients
    /\ byAud \in [Audiences -> SUBSET Clients]
    /\ closes \in [Clients -> Nat]
    /\ buffer \in [Clients -> Seq(Messages)]
    /\ \A c \in Clients : Len(buffer[c]) <= BufferSize
    /\ written \in [Clients -> Seq(Messages)]

Init ==
    /\ bus = [t \in Topics |-> <<>>]
    /\ sent = [t \in Topics |-> 0]
    /\ emitted = {}
    /\ lost = {}
    /\ handled = [t \in Topics |-> <<>>]
    /\ current = [t \in Topics |-> {}]
    /\ targets = [t \in Topics |-> {}]
    /\ stopped = FALSE
    /\ handler = [c \in Clients |-> "new"]
    /\ clients = {}
    /\ byAud = [a \in Audiences |-> {}]
    /\ closes = [c \in Clients |-> 0]
    /\ buffer = [c \in Clients |-> <<>>]
    /\ written = [c \in Clients |-> <<>>]

-----------------------------------------------------------------------------
(* The event bus: order within a topic, at most once.                      *)

\* A publisher sends a message; the subscription has it, or it is lost, as all are
\* that find the subscriber's channel full.
Emit(m) ==
    LET t == m.topic
    IN  /\ m.n = sent[t] + 1
        /\ sent' = [sent EXCEPT ![t] = m.n]
        /\ emitted' = emitted \cup {m}
        /\ \/ /\ Len(bus[t]) < BusSize
              /\ bus' = [bus EXCEPT ![t] = Append(@, m)]
              /\ UNCHANGED lost
           \/ lost' = lost \cup {m} /\ UNCHANGED bus
        /\ UNCHANGED <<topicVars, clientVars, brokerVars>>

-----------------------------------------------------------------------------
(* The maps of the broker, under its lock.                                 *)

\* The audiences the handler subscribes a connection to.
AudiencesOf(c) == {UserOf[c], All}

\* add, part of Subscribe.
Register(c) == byAud' = [a \in Audiences |->
    IF a \in AudiencesOf(c) THEN byAud[a] \cup {c} ELSE byAud[a]]

\* Wrong: a client that was dropped before is dropped again.
WrongDrop(c) ==
    /\ clients' = clients \ {c}
    /\ byAud' = [a \in Audiences |-> byAud[a] \ {c}]
    /\ closes' = [closes EXCEPT ![c] = @ + 1]

\* Wrong: the client stays in the index by audience.
WrongDropIndex(c) ==
    /\ UNCHANGED byAud
    /\ clients' = clients \ {c}
    /\ closes' = IF c \in clients THEN [closes EXCEPT ![c] = @ + 1] ELSE closes

\* Wrong: done is not closed.
WrongDropQuietly(c) ==
    /\ clients' = clients \ {c}
    /\ byAud' = [a \in Audiences |-> byAud[a] \ {c}]
    /\ UNCHANGED closes

\* drop: does nothing for a client that is not in the map any more.
Drop(c) ==
    IF c \in clients
    THEN /\ clients' = clients \ {c}
         /\ byAud' = [a \in Audiences |-> byAud[a] \ {c}]
         /\ closes' = [closes EXCEPT ![c] = @ + 1]
    ELSE UNCHANGED brokerVars

-----------------------------------------------------------------------------
(* The goroutines of Start, one for each topic.                            *)

Idle(t) == current[t] = {}

\* The audience of a message: everybody's, or the owner's that the resolver finds.
AudienceOf(m) == m.audience

\* handleMessage fails: the payload is malformed or the resolver cannot find the
\* owner. The message is dropped.
Misread(t) ==
    /\ Idle(t) /\ bus[t] # <<>>
    /\ bus' = [bus EXCEPT ![t] = Tail(@)]
    /\ lost' = lost \cup {Head(bus[t])}
    /\ UNCHANGED <<sent, emitted, topicVars, clientVars, brokerVars>>

\* handleMessage projects the message, and Publish copies the clients of its audience.
Project(t) ==
    /\ Idle(t) /\ bus[t] # <<>>
    /\ bus' = [bus EXCEPT ![t] = Tail(@)]
    /\ handled' = [handled EXCEPT ![t] = Append(@, Head(bus[t]))]
    /\ LET to == byAud[AudienceOf(Head(bus[t]))]
       IN  /\ targets' = [targets EXCEPT ![t] = to]
           /\ current' = [current EXCEPT ![t] = IF to = {} THEN {} ELSE {Head(bus[t])}]
    /\ UNCHANGED <<sent, emitted, lost, stopped, clientVars, brokerVars>>

\* One target of Publish is through; after the last the goroutine is idle again.
Through(t, c) ==
    /\ targets' = [targets EXCEPT ![t] = @ \ {c}]
    /\ current' = [current EXCEPT ![t] = IF targets[t] = {c} THEN {} ELSE @]

\* Wrong: the message is skipped for a client whose buffer is full.
WrongPush(t, c) ==
    /\ c \in targets[t]
    /\ Through(t, c)
    /\ \E m \in current[t] :
          buffer' = IF Len(buffer[c]) < BufferSize
                    THEN [buffer EXCEPT ![c] = Append(@, m)]
                    ELSE buffer
    /\ UNCHANGED <<busVars, handled, stopped, handler, written, brokerVars>>

\* Wrong: the goroutine waits for room in the buffer.
WrongBlockingPush(t, c) ==
    /\ c \in targets[t]
    /\ Len(buffer[c]) < BufferSize
    /\ Through(t, c)
    /\ \E m \in current[t] : buffer' = [buffer EXCEPT ![c] = Append(@, m)]
    /\ UNCHANGED <<busVars, handled, stopped, handler, written, brokerVars>>

\* The send of Publish to one target, which may be dropped or gone by now: it fills the
\* buffer all the same, and where there is no room the client is dropped.
Push(t, c) ==
    /\ c \in targets[t]
    /\ Through(t, c)
    /\ IF Len(buffer[c]) < BufferSize
       THEN /\ \E m \in current[t] : buffer' = [buffer EXCEPT ![c] = Append(@, m)]
            /\ UNCHANGED brokerVars
       ELSE Drop(c) /\ UNCHANGED buffer
    /\ UNCHANGED <<busVars, handled, stopped, handler, written>>

\* What the bus holds for the goroutine of a topic.
OnBus(t) == {bus[t][k] : k \in 1 .. Len(bus[t])}

\* The gateway shuts down: the goroutines leave instead of taking the next message, and
\* what the bus holds for them is lost.
Stop ==
    /\ ~ stopped
    /\ stopped' = TRUE
    /\ UNCHANGED <<busVars, handled, current, targets, clientVars, brokerVars>>

Leave(t) ==
    /\ stopped /\ Idle(t) /\ bus[t] # <<>>
    /\ bus' = [bus EXCEPT ![t] = <<>>]
    /\ lost' = lost \cup OnBus(t)
    /\ UNCHANGED <<sent, emitted, topicVars, clientVars, brokerVars>>

-----------------------------------------------------------------------------
(* The handlers of the clients.                                            *)

\* Subscribe registers the client. It is in the map before anything is written.
Connect(c) ==
    /\ handler[c] = "new"
    /\ handler' = [handler EXCEPT ![c] = "open"]
    /\ clients' = clients \cup {c}
    /\ Register(c)
    /\ UNCHANGED <<busVars, topicVars, closes, buffer, written>>

\* The handler writes an event out. It may pick this although done is closed.
Write(c) ==
    /\ handler[c] = "open" /\ buffer[c] # <<>>
    /\ written' = [written EXCEPT ![c] = Append(@, Head(buffer[c]))]
    /\ buffer' = [buffer EXCEPT ![c] = Tail(@)]
    /\ UNCHANGED <<busVars, topicVars, handler, brokerVars>>

\* The handler returns, and its deferred drop runs.
Returns(c) ==
    /\ handler[c] = "open"
    /\ handler' = [handler EXCEPT ![c] = "gone"]
    /\ Drop(c)
    /\ UNCHANGED <<busVars, topicVars, buffer, written>>

\* The connection is closed by the client or a time limit, or a write fails.
Disconnect(c) == Returns(c)

\* done is closed: the broker has dropped the client.
Dismissed(c) == closes[c] > 0 /\ Returns(c)

-----------------------------------------------------------------------------
TopicStep(t) == Misread(t) \/ Project(t) \/ Leave(t) \/ \E c \in Clients : Push(t, c)

Next ==
    \/ \E m \in Messages : Emit(m)
    \/ \E t \in Topics : TopicStep(t)
    \/ Stop
    \/ \E c \in Clients : Connect(c) \/ Write(c) \/ Disconnect(c) \/ Dismissed(c)

Spec == Init /\ [][Next]_vars

\* The goroutines of the topics run, and so does a handler that was dismissed. A client
\* need not read, so a handler need not get through a write.
FairSpec ==
    /\ Spec
    /\ \A t \in Topics : WF_vars(TopicStep(t))
    /\ \A c \in Clients : WF_vars(Dismissed(c))

-----------------------------------------------------------------------------
\* What a client was told, and is about to be told.
Told(c) == written[c] \o buffer[c]

\* Whether a message is for a client.
Concerns(m, c) == AudienceOf(m) \in AudiencesOf(c)

IsTold(c, m) == \E p \in 1 .. Len(Told(c)) : Told(c)[p] = m

\* A message that comes after all a client was told of its topic, and that a client who
\* is still registered will get, or be dropped for.
IsToCome(c, m) ==
    /\ \A p \in 1 .. Len(Told(c)) : Told(c)[p].topic = m.topic => Told(c)[p].n < m.n
    /\ c \in clients => \/ m \in OnBus(m.topic)
                        \/ m \in current[m.topic] /\ c \in targets[m.topic]

\* The broker makes no gap of its own, however publishers of other topics drop a client
\* while this one holds it as a target (Publish, drop). A client is told a topic in its
\* order, each message once and none that is for another user; and of what was sent after
\* its first event, it misses only what the bus lost or handleMessage could not read, and,
\* once it is dropped, what comes after its last event. A message that was lost does leave
\* a gap, before a client that stays connected and is not told of it.
BrokerSkipsNothing ==
    \A c \in Clients : \A i \in 1 .. Len(Told(c)) :
        LET first == Told(c)[i]
        IN  /\ Concerns(first, c)
            /\ \A j \in 1 .. Len(Told(c)) :
                   i < j /\ Told(c)[j].topic = first.topic => first.n < Told(c)[j].n
            /\ \A m \in emitted :
                   m.topic = first.topic /\ first.n < m.n /\ Concerns(m, c)
                       => IsTold(c, m) \/ m \in lost \/ IsToCome(c, m)

\* Publishers of several topics and the handler itself may drop the same client: its
\* channel done is closed once, as a second close panics the gateway (drop).
DoneIsClosedOnce == \A c \in Clients : closes[c] <= 1

\* The two maps know the same clients, those whose handler runs and that were not
\* dropped: a connection that is over holds no memory, one that is not misses nothing.
MapsAgree ==
    \A c \in Clients :
        /\ c \in clients <=> handler[c] = "open" /\ closes[c] = 0
        /\ \A a \in Audiences : c \in byAud[a] <=> c \in clients /\ a \in AudiencesOf(c)

\* A slow client never blocks the bus: every message is taken from it, though no
\* client reads.
BusIsDrained == \A t \in Topics : (bus[t] # <<>>) ~> (bus[t] = <<>>)

\* A client that was dropped is disconnected, so that it can connect anew.
DroppedClientLeaves ==
    \A c \in Clients : (handler[c] = "open" /\ c \notin clients) ~> (handler[c] = "gone")

-----------------------------------------------------------------------------
(* Why BrokerSkipsNothing holds.                                           *)

Handled(t) == {handled[t][k] : k \in 1 .. Len(handled[t])}

\* A topic is taken from the bus in the order in which it was sent.
TopicsAreOrdered ==
    \A t \in Topics :
        /\ \A k \in 1 .. Len(handled[t]) : handled[t][k].topic = t
        /\ \A k \in 1 .. Len(bus[t]) : bus[t][k].topic = t /\ bus[t][k].n <= sent[t]
        /\ \A k, l \in 1 .. Len(handled[t]) : k < l => handled[t][k].n < handled[t][l].n
        /\ \A k, l \in 1 .. Len(bus[t]) : k < l => bus[t][k].n < bus[t][l].n
        /\ \A m \in Handled(t) : m.n <= sent[t] /\ \A k \in 1 .. Len(bus[t]) : m.n < bus[t][k].n

\* What was sent was handled, waits on the bus, or is lost.
SentIsAccounted == \A m \in emitted : m \in Handled(m.topic) \/ m \in OnBus(m.topic) \/ m \in lost

\* The message that a goroutine publishes is the last that it took, and the targets that
\* are left have not got it.
CurrentIsLast ==
    \A t \in Topics :
        /\ \A m \in current[t] : m \in Handled(t) /\ \A h \in Handled(t) : h.n <= m.n
        /\ \A c \in targets[t] :
               /\ handler[c] # "new" /\ current[t] # {}
               /\ \A m \in current[t] :
                      /\ Concerns(m, c)
                      /\ \A i \in 1 .. Len(Told(c)) : Told(c)[i].topic = t => Told(c)[i].n < m.n

\* A client is told what was handled, for it and in order; before it connects, nothing.
ToldInOrder ==
    \A c \in Clients :
        /\ handler[c] = "new" => Told(c) = <<>>
        /\ \A i \in 1 .. Len(Told(c)) :
               /\ Told(c)[i].topic \in Topics /\ Told(c)[i] \in Handled(Told(c)[i].topic)
               /\ Concerns(Told(c)[i], c)
        /\ \A i, j \in 1 .. Len(Told(c)) :
               i < j /\ Told(c)[i].topic = Told(c)[j].topic => Told(c)[i].n < Told(c)[j].n

\* Between two messages a client misses none.
NothingBetween ==
    \A c \in Clients, t \in Topics : \A i, j \in 1 .. Len(Told(c)) : \A h \in Handled(t) :
        /\ Told(c)[i].topic = t /\ Told(c)[j].topic = t /\ Concerns(h, c)
        /\ Told(c)[i].n < h.n /\ h.n < Told(c)[j].n
        => IsTold(c, h)

\* A client that is registered, or a target, has everything since its first message but
\* the one that is being published to it.
NothingSince ==
    \A c \in Clients, t \in Topics : c \in clients \/ c \in targets[t] =>
        \A i \in 1 .. Len(Told(c)) : \A h \in Handled(t) :
            /\ Told(c)[i].topic = t /\ Concerns(h, c) /\ Told(c)[i].n < h.n
            => IsTold(c, h) \/ (h \in current[t] /\ c \in targets[t])

\* The inductive invariant of the streams.
StreamIInv == /\ TopicsAreOrdered /\ SentIsAccounted /\ CurrentIsLast
              /\ ToldInOrder /\ NothingBetween /\ NothingSince
=============================================================================
