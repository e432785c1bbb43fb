-------------------------- MODULE SSEBroker_proofs --------------------------
(***************************************************************************)
(* Proofs about module SSEBroker, for any number of topics, users and      *)
(* clients, and buffers of any size.                                       *)
(***************************************************************************)
EXTENDS SSEBroker, SequenceTheorems, TLAPS

\* A connection that has not come yet was never dropped.
NewIsUntouched == \A c \in Clients : handler[c] = "new" => closes[c] = 0

\* The inductive invariant: Connect may only register a client whose done is open.
IInv == TypeOK /\ MapsAgree /\ DoneIsClosedOnce /\ NewIsUntouched

-----------------------------------------------------------------------------
(* The types.                                                              *)

LEMMA AudiencesAreKnown == \A c \in Clients : AudiencesOf(c) \subseteq Audiences
BY SSEAssumption DEF AudiencesOf, Audiences

LEMMA InitIsTyped == Init => TypeOK
<1> SUFFICES ASSUME Init PROVE TypeOK
    OBVIOUS
<1>1. <<>> \in Seq(Messages) /\ Len(<<>>) = 0
      OBVIOUS
<1>2. 0 <= BusSize /\ 0 <= BufferSize
      BY SSEAssumption
<1>3. /\ bus \in [Topics -> Seq(Messages)]
      /\ \A t \in Topics : Len(bus[t]) <= BusSize
      BY <1>1, <1>2 DEF Init
<1>4. /\ buffer \in [Clients -> Seq(Messages)]
      /\ \A c \in Clients : Len(buffer[c]) <= BufferSize
      BY <1>1, <1>2 DEF Init
<1> QED BY <1>1, <1>3, <1>4 DEF Init, TypeOK

LEMMA DropIsTyped ==
    ASSUME TypeOK, NEW c \in Clients, Drop(c)
    PROVE  /\ clients' \subseteq Clients
           /\ byAud' \in [Audiences -> SUBSET Clients]
           /\ closes' \in [Clients -> Nat]
<1>1. CASE c \in clients
  <2>1. clients' \subseteq Clients
        BY <1>1 DEF Drop, TypeOK
  <2>2. byAud' \in [Audiences -> SUBSET Clients]
        BY <1>1 DEF Drop, TypeOK
  <2>3. closes' \in [Clients -> Nat]
    <3>1. closes' = [closes EXCEPT ![c] = @ + 1]
          BY <1>1 DEF Drop
    <3> QED BY <3>1 DEF TypeOK
  <2> QED BY <2>1, <2>2, <2>3
<1>2. CASE c \notin clients
      BY <1>2 DEF Drop, TypeOK, brokerVars
<1> QED BY <1>1, <1>2

\* What a goroutine publishes is a message; the sequences that hold messages stay so.
LEMMA HeadAndTail ==
    ASSUME NEW s \in Seq(Messages), s # <<>>
    PROVE  /\ Head(s) \in Messages
           /\ Tail(s) \in Seq(Messages)
           /\ Len(Tail(s)) = Len(s) - 1
OBVIOUS

LEMMA Appended ==
    ASSUME NEW s \in Seq(Messages), NEW m \in Messages
    PROVE  Append(s, m) \in Seq(Messages) /\ Len(Append(s, m)) = Len(s) + 1
OBVIOUS

LEMMA MessageIsOfTopic ==
    ASSUME NEW m \in Messages
    PROVE  m.topic \in Topics /\ m.n \in Nat /\ m.audience \in Audiences
BY SSEAssumption DEF Messages, MessagesOf, Audiences

LEMMA OnBusIsTyped == ASSUME TypeOK, NEW t \in Topics PROVE OnBus(t) \subseteq Messages
<1>1. bus[t] \in Seq(Messages)
      BY DEF TypeOK
<1> QED BY <1>1 DEF OnBus

LEMMA StepIsTyped == TypeOK /\ [Next]_vars => TypeOK'
<1> SUFFICES ASSUME TypeOK, [Next]_vars PROVE TypeOK'
    OBVIOUS
<1>1. ASSUME NEW m \in Messages, Emit(m) PROVE TypeOK'
  <2>1. m.topic \in Topics /\ m.n \in Nat
        BY MessageIsOfTopic
  <2>2. /\ bus' \in [Topics -> Seq(Messages)]
        /\ \A t \in Topics : Len(bus'[t]) <= BusSize
    <3>1. CASE UNCHANGED bus
          BY <3>1 DEF TypeOK
    <3>2. CASE Len(bus[m.topic]) < BusSize /\ bus' = [bus EXCEPT ![m.topic] = Append(@, m)]
          BY <2>1, <3>2, Appended, SSEAssumption DEF TypeOK
    <3> QED BY <1>1, <3>1, <3>2 DEF Emit
  <2> QED BY <1>1, <2>1, <2>2 DEF Emit, TypeOK, topicVars, clientVars, brokerVars
<1>2. ASSUME NEW t \in Topics, bus[t] # <<>>, bus' = [bus EXCEPT ![t] = Tail(@)]
      PROVE  /\ bus' \in [Topics -> Seq(Messages)]
             /\ \A u \in Topics : Len(bus'[u]) <= BusSize
      BY <1>2, HeadAndTail, SSEAssumption DEF TypeOK
<1>3. ASSUME NEW t \in Topics, Misread(t) PROVE TypeOK'
  <2>1. lost' \subseteq Messages
        BY <1>3, HeadAndTail DEF Misread, TypeOK
  <2> QED BY <1>2, <1>3, <2>1 DEF Misread, TypeOK, topicVars, clientVars, brokerVars
<1>4. ASSUME NEW t \in Topics, Project(t) PROVE TypeOK'
  <2> DEFINE m == Head(bus[t])
  <2>1. m \in Messages /\ AudienceOf(m) \in Audiences
        BY <1>4, HeadAndTail, MessageIsOfTopic DEF Project, TypeOK, AudienceOf
  <2>2. handled' \in [Topics -> Seq(Messages)]
        BY <1>4, <2>1, Appended DEF Project, TypeOK
  <2>3. byAud[AudienceOf(m)] \subseteq Clients
        BY <2>1 DEF TypeOK
  <2>4. targets' \in [Topics -> SUBSET Clients]
        BY <1>4, <2>3 DEF Project, TypeOK
  <2>5. current' \in [Topics -> SUBSET Messages]
        BY <1>4, <2>1 DEF Project, TypeOK
  <2> QED BY <1>2, <1>4, <2>2, <2>4, <2>5 DEF Project, TypeOK, clientVars, brokerVars
<1>5. ASSUME NEW t \in Topics, Leave(t) PROVE TypeOK'
  <2>1. lost' \subseteq Messages
        BY <1>5, OnBusIsTyped DEF Leave, TypeOK
  <2> QED BY <1>5, <2>1, SSEAssumption DEF Leave, TypeOK, topicVars, clientVars, brokerVars
<1>6. ASSUME NEW t \in Topics, NEW c \in Clients, Push(t, c) PROVE TypeOK'
  <2>1. /\ targets' \in [Topics -> SUBSET Clients]
        /\ current' \in [Topics -> SUBSET Messages]
        BY <1>6 DEF Push, Through, TypeOK
  <2>2. /\ buffer' \in [Clients -> Seq(Messages)]
        /\ \A d \in Clients : Len(buffer'[d]) <= BufferSize
    <3>1. CASE Len(buffer[c]) < BufferSize
      <4>1. PICK m \in current[t] : buffer' = [buffer EXCEPT ![c] = Append(@, m)]
            BY <1>6, <3>1 DEF Push
      <4>2. m \in Messages
            BY DEF TypeOK
      <4> QED BY <3>1, <4>1, <4>2, Appended, SSEAssumption DEF TypeOK
    <3>2. CASE ~ Len(buffer[c]) < BufferSize
          BY <1>6, <3>2 DEF Push, TypeOK
    <3> QED BY <3>1, <3>2
  <2>3. /\ clients' \subseteq Clients
        /\ byAud' \in [Audiences -> SUBSET Clients]
        /\ closes' \in [Clients -> Nat]
    <3>1. CASE UNCHANGED brokerVars
          BY <3>1 DEF brokerVars, TypeOK
    <3> QED BY <1>6, <3>1, DropIsTyped DEF Push
  <2> QED BY <1>6, <2>1, <2>2, <2>3 DEF Push, TypeOK, busVars
<1>7. ASSUME Stop PROVE TypeOK'
      BY <1>7 DEF Stop, TypeOK, busVars, clientVars, brokerVars
<1>8. ASSUME NEW c \in Clients, Connect(c) PROVE TypeOK'
  <2>1. byAud' \in [Audiences -> SUBSET Clients]
        BY <1>8 DEF Connect, Register, TypeOK
  <2> QED BY <1>8, <2>1 DEF Connect, TypeOK, busVars, topicVars
<1>9. ASSUME NEW c \in Clients, Write(c) PROVE TypeOK'
  <2>1. /\ buffer' \in [Clients -> Seq(Messages)]
        /\ \A d \in Clients : Len(buffer'[d]) <= BufferSize
        BY <1>9, HeadAndTail, SSEAssumption DEF Write, TypeOK
  <2>2. written' \in [Clients -> Seq(Messages)]
        BY <1>9, HeadAndTail, Appended DEF Write, TypeOK
  <2> QED BY <1>9, <2>1, <2>2 DEF Write, TypeOK, busVars, topicVars, brokerVars
<1>10. ASSUME NEW c \in Clients, Returns(c) PROVE TypeOK'
       BY <1>10, DropIsTyped DEF Returns, TypeOK, busVars, topicVars
<1>11. CASE UNCHANGED vars
       BY <1>11 DEF vars, TypeOK
<1> QED BY <1>1, <1>3, <1>4, <1>5, <1>6, <1>7, <1>8, <1>9, <1>10, <1>11
        DEF Next, TopicStep, Disconnect, Dismissed

-----------------------------------------------------------------------------
(* The maps.                                                               *)

LEMMA InitHolds == Init => IInv
<1> SUFFICES ASSUME Init PROVE IInv
    OBVIOUS
<1>1. MapsAgree
      BY DEF Init, MapsAgree
<1> QED BY <1>1, InitIsTyped DEF IInv, DoneIsClosedOnce, NewIsUntouched, Init

\* drop keeps the maps together, whoever calls it, and how often.
LEMMA DropKeepsMaps ==
    ASSUME IInv, NEW c \in Clients, Drop(c), UNCHANGED handler
    PROVE  MapsAgree' /\ DoneIsClosedOnce' /\ NewIsUntouched'
<1>1. CASE c \in clients
  <2>1. handler[c] = "open" /\ closes[c] = 0
        BY <1>1 DEF IInv, MapsAgree
  <2>2. closes' = [closes EXCEPT ![c] = @ + 1]
        BY <1>1 DEF Drop
  <2>3. \A d \in Clients : closes'[d] = IF d = c THEN 1 ELSE closes[d]
        BY <2>1, <2>2 DEF IInv, TypeOK
  <2>4. MapsAgree'
    <3>1. /\ clients' = clients \ {c}
          /\ \A a \in Audiences : byAud'[a] = byAud[a] \ {c}
          BY <1>1 DEF Drop
    <3> QED BY <2>3, <3>1 DEF IInv, MapsAgree, AudiencesOf
  <2> QED BY <2>1, <2>3, <2>4 DEF IInv, DoneIsClosedOnce, NewIsUntouched
<1>2. CASE c \notin clients
      BY <1>2 DEF Drop, brokerVars, IInv, MapsAgree, DoneIsClosedOnce, NewIsUntouched, AudiencesOf
<1> QED BY <1>1, <1>2

\* So does the drop with which a handler returns.
LEMMA ReturnsKeepsMaps ==
    ASSUME IInv, NEW c \in Clients, Returns(c)
    PROVE  MapsAgree' /\ DoneIsClosedOnce' /\ NewIsUntouched'
<1>1. \A d \in Clients : handler'[d] = IF d = c THEN "gone" ELSE handler[d]
      BY DEF Returns, IInv, TypeOK
<1>2. CASE c \in clients
  <2>1. closes[c] = 0
        BY <1>2 DEF IInv, MapsAgree
  <2>2. closes' = [closes EXCEPT ![c] = 1]
        BY <1>2, <2>1 DEF Returns, Drop, IInv, TypeOK
  <2>3. \A d \in Clients : closes'[d] = IF d = c THEN 1 ELSE closes[d]
        BY <2>2 DEF IInv, TypeOK
  <2>4. MapsAgree'
        BY <1>1, <1>2, <2>3 DEF Returns, Drop, IInv, TypeOK, MapsAgree, AudiencesOf
  <2> QED BY <1>1, <2>3, <2>4 DEF IInv, DoneIsClosedOnce, NewIsUntouched
<1>3. CASE c \notin clients
  <2>1. UNCHANGED <<clients, byAud, closes>>
        BY <1>3 DEF Returns, Drop, brokerVars
  <2>2. MapsAgree'
        BY <1>1, <1>3, <2>1 DEF IInv, MapsAgree, AudiencesOf
  <2> QED BY <1>1, <2>1, <2>2 DEF IInv, DoneIsClosedOnce, NewIsUntouched
<1> QED BY <1>2, <1>3

LEMMA ConnectKeepsMaps ==
    ASSUME IInv, NEW c \in Clients, Connect(c)
    PROVE  MapsAgree' /\ DoneIsClosedOnce' /\ NewIsUntouched'
<1>1. closes[c] = 0 /\ c \notin clients
      BY DEF Connect, IInv, NewIsUntouched, MapsAgree
<1>2. \A d \in Clients : handler'[d] = IF d = c THEN "open" ELSE handler[d]
      BY DEF Connect, IInv, TypeOK
<1>3. \A a \in Audiences, d \in Clients :
          d \in byAud'[a] <=> d \in byAud[a] \/ (d = c /\ a \in AudiencesOf(c))
      BY DEF Connect, Register
<1>4. \A a \in Audiences : c \notin byAud[a]
      BY <1>1 DEF IInv, MapsAgree
<1>5. MapsAgree'
      BY <1>1, <1>2, <1>3, <1>4 DEF Connect, IInv, MapsAgree, AudiencesOf
<1> QED BY <1>1, <1>2, <1>5 DEF Connect, IInv, DoneIsClosedOnce, NewIsUntouched

LEMMA StepKeepsIInv == IInv /\ [Next]_vars => IInv'
<1> SUFFICES ASSUME IInv, [Next]_vars PROVE IInv'
    OBVIOUS
<1>t. TypeOK'
      BY StepIsTyped DEF IInv
<1>0. ASSUME UNCHANGED <<handler, clients, byAud, closes>> PROVE IInv'
  <2>1. MapsAgree'
        BY <1>0 DEF IInv, MapsAgree, AudiencesOf
  <2> QED BY <1>0, <1>t, <2>1 DEF IInv, DoneIsClosedOnce, NewIsUntouched
<1>1. ASSUME NEW t \in Topics, NEW c \in Clients, Push(t, c) PROVE IInv'
  <2>1. CASE UNCHANGED brokerVars
        BY <1>0, <1>1, <2>1 DEF Push, brokerVars
  <2>2. CASE Drop(c)
        BY <1>1, <1>t, <2>2, DropKeepsMaps DEF Push, IInv
  <2> QED BY <1>1, <2>1, <2>2 DEF Push
<1>2. ASSUME NEW c \in Clients, Connect(c) PROVE IInv'
      BY <1>2, <1>t, ConnectKeepsMaps DEF IInv
<1>3. ASSUME NEW c \in Clients, Returns(c) PROVE IInv'
      BY <1>3, <1>t, ReturnsKeepsMaps DEF IInv
<1>4. ASSUME NEW c \in Clients, Write(c) PROVE IInv'
      BY <1>0, <1>4 DEF Write, brokerVars
<1>5. CASE Stop
      BY <1>0, <1>5 DEF Stop, clientVars, brokerVars
<1>6. ASSUME NEW m \in Messages, Emit(m) PROVE IInv'
      BY <1>0, <1>6 DEF Emit, clientVars, brokerVars
<1>7. ASSUME NEW t \in Topics, Misread(t) \/ Project(t) \/ Leave(t) PROVE IInv'
      BY <1>0, <1>7 DEF Misread, Project, Leave, clientVars, brokerVars
<1>8. CASE UNCHANGED vars
      BY <1>0, <1>8 DEF vars
<1> QED BY <1>1, <1>2, <1>3, <1>4, <1>5, <1>6, <1>7, <1>8
        DEF Next, TopicStep, Disconnect, Dismissed

-----------------------------------------------------------------------------
\* The inductive invariant of the broker's maps holds.
THEOREM InvariantHolds == Spec => []IInv
BY InitHolds, StepKeepsIInv, PTL DEF Spec

\* No client is closed twice, however many publishers and its own handler drop it at
\* once: Broker.drop never panics.
THEOREM NeverClosedTwice == Spec => []DoneIsClosedOnce
<1>1. IInv => DoneIsClosedOnce
      BY DEF IInv
<1> QED BY <1>1, InvariantHolds, PTL

\* The two maps of the broker always know the same clients, those that are connected
\* and were not dropped.
THEOREM MapsAlwaysAgree == Spec => []MapsAgree
<1>1. IInv => MapsAgree
      BY DEF IInv
<1> QED BY <1>1, InvariantHolds, PTL

-----------------------------------------------------------------------------
(* The streams.                                                            *)

LEMMA ToldIsTyped ==
    ASSUME TypeOK, NEW c \in Clients
    PROVE  Told(c) \in Seq(Messages) /\ \A i \in 1 .. Len(Told(c)) : Told(c)[i] \in Messages
<1>1. written[c] \in Seq(Messages) /\ buffer[c] \in Seq(Messages)
      BY DEF TypeOK
<1>2. Told(c) \in Seq(Messages)
      BY <1>1 DEF Told
<1> QED BY <1>2

\* Where the two sequences of Told meet does not matter.
LEMMA ConcatAppend ==
    ASSUME NEW r \in Seq(Messages), NEW s \in Seq(Messages), NEW m \in Messages
    PROVE  /\ r \o Append(s, m) = Append(r \o s, m)
           /\ Append(r, m) \o s = r \o (<<m>> \o s)
<1>1. r \o Append(s, m) = Append(r \o s, m)
      BY SMT
<1>2. Append(r, m) \o s = r \o (<<m>> \o s)
      BY SMT
<1> QED BY <1>1, <1>2

LEMMA HandledAreMessages ==
    ASSUME TypeOK, NEW t \in Topics
    PROVE  Handled(t) \subseteq Messages
<1>1. handled[t] \in Seq(Messages)
      BY DEF TypeOK
<1> QED BY <1>1 DEF Handled

LEMMA NumbersAreNat == \A m \in Messages : m.n \in Nat
BY MessageIsOfTopic

\* The number tells the messages of a topic apart that were handled.
LEMMA HandledIsNumbered ==
    ASSUME TypeOK, TopicsAreOrdered, NEW t \in Topics,
           NEW m \in Handled(t), NEW h \in Handled(t), m.n = h.n
    PROVE  m = h
<1>1. PICK k \in 1 .. Len(handled[t]), l \in 1 .. Len(handled[t]) :
          handled[t][k] = m /\ handled[t][l] = h
      BY DEF Handled
<1>2. m.n \in Nat /\ h.n \in Nat
      BY HandledAreMessages, NumbersAreNat
<1>3. ~ (k < l) /\ ~ (l < k)
      BY <1>1, <1>2 DEF TopicsAreOrdered
<1>4. k \in Nat /\ l \in Nat
      BY DEF TypeOK
<1>5. k = l
      BY <1>3, <1>4
<1> QED BY <1>1, <1>5

\* One message is published at a time, and a goroutine that is idle has no target.
LEMMA OneCurrent ==
    ASSUME TypeOK, TopicsAreOrdered, CurrentIsLast, NEW t \in Topics
    PROVE  /\ \A m, h \in current[t] : m = h
           /\ Idle(t) => targets[t] = {}
<1>1. ASSUME NEW m \in current[t], NEW h \in current[t] PROVE m = h
  <2>1. m \in Handled(t) /\ h \in Handled(t) /\ m.n <= h.n /\ h.n <= m.n
        BY DEF CurrentIsLast
  <2>2. m.n \in Nat /\ h.n \in Nat
        BY <2>1, HandledAreMessages, NumbersAreNat
  <2> QED BY <2>1, <2>2, HandledIsNumbered
<1>2. Idle(t) => targets[t] = {}
      BY DEF Idle, CurrentIsLast
<1> QED BY <1>1, <1>2

LEMMA StreamsInit == Init => StreamIInv
<1> SUFFICES ASSUME Init PROVE StreamIInv
    OBVIOUS
<1>e. Len(<<>>) = 0 /\ <<>> \o <<>> = <<>> /\ 1 .. 0 = {}
      OBVIOUS
<1>1. \A t \in Topics : /\ 1 .. Len(handled[t]) = {} /\ 1 .. Len(bus[t]) = {}
                        /\ current[t] = {} /\ targets[t] = {}
      BY <1>e DEF Init
<1>2. \A t \in Topics : Handled(t) = {}
      BY <1>1 DEF Handled
<1>3. \A c \in Clients : Told(c) = <<>> /\ 1 .. Len(Told(c)) = {}
      BY <1>e DEF Init, Told
<1>4. TopicsAreOrdered
      BY <1>1, <1>2 DEF TopicsAreOrdered
<1>5. CurrentIsLast
      BY <1>1 DEF CurrentIsLast
<1>6. SentIsAccounted
      BY DEF Init, SentIsAccounted
<1> QED BY <1>3, <1>4, <1>5, <1>6 DEF StreamIInv, ToldInOrder, NothingBetween, NothingSince

\* The steps that tell nobody anything, and take nothing from the bus but to lose it.
LEMMA QuietKeepsStreams ==
    ASSUME TypeOK, StreamIInv, UNCHANGED <<handled, current, targets>>,
           \A c \in Clients : Told(c)' = Told(c),
           \A c \in Clients : handler'[c] = "new" => handler[c] = "new",
           \A c \in clients' : c \in clients \/ handler[c] = "new"
    PROVE  CurrentIsLast' /\ ToldInOrder' /\ NothingBetween' /\ NothingSince'
<1>1. \A t \in Topics : Handled(t)' = Handled(t)
      BY DEF Handled
<1>2. \A c \in Clients : \A m : IsTold(c, m)' <=> IsTold(c, m)
      BY DEF IsTold
<1>3. \A c \in Clients : \A m : Concerns(m, c)' <=> Concerns(m, c)
      BY DEF Concerns, AudienceOf, AudiencesOf
<1>4. CurrentIsLast'
      BY <1>1, <1>3 DEF StreamIInv, CurrentIsLast, TypeOK
<1>5. ToldInOrder'
      BY <1>1, <1>3 DEF StreamIInv, ToldInOrder
<1>6. NothingBetween'
      BY <1>1, <1>2, <1>3 DEF StreamIInv, ToldInOrder, NothingBetween
<1>7. NothingSince'
  <2> SUFFICES ASSUME NEW c \in Clients, NEW t \in Topics, c \in clients' \/ c \in targets[t],
                      NEW i \in 1 .. Len(Told(c)), NEW h \in Handled(t),
                      Told(c)[i].topic = t, Concerns(h, c), Told(c)[i].n < h.n
               PROVE  IsTold(c, h) \/ (h \in current[t] /\ c \in targets[t])
      BY <1>1, <1>2, <1>3 DEF NothingSince
  <2>1. c \in clients \/ c \in targets[t]
    <3>1. Told(c) # <<>>
          BY ToldIsTyped
    <3> QED BY <3>1 DEF StreamIInv, ToldInOrder
  <2> QED BY <2>1 DEF StreamIInv, NothingSince
<1> QED BY <1>4, <1>5, <1>6, <1>7

LEMMA EmitKeepsOrder ==
    ASSUME TypeOK, TopicsAreOrdered, NEW m \in Messages, Emit(m)
    PROVE  TopicsAreOrdered'
<1>1. m.topic \in Topics /\ m.n \in Nat
      BY MessageIsOfTopic
<1>2. PICK t \in Topics : t = m.topic
      BY <1>1
<1>3. /\ m.n = sent[t] + 1 /\ handled' = handled
      /\ \A u \in Topics : sent'[u] = IF u = t THEN m.n ELSE sent[u]
      BY <1>2 DEF Emit, TypeOK, topicVars
<1>4. \A u \in Topics : bus'[u] = bus[u] \/ (u = t /\ bus'[u] = Append(bus[u], m))
      BY <1>2 DEF Emit, TypeOK
<1>5. \A u \in Topics : Handled(u)' = Handled(u)
      BY <1>3 DEF Handled
<1> SUFFICES ASSUME NEW u \in Topics
             PROVE  /\ \A k \in 1 .. Len(handled'[u]) : handled'[u][k].topic = u
                    /\ \A k \in 1 .. Len(bus'[u]) : bus'[u][k].topic = u /\ bus'[u][k].n <= sent'[u]
                    /\ \A k, l \in 1 .. Len(handled'[u]) : k < l => handled'[u][k].n < handled'[u][l].n
                    /\ \A k, l \in 1 .. Len(bus'[u]) : k < l => bus'[u][k].n < bus'[u][l].n
                    /\ \A h \in Handled(u)' : h.n <= sent'[u] /\ \A k \in 1 .. Len(bus'[u]) : h.n < bus'[u][k].n
    BY DEF TopicsAreOrdered
<1>6. /\ bus[u] \in Seq(Messages) /\ sent[u] \in Nat
      /\ \A h \in Handled(u) : h.n \in Nat
      /\ \A k \in 1 .. Len(bus[u]) : bus[u][k] \in Messages /\ bus[u][k].n \in Nat
  <2>1. bus[u] \in Seq(Messages) /\ sent[u] \in Nat
        BY DEF TypeOK
  <2>2. \A k \in 1 .. Len(bus[u]) : bus[u][k] \in Messages
        BY <2>1
  <2> QED BY <2>1, <2>2, NumbersAreNat, HandledAreMessages
<1>7. sent[u] <= sent'[u] /\ sent'[u] \in Nat /\ (u = t => sent'[u] = m.n /\ sent[u] < m.n)
      BY <1>1, <1>3, <1>6
<1>8. /\ \A k \in 1 .. Len(bus[u]) : bus[u][k].topic = u /\ bus[u][k].n <= sent[u]
      /\ \A k, l \in 1 .. Len(bus[u]) : k < l => bus[u][k].n < bus[u][l].n
      /\ \A h \in Handled(u) : h.n <= sent[u] /\ \A k \in 1 .. Len(bus[u]) : h.n < bus[u][k].n
      BY DEF TopicsAreOrdered
<1>9. /\ \A k \in 1 .. Len(handled'[u]) : handled'[u][k].topic = u
      /\ \A k, l \in 1 .. Len(handled'[u]) : k < l => handled'[u][k].n < handled'[u][l].n
      BY <1>3 DEF TopicsAreOrdered
<1>10. CASE bus'[u] = bus[u]
      BY <1>5, <1>6, <1>7, <1>8, <1>9, <1>10
<1>11. CASE u = t /\ bus'[u] = Append(bus[u], m)
  <2>1. /\ Len(bus'[u]) = Len(bus[u]) + 1 /\ Len(bus[u]) \in Nat
        /\ \A k \in 1 .. Len(bus[u]) : bus'[u][k] = bus[u][k]
        /\ bus'[u][Len(bus[u]) + 1] = m
        BY <1>6, <1>11
  <2>2. \A k \in 1 .. Len(bus'[u]) : k \in 1 .. Len(bus[u]) \/ k = Len(bus[u]) + 1
        BY <2>1
  <2>3. \A k \in 1 .. Len(bus'[u]) : bus'[u][k].topic = u /\ bus'[u][k].n <= sent'[u]
        BY <1>1, <1>2, <1>6, <1>7, <1>8, <1>11, <2>1, <2>2
  <2>4. \A k, l \in 1 .. Len(bus'[u]) : k < l => bus'[u][k].n < bus'[u][l].n
        BY <1>1, <1>6, <1>7, <1>8, <1>11, <2>1, <2>2
  <2>5. \A h \in Handled(u)' : h.n <= sent'[u] /\ \A k \in 1 .. Len(bus'[u]) : h.n < bus'[u][k].n
        BY <1>1, <1>5, <1>6, <1>7, <1>8, <1>11, <2>1, <2>2
  <2> QED BY <1>9, <2>3, <2>4, <2>5
<1> QED BY <1>4, <1>10, <1>11

\* What is left of the bus when its first message is taken.
LEMMA TailIsLater ==
    ASSUME TypeOK, TopicsAreOrdered, NEW t \in Topics, bus[t] # <<>>
    PROVE  LET b == Tail(bus[t])
           IN  /\ Head(bus[t]) \in Messages /\ Head(bus[t]).topic = t /\ Head(bus[t]).n <= sent[t]
               /\ \A h \in Handled(t) : h.n < Head(bus[t]).n
               /\ \A k \in 1 .. Len(b) : /\ b[k].topic = t /\ b[k].n <= sent[t]
                                         /\ Head(bus[t]).n < b[k].n
                                         /\ \A h \in Handled(t) : h.n < b[k].n
               /\ \A k, l \in 1 .. Len(b) : k < l => b[k].n < b[l].n
<1> DEFINE b == Tail(bus[t])
<1>1. bus[t] \in Seq(Messages)
      BY DEF TypeOK
<1>2. /\ Len(bus[t]) \in Nat /\ 1 \in 1 .. Len(bus[t]) /\ Head(bus[t]) = bus[t][1] /\ Head(bus[t]) \in Messages
      /\ Len(b) = Len(bus[t]) - 1
      /\ \A k \in 1 .. Len(b) : b[k] = bus[t][k + 1]
      BY <1>1
<1>3. \A k \in 1 .. Len(b) : k + 1 \in 1 .. Len(bus[t]) /\ 1 < k + 1
      BY <1>2
<1> HIDE DEF b
<1>4. \A k, l \in 1 .. Len(b) : k < l => k + 1 < l + 1
      BY <1>2
<1> QED BY <1>2, <1>3, <1>4 DEF TopicsAreOrdered, b

LEMMA MisreadKeepsOrder ==
    ASSUME TypeOK, TopicsAreOrdered, NEW t \in Topics, Misread(t) \/ Leave(t)
    PROVE  TopicsAreOrdered'
<1>1. /\ bus[t] # <<>> /\ handled' = handled /\ sent' = sent
      /\ \A u \in Topics : Handled(u)' = Handled(u)
      BY DEF Misread, Leave, topicVars, Handled
<1>2. \A u \in Topics : \/ bus'[u] = bus[u]
                        \/ u = t /\ (bus'[u] = Tail(bus[u]) \/ bus'[u] = <<>>)
      BY DEF Misread, Leave, TypeOK
<1> SUFFICES ASSUME NEW u \in Topics
             PROVE  /\ \A k \in 1 .. Len(bus'[u]) : bus'[u][k].topic = u /\ bus'[u][k].n <= sent[u]
                    /\ \A k, l \in 1 .. Len(bus'[u]) : k < l => bus'[u][k].n < bus'[u][l].n
                    /\ \A h \in Handled(u) : \A k \in 1 .. Len(bus'[u]) : h.n < bus'[u][k].n
    BY <1>1 DEF TopicsAreOrdered
<1>3. CASE bus'[u] = bus[u]
      BY <1>3 DEF TopicsAreOrdered
<1>4. CASE u = t /\ bus'[u] = Tail(bus[u])
      BY <1>1, <1>4, TailIsLater
<1>5. CASE bus'[u] = <<>>
  <2>1. Len(bus'[u]) = 0
        BY <1>5
  <2> QED BY <2>1
<1> QED BY <1>2, <1>3, <1>4, <1>5

\* A message that is sent gets onto the bus or is lost, and one that leaves the bus is
\* handled or lost.
LEMMA StepKeepsAccount ==
    ASSUME TypeOK, SentIsAccounted, [Next]_vars
    PROVE  SentIsAccounted'
<1>0. ASSUME UNCHANGED <<bus, emitted, lost, handled>> PROVE SentIsAccounted'
      BY <1>0 DEF SentIsAccounted, OnBus, Handled
<1>m. \A m \in emitted : m.topic \in Topics
      BY MessageIsOfTopic DEF TypeOK
<1>1. ASSUME NEW m \in Messages, Emit(m) PROVE SentIsAccounted'
  <2>1. /\ emitted' = emitted \cup {m} /\ lost \subseteq lost'
        /\ \A t \in Topics : Handled(t)' = Handled(t)
        BY <1>1 DEF Emit, topicVars, Handled
  <2>2. m.topic \in Topics
        BY MessageIsOfTopic
  <2>3. CASE UNCHANGED bus /\ lost' = lost \cup {m}
    <3>1. \A t \in Topics : OnBus(t)' = OnBus(t)
          BY <2>3 DEF OnBus
    <3> QED BY <1>m, <2>1, <2>2, <2>3, <3>1 DEF SentIsAccounted
  <2>4. CASE bus' = [bus EXCEPT ![m.topic] = Append(@, m)]
    <3>1. \A t \in Topics \ {m.topic} : OnBus(t)' = OnBus(t)
          BY <2>4 DEF OnBus, TypeOK
    <3>2. OnBus(m.topic) \subseteq OnBus(m.topic)' /\ m \in OnBus(m.topic)'
      <4>1. bus[m.topic] \in Seq(Messages) /\ bus'[m.topic] = Append(bus[m.topic], m)
            BY <2>2, <2>4 DEF TypeOK
      <4>2. /\ Len(bus[m.topic]) \in Nat /\ Len(bus'[m.topic]) = Len(bus[m.topic]) + 1
            /\ \A k \in 1 .. Len(bus[m.topic]) : bus'[m.topic][k] = bus[m.topic][k]
            /\ bus'[m.topic][Len(bus[m.topic]) + 1] = m
            BY <4>1
      <4> QED BY <4>2 DEF OnBus
    <3> QED BY <1>m, <2>1, <2>2, <3>1, <3>2 DEF SentIsAccounted
  <2> QED BY <1>1, <2>3, <2>4 DEF Emit
<1>t. ASSUME NEW t \in Topics, bus[t] # <<>>, bus' = [bus EXCEPT ![t] = Tail(@)]
      PROVE  /\ OnBus(t) \subseteq OnBus(t)' \cup {Head(bus[t])}
             /\ \A u \in Topics \ {t} : OnBus(u)' = OnBus(u)
  <2>1. bus[t] \in Seq(Messages) /\ bus'[t] = Tail(bus[t])
        BY <1>t DEF TypeOK
  <2>2. /\ Len(bus[t]) \in Nat /\ Head(bus[t]) = bus[t][1] /\ Len(bus'[t]) = Len(bus[t]) - 1
        /\ \A k \in 1 .. Len(bus'[t]) : bus'[t][k] = bus[t][k + 1]
    <3> DEFINE b == Tail(bus[t])
    <3>1. /\ Len(bus[t]) \in Nat /\ Head(bus[t]) = bus[t][1] /\ Len(b) = Len(bus[t]) - 1
          /\ \A k \in 1 .. Len(b) : b[k] = bus[t][k + 1]
          BY <1>t, <2>1
    <3> HIDE DEF b
    <3> QED BY <2>1, <3>1 DEF b
  <2>3. ASSUME NEW k \in 1 .. Len(bus[t]), k # 1 PROVE bus[t][k] \in OnBus(t)'
    <3>1. k - 1 \in 1 .. Len(bus'[t]) /\ (k - 1) + 1 = k
          BY <2>2, <2>3
    <3>2. bus'[t][k - 1] = bus[t][k]
          BY <2>2, <3>1
    <3> QED BY <3>1, <3>2 DEF OnBus
  <2>4. OnBus(t) \subseteq OnBus(t)' \cup {Head(bus[t])}
        BY <2>2, <2>3 DEF OnBus
  <2> QED BY <1>t, <2>4 DEF OnBus, TypeOK
<1>2. ASSUME NEW t \in Topics, Misread(t) PROVE SentIsAccounted'
  <2>1. \A u \in Topics : Handled(u)' = Handled(u)
        BY <1>2 DEF Misread, topicVars, Handled
  <2> QED BY <1>2, <1>m, <1>t, <2>1 DEF Misread, SentIsAccounted
<1>3. ASSUME NEW t \in Topics, Leave(t) PROVE SentIsAccounted'
  <2>1. \A u \in Topics : Handled(u)' = Handled(u)
        BY <1>3 DEF Leave, topicVars, Handled
  <2>2. \A u \in Topics \ {t} : OnBus(u)' = OnBus(u)
        BY <1>3 DEF Leave, OnBus, TypeOK
  <2> QED BY <1>3, <1>m, <2>1, <2>2 DEF Leave, SentIsAccounted
<1>4. ASSUME NEW t \in Topics, Project(t) PROVE SentIsAccounted'
  <2>1. /\ \A u \in Topics \ {t} : Handled(u)' = Handled(u)
        /\ handled[t] \in Seq(Messages) /\ handled'[t] = Append(handled[t], Head(bus[t]))
        BY <1>4 DEF Project, Handled, TypeOK
  <2>2. Head(bus[t]) \in Messages
        BY <1>4, HeadAndTail DEF Project, TypeOK
  <2>3. Handled(t) \subseteq Handled(t)' /\ Head(bus[t]) \in Handled(t)'
    <3>1. /\ Len(handled[t]) \in Nat /\ Len(handled'[t]) = Len(handled[t]) + 1
          /\ \A k \in 1 .. Len(handled[t]) : handled'[t][k] = handled[t][k]
          /\ handled'[t][Len(handled[t]) + 1] = Head(bus[t])
          BY <2>1, <2>2
    <3> QED BY <3>1 DEF Handled
  <2> QED BY <1>4, <1>m, <1>t, <2>1, <2>3 DEF Project, SentIsAccounted
<1>5. ASSUME NEW t \in Topics, NEW c \in Clients, Push(t, c) PROVE SentIsAccounted'
      BY <1>0, <1>5 DEF Push, busVars
<1>6. ASSUME NEW c \in Clients, Connect(c) \/ Write(c) \/ Returns(c) PROVE SentIsAccounted'
      BY <1>0, <1>6 DEF Connect, Write, Returns, busVars, topicVars
<1>7. CASE Stop \/ UNCHANGED vars
      BY <1>0, <1>7 DEF Stop, vars, busVars
<1> QED BY <1>1, <1>2, <1>3, <1>4, <1>5, <1>6, <1>7
        DEF Next, TopicStep, Disconnect, Dismissed

\* What is taken from the bus goes to the end of the topic, and to all who are registered
\* for its audience.
LEMMA ProjectKeepsStreams ==
    ASSUME IInv, StreamIInv, NEW t \in Topics, Project(t), SentIsAccounted'
    PROVE  StreamIInv'
<1> DEFINE m  == Head(bus[t])
           to == byAud[AudienceOf(m)]
<1>1. /\ Idle(t) /\ bus[t] # <<>> /\ UNCHANGED <<sent, handler, clients>>
      /\ \A c \in Clients : Told(c)' = Told(c)
      BY DEF Project, clientVars, brokerVars, Told
<1>2. TypeOK /\ TopicsAreOrdered /\ CurrentIsLast /\ targets[t] = {} /\ current[t] = {}
      BY <1>1, OneCurrent DEF IInv, StreamIInv, Idle
<1>3. /\ m \in Messages /\ m.topic = t /\ m.n \in Nat /\ m.n <= sent[t]
      /\ \A h \in Handled(t) : h.n < m.n /\ h.n \in Nat
      BY <1>1, <1>2, TailIsLater, NumbersAreNat, HandledAreMessages
<1>4. /\ \A u \in Topics : handled'[u] = IF u = t THEN Append(handled[t], m) ELSE handled[u]
      /\ \A u \in Topics : bus'[u] = IF u = t THEN Tail(bus[t]) ELSE bus[u]
      /\ \A u \in Topics : targets'[u] = IF u = t THEN to ELSE targets[u]
      /\ \A u \in Topics : current'[u] = IF u = t THEN IF to = {} THEN {} ELSE {m} ELSE current[u]
      BY <1>2 DEF Project, TypeOK
<1>5. \A c \in Clients : c \in to <=> c \in clients /\ Concerns(m, c)
      BY <1>3, MessageIsOfTopic DEF IInv, MapsAgree, Concerns, AudienceOf
<1>6. /\ handled[t] \in Seq(Messages) /\ Len(handled[t]) \in Nat
      /\ Len(handled'[t]) = Len(handled[t]) + 1
      /\ \A k \in 1 .. Len(handled[t]) : handled'[t][k] = handled[t][k]
      /\ handled'[t][Len(handled[t]) + 1] = m
  <2>1. handled[t] \in Seq(Messages) /\ handled'[t] = Append(handled[t], m)
        BY <1>2, <1>4 DEF TypeOK
  <2> QED BY <1>3, <2>1
<1>7. to \subseteq Clients /\ \A c \in to : handler[c] = "open"
      BY <1>2, <1>3, <1>5, MessageIsOfTopic DEF IInv, MapsAgree, TypeOK, AudienceOf
<1> HIDE DEF m, to
<1>8. /\ \A k \in 1 .. Len(handled'[t]) : k \in 1 .. Len(handled[t]) \/ k = Len(handled[t]) + 1
      /\ 1 .. Len(handled[t]) \subseteq 1 .. Len(handled'[t]) /\ Len(handled[t]) + 1 \in 1 .. Len(handled'[t])
      BY <1>6
<1>9. \A u \in Topics : Handled(u)' = IF u = t THEN Handled(t) \cup {m} ELSE Handled(u)
  <2>1. Handled(t)' = Handled(t) \cup {m}
        BY <1>6, <1>8 DEF Handled
  <2>2. \A u \in Topics \ {t} : Handled(u)' = Handled(u)
        BY <1>4 DEF Handled
  <2> QED BY <2>1, <2>2
<1>10. TopicsAreOrdered'
  <2>1. ASSUME NEW u \in Topics, u # t
        PROVE  /\ \A k \in 1 .. Len(handled'[u]) : handled'[u][k].topic = u
               /\ \A k \in 1 .. Len(bus'[u]) : bus'[u][k].topic = u /\ bus'[u][k].n <= sent'[u]
               /\ \A k, l \in 1 .. Len(handled'[u]) : k < l => handled'[u][k].n < handled'[u][l].n
               /\ \A k, l \in 1 .. Len(bus'[u]) : k < l => bus'[u][k].n < bus'[u][l].n
               /\ \A h \in Handled(u)' : h.n <= sent'[u] /\ \A k \in 1 .. Len(bus'[u]) : h.n < bus'[u][k].n
    <3>1. handled'[u] = handled[u] /\ bus'[u] = bus[u] /\ sent'[u] = sent[u] /\ Handled(u)' = Handled(u)
          BY <1>1, <1>4, <1>9, <2>1
    <3>2. /\ \A k \in 1 .. Len(handled[u]) : handled[u][k].topic = u
          /\ \A k \in 1 .. Len(bus[u]) : bus[u][k].topic = u /\ bus[u][k].n <= sent[u]
          /\ \A k, l \in 1 .. Len(handled[u]) : k < l => handled[u][k].n < handled[u][l].n
          /\ \A k, l \in 1 .. Len(bus[u]) : k < l => bus[u][k].n < bus[u][l].n
          /\ \A h \in Handled(u) : h.n <= sent[u] /\ \A k \in 1 .. Len(bus[u]) : h.n < bus[u][k].n
          BY <1>2 DEF TopicsAreOrdered
    <3> QED BY <3>1, <3>2
  <2>2. \A k \in 1 .. Len(handled'[t]) : handled'[t][k].topic = t
        BY <1>2, <1>3, <1>6, <1>8 DEF TopicsAreOrdered
  <2>3. ASSUME NEW k \in 1 .. Len(handled'[t]), NEW l \in 1 .. Len(handled'[t]), k < l
        PROVE  handled'[t][k].n < handled'[t][l].n
    <3>1. k \in 1 .. Len(handled[t])
          BY <1>6, <1>8, <2>3
    <3>2. CASE l \in 1 .. Len(handled[t])
          BY <1>2, <1>6, <2>3, <3>1, <3>2 DEF TopicsAreOrdered
    <3>3. CASE l = Len(handled[t]) + 1
      <4>1. handled[t][k] \in Handled(t)
            BY <3>1 DEF Handled
      <4> QED BY <1>3, <1>6, <3>1, <3>3, <4>1
    <3> QED BY <1>8, <3>2, <3>3
  <2>4. /\ \A k \in 1 .. Len(bus'[t]) : bus'[t][k].topic = t /\ bus'[t][k].n <= sent'[t]
        /\ \A k, l \in 1 .. Len(bus'[t]) : k < l => bus'[t][k].n < bus'[t][l].n
        /\ \A h \in Handled(t)' : \A k \in 1 .. Len(bus'[t]) : h.n < bus'[t][k].n
    <3>1. bus'[t] = Tail(bus[t]) /\ sent'[t] = sent[t] /\ Handled(t)' = Handled(t) \cup {m}
          BY <1>1, <1>4, <1>9
    <3>2. /\ \A k \in 1 .. Len(Tail(bus[t])) :
                 /\ Tail(bus[t])[k].topic = t /\ Tail(bus[t])[k].n <= sent[t]
                 /\ m.n < Tail(bus[t])[k].n
                 /\ \A h \in Handled(t) : h.n < Tail(bus[t])[k].n
          /\ \A k, l \in 1 .. Len(Tail(bus[t])) : k < l => Tail(bus[t])[k].n < Tail(bus[t])[l].n
          BY <1>1, <1>2, TailIsLater DEF m
    <3> QED BY <3>1, <3>2
  <2>5. \A h \in Handled(t)' : h.n <= sent'[t]
        BY <1>1, <1>2, <1>3, <1>9 DEF TopicsAreOrdered
  <2> QED BY <2>1, <2>2, <2>3, <2>4, <2>5 DEF TopicsAreOrdered
<1>11. \A c \in Clients : \A i \in 1 .. Len(Told(c)) :
           Told(c)[i].topic = t => Told(c)[i] \in Handled(t) /\ Told(c)[i].n < m.n /\ Told(c)[i].n \in Nat
      BY <1>3 DEF StreamIInv, ToldInOrder
<1>12. CurrentIsLast'
  <2>1. ASSUME NEW u \in Topics, u # t
        PROVE  /\ \A k \in current'[u] : k \in Handled(u)' /\ \A h \in Handled(u)' : h.n <= k.n
               /\ \A c \in targets'[u] :
                    /\ handler'[c] # "new" /\ current'[u] # {}
                    /\ \A k \in current'[u] :
                          /\ Concerns(k, c)
                          /\ \A i \in 1 .. Len(Told(c)') : Told(c)'[i].topic = u => Told(c)'[i].n < k.n
        BY <1>1, <1>2, <1>4, <1>9, <2>1 DEF CurrentIsLast, TypeOK
  <2>2. \A k \in current'[t] : k = m /\ k \in Handled(t)' /\ \A h \in Handled(t)' : h.n <= k.n
        BY <1>3, <1>4, <1>9
  <2>3. ASSUME NEW c \in targets'[t]
        PROVE  /\ handler'[c] # "new" /\ current'[t] # {}
               /\ \A k \in current'[t] :
                     /\ Concerns(k, c)
                     /\ \A i \in 1 .. Len(Told(c)') : Told(c)'[i].topic = t => Told(c)'[i].n < k.n
        BY <1>1, <1>4, <1>5, <1>7, <1>11, <2>2
  <2> QED BY <2>1, <2>2, <2>3 DEF CurrentIsLast, Concerns, AudienceOf, AudiencesOf
<1>13. ToldInOrder'
      BY <1>1, <1>9 DEF StreamIInv, ToldInOrder, Concerns, AudienceOf, AudiencesOf
<1>14. NothingBetween'
  <2> SUFFICES ASSUME NEW c \in Clients, NEW u \in Topics,
                      NEW i \in 1 .. Len(Told(c)), NEW j \in 1 .. Len(Told(c)), NEW h \in Handled(u)',
                      Told(c)[i].topic = u, Told(c)[j].topic = u, Concerns(h, c),
                      Told(c)[i].n < h.n, h.n < Told(c)[j].n
               PROVE  IsTold(c, h)
      BY <1>1 DEF NothingBetween, Concerns, AudienceOf, AudiencesOf, IsTold
  <2>2. ASSUME u = t PROVE h # m
    <3>1. Told(c)[j].n < m.n /\ Told(c)[j].n \in Nat
          BY <1>11, <2>2
    <3> QED BY <1>3, <3>1
  <2>3. h \in Handled(u)
        BY <1>9, <2>2
  <2> QED BY <2>3 DEF StreamIInv, NothingBetween
<1>15. NothingSince'
  <2> SUFFICES ASSUME NEW c \in Clients, NEW u \in Topics, c \in clients \/ c \in targets'[u],
                      NEW i \in 1 .. Len(Told(c)), NEW h \in Handled(u)',
                      Told(c)[i].topic = u, Concerns(h, c), Told(c)[i].n < h.n
               PROVE  IsTold(c, h) \/ (h \in current'[u] /\ c \in targets'[u])
      BY <1>1 DEF NothingSince, Concerns, AudienceOf, AudiencesOf, IsTold
  <2>1. CASE u # t
        BY <1>4, <1>9, <2>1 DEF StreamIInv, NothingSince
  <2>2. CASE u = t /\ h = m
    <3>1. c \in clients
          BY <1>4, <1>5, <2>2
    <3>2. c \in to
          BY <1>5, <2>2, <3>1
    <3> QED BY <1>4, <2>2, <3>2
  <2>3. CASE u = t /\ h \in Handled(t)
    <3>1. c \in clients
          BY <1>4, <1>5, <2>3
    <3> QED BY <1>2, <2>3, <3>1 DEF StreamIInv, NothingSince
  <2> QED BY <1>9, <2>1, <2>2, <2>3
<1> QED BY <1>10, <1>12, <1>13, <1>14, <1>15 DEF StreamIInv

\* One target is through: it has the message at the end of its buffer, or it is no longer
\* registered.
LEMMA PushKeepsStreams ==
    ASSUME IInv, StreamIInv, NEW t \in Topics, NEW c \in Clients, Push(t, c), SentIsAccounted'
    PROVE  StreamIInv'
<1>1. /\ c \in targets[t] /\ UNCHANGED <<bus, sent, handled, handler, written>>
      /\ \A u \in Topics : targets'[u] = IF u = t THEN targets[t] \ {c} ELSE targets[u]
      /\ \A u \in Topics : current'[u] = IF u = t /\ targets[t] = {c} THEN {} ELSE current[u]
      BY DEF Push, Through, busVars, IInv, TypeOK
<1>2. TypeOK /\ TopicsAreOrdered /\ CurrentIsLast /\ ToldInOrder
      BY DEF IInv, StreamIInv
<1>3. PICK m \in Handled(t) : current[t] = {m}
      BY <1>1, <1>2, OneCurrent DEF CurrentIsLast
<1>4. /\ m \in Messages /\ m.n \in Nat /\ m.topic = t /\ Concerns(m, c)
      /\ \A h \in Handled(t) : h.n \in Nat /\ h.n <= m.n
  <2>1. m.topic = t
        BY <1>2 DEF TopicsAreOrdered, Handled
  <2>2. Handled(t) \subseteq Messages
        BY <1>2, HandledAreMessages
  <2>3. Concerns(m, c)
        BY <1>1, <1>2, <1>3 DEF CurrentIsLast
  <2> QED BY <1>2, <1>3, <2>1, <2>2, <2>3, NumbersAreNat DEF CurrentIsLast
<1>5. \A u \in Topics : Handled(u)' = Handled(u)
      BY <1>1 DEF Handled
<1>6. TopicsAreOrdered'
      BY <1>1, <1>2, <1>5 DEF TopicsAreOrdered
<1>c. \A d \in Clients : \A h : Concerns(h, d)' <=> Concerns(h, d)
      BY DEF Concerns, AudienceOf, AudiencesOf
<1>s. \A u \in Topics : /\ targets'[u] \subseteq targets[u] /\ targets'[u] \subseteq Clients
                        /\ current'[u] \subseteq current[u]
                        /\ targets'[u] # {} => current'[u] = current[u]
      BY <1>1, <1>2 DEF TypeOK
<1>7. CASE Len(buffer[c]) < BufferSize
  <2>1. UNCHANGED <<clients, byAud, closes>>
        BY <1>7 DEF Push, brokerVars
  <2>2. \A d \in Clients : buffer'[d] = IF d = c THEN Append(buffer[c], m) ELSE buffer[d]
        BY <1>2, <1>3, <1>7 DEF Push, TypeOK
  <2>3. \A d \in Clients \ {c} : Told(d)' = Told(d)
        BY <1>1, <2>2 DEF Told
  <2>4. /\ Len(Told(c)) \in Nat /\ Len(Told(c)') = Len(Told(c)) + 1
        /\ \A i \in 1 .. Len(Told(c)) : Told(c)'[i] = Told(c)[i]
        /\ Told(c)'[Len(Told(c)) + 1] = m
    <3>1. written[c] \in Seq(Messages) /\ buffer[c] \in Seq(Messages)
          BY <1>2 DEF TypeOK
    <3>2. Told(c)' = written[c] \o Append(buffer[c], m)
          BY <1>1, <2>2 DEF Told
    <3>3. written[c] \o Append(buffer[c], m) = Append(written[c] \o buffer[c], m)
          BY <1>4, <3>1, ConcatAppend
    <3>4. Told(c)' = Append(Told(c), m) /\ Told(c) \in Seq(Messages)
          BY <1>2, <3>2, <3>3, ToldIsTyped DEF Told
    <3> QED BY <1>4, <3>4
  <2>5. /\ \A i \in 1 .. Len(Told(c)') : i \in 1 .. Len(Told(c)) \/ i = Len(Told(c)) + 1
        /\ 1 .. Len(Told(c)) \subseteq 1 .. Len(Told(c)')
        /\ Len(Told(c)) + 1 \in 1 .. Len(Told(c)')
        BY <2>4
  <2>6. \A i \in 1 .. Len(Told(c)) : /\ Told(c)[i].n \in Nat
                                     /\ Told(c)[i].topic = t => Told(c)[i].n < m.n
        BY <1>1, <1>2, <1>3, ToldIsTyped, NumbersAreNat DEF CurrentIsLast
  <2>7. /\ IsTold(c, m)'
        /\ \A d \in Clients : \A h : IsTold(d, h) => IsTold(d, h)'
    <3>1. \A h : IsTold(c, h) => IsTold(c, h)'
          BY <2>4, <2>5 DEF IsTold
    <3>2. \A d \in Clients \ {c} : \A h : IsTold(d, h) => IsTold(d, h)'
          BY <2>3 DEF IsTold
    <3>3. IsTold(c, m)'
          BY <2>4, <2>5 DEF IsTold
    <3> QED BY <3>1, <3>2, <3>3
  <2>8. CurrentIsLast'
    <3>1. ASSUME NEW u \in Topics, NEW d \in targets'[u], NEW k \in current'[u],
                 NEW i \in 1 .. Len(Told(d)'), Told(d)'[i].topic = u
          PROVE  Told(d)'[i].n < k.n
      <4>1. d \in targets[u] /\ k \in current[u] /\ d \in Clients
            BY <1>1, <1>2, <3>1 DEF TypeOK
      <4>2. CASE d # c
            BY <1>2, <2>3, <3>1, <4>1, <4>2 DEF CurrentIsLast
      <4>3. CASE d = c
        <5>1. u # t
              BY <1>1, <4>3
        <5>2. i \in 1 .. Len(Told(c)) /\ Told(c)'[i] = Told(c)[i]
              BY <1>4, <2>4, <2>5, <3>1, <4>3, <5>1
        <5> QED BY <1>2, <3>1, <4>1, <4>3, <5>2 DEF CurrentIsLast
      <4> QED BY <4>2, <4>3
    <3>2. ASSUME NEW u \in Topics
          PROVE  /\ \A k \in current'[u] : k \in Handled(u)' /\ \A h \in Handled(u)' : h.n <= k.n
                 /\ \A d \in targets'[u] : /\ handler'[d] # "new" /\ current'[u] # {}
                                           /\ \A k \in current'[u] : Concerns(k, d)
          BY <1>1, <1>2, <1>5, <1>s DEF CurrentIsLast
    <3> QED BY <1>c, <3>1, <3>2 DEF CurrentIsLast
  <2>9. ToldInOrder'
    <3>1. handler[c] # "new"
          BY <1>1, <1>2 DEF CurrentIsLast
    <3>2. ASSUME NEW d \in Clients, d # c
          PROVE  /\ handler'[d] = "new" => Told(d)' = <<>>
                 /\ \A i \in 1 .. Len(Told(d)') :
                        /\ Told(d)'[i].topic \in Topics /\ Told(d)'[i] \in Handled(Told(d)[i].topic)'
                        /\ Concerns(Told(d)'[i], d)
                 /\ \A i, j \in 1 .. Len(Told(d)') :
                        i < j /\ Told(d)'[i].topic = Told(d)'[j].topic => Told(d)'[i].n < Told(d)'[j].n
          BY <1>1, <1>2, <1>5, <1>c, <2>3, <3>2 DEF ToldInOrder
    <3>3. ASSUME NEW i \in 1 .. Len(Told(c)')
          PROVE  /\ Told(c)'[i].topic \in Topics /\ Told(c)'[i] \in Handled(Told(c)[i].topic)'
                 /\ Concerns(Told(c)'[i], c)
          BY <1>2, <1>4, <1>5, <1>c, <2>4, <2>5 DEF ToldInOrder
    <3>4. ASSUME NEW i \in 1 .. Len(Told(c)'), NEW j \in 1 .. Len(Told(c)'), i < j,
                 Told(c)'[i].topic = Told(c)'[j].topic
          PROVE  Told(c)'[i].n < Told(c)'[j].n
      <4>1. i \in 1 .. Len(Told(c)) /\ Told(c)'[i] = Told(c)[i]
            BY <2>4, <2>5, <3>4
      <4>2. CASE j \in 1 .. Len(Told(c))
            BY <1>2, <2>4, <3>4, <4>1, <4>2 DEF ToldInOrder
      <4>3. CASE j = Len(Told(c)) + 1
            BY <1>4, <2>4, <2>6, <3>4, <4>1, <4>3
      <4> QED BY <2>5, <4>2, <4>3
    <3> QED BY <1>1, <3>1, <3>2, <3>3, <3>4 DEF ToldInOrder
  <2>10. NothingBetween'
    <3> SUFFICES ASSUME NEW d \in Clients, NEW u \in Topics,
                        NEW i \in 1 .. Len(Told(d)'), NEW j \in 1 .. Len(Told(d)'), NEW h \in Handled(u)',
                        Told(d)'[i].topic = u, Told(d)'[j].topic = u, Concerns(h, d),
                        Told(d)'[i].n < h.n, h.n < Told(d)'[j].n
                 PROVE  IsTold(d, h)'
        BY <1>c DEF NothingBetween
    <3>0. h \in Handled(u)
          BY <1>5
    <3>1. CASE d # c
          BY <2>3, <2>7, <3>0, <3>1 DEF StreamIInv, NothingBetween
    <3>2. CASE d = c
      <4>0. h \in Handled(u) /\ (u = t => h.n \in Nat /\ h.n <= m.n)
            BY <1>4, <3>0
      <4>1. CASE i = Len(Told(c)) + 1
            BY <1>4, <2>4, <3>2, <4>0, <4>1
      <4>2. CASE i \in 1 .. Len(Told(c)) /\ j = Len(Told(c)) + 1
        <5>1. Told(c)[i].topic = t /\ h \in Handled(t) /\ Told(c)[i].n < h.n /\ h.n < m.n
              BY <1>4, <2>4, <3>2, <4>0, <4>2
        <5>2. IsTold(c, h) \/ h \in current[t]
              BY <1>1, <3>2, <4>2, <5>1 DEF StreamIInv, NothingSince
        <5>3. h # m
              BY <1>4, <5>1
        <5> QED BY <1>3, <2>7, <3>2, <5>2, <5>3
      <4>3. CASE i \in 1 .. Len(Told(c)) /\ j \in 1 .. Len(Told(c))
        <5>1. IsTold(c, h)
              BY <2>4, <3>2, <4>0, <4>3 DEF StreamIInv, NothingBetween
        <5> QED BY <2>7, <3>2, <5>1
      <4> QED BY <2>5, <3>2, <4>1, <4>2, <4>3
    <3> QED BY <3>1, <3>2
  <2>11. NothingSince'
    <3> SUFFICES ASSUME NEW d \in Clients, NEW u \in Topics, d \in clients' \/ d \in targets'[u],
                        NEW i \in 1 .. Len(Told(d)'), NEW h \in Handled(u)',
                        Told(d)'[i].topic = u, Concerns(h, d), Told(d)'[i].n < h.n
                 PROVE  IsTold(d, h)' \/ (h \in current'[u] /\ d \in targets'[u])
        BY <1>c DEF NothingSince
    <3>0. h \in Handled(u) /\ (d \in clients \/ d \in targets[u])
          BY <1>1, <1>5, <2>1
    <3>1. d = c /\ i = Len(Told(c)) + 1 => FALSE
          BY <1>4, <2>4, <3>0
    <3>2. i \in 1 .. Len(Told(d)) /\ Told(d)'[i] = Told(d)[i]
          BY <2>3, <2>4, <2>5, <3>1
    <3>3. IsTold(d, h) \/ (h \in current[u] /\ d \in targets[u])
          BY <3>0, <3>2 DEF StreamIInv, NothingSince
    <3>4. CASE IsTold(d, h)
          BY <2>7, <3>4
    <3>5. CASE h \in current[u] /\ d \in targets[u]
      <4>1. CASE u = t /\ d = c
            BY <1>3, <2>7, <3>5, <4>1
      <4>2. CASE u # t \/ d # c
            BY <1>1, <3>5, <4>2
      <4> QED BY <4>1, <4>2
    <3> QED BY <3>3, <3>4, <3>5
  <2> QED BY <1>6, <2>8, <2>9, <2>10, <2>11 DEF StreamIInv
<1>8. CASE ~ Len(buffer[c]) < BufferSize
  <2>1. /\ \A d \in Clients : Told(d)' = Told(d)
        /\ clients' \subseteq clients /\ c \notin clients'
        BY <1>1, <1>8 DEF Push, Drop, brokerVars, Told
  <2>2. \A d \in Clients : \A h : IsTold(d, h)' <=> IsTold(d, h)
        BY <2>1 DEF IsTold
  <2>3. CurrentIsLast'
        BY <1>1, <1>2, <1>5, <1>c, <1>s, <2>1 DEF CurrentIsLast
  <2>4. ToldInOrder'
        BY <1>1, <1>2, <1>5, <1>c, <2>1 DEF ToldInOrder
  <2>5. NothingBetween'
        BY <1>2, <1>5, <1>c, <2>1, <2>2 DEF StreamIInv, ToldInOrder, NothingBetween
  <2>6. NothingSince'
    <3> SUFFICES ASSUME NEW d \in Clients, NEW u \in Topics, d \in clients' \/ d \in targets'[u],
                        NEW i \in 1 .. Len(Told(d)), NEW h \in Handled(u),
                        Told(d)[i].topic = u, Concerns(h, d), Told(d)[i].n < h.n
                 PROVE  IsTold(d, h) \/ (h \in current'[u] /\ d \in targets'[u])
        BY <1>5, <1>c, <2>1, <2>2 DEF NothingSince
    <3>1. d \in clients \/ d \in targets[u]
          BY <1>1, <2>1
    <3>2. IsTold(d, h) \/ (h \in current[u] /\ d \in targets[u])
          BY <3>1 DEF StreamIInv, NothingSince
    <3>3. u = t => d # c
          BY <1>1, <2>1
    <3> QED BY <1>1, <3>2, <3>3
  <2> QED BY <1>6, <2>3, <2>4, <2>5, <2>6 DEF StreamIInv
<1> QED BY <1>7, <1>8

\* What a client is told moves from its buffer to the connection.
LEMMA WriteTellsNothing ==
    ASSUME TypeOK, NEW c \in Clients, Write(c)
    PROVE  \A d \in Clients : Told(d)' = Told(d)
<1>1. written[c] \in Seq(Messages) /\ buffer[c] \in Seq(Messages) /\ buffer[c] # <<>>
      BY DEF Write, TypeOK
<1>2. \A d \in Clients : /\ written'[d] = IF d = c THEN Append(written[c], Head(buffer[c])) ELSE written[d]
                         /\ buffer'[d] = IF d = c THEN Tail(buffer[c]) ELSE buffer[d]
      BY DEF Write, TypeOK
<1>3. Append(written[c], Head(buffer[c])) \o Tail(buffer[c]) = written[c] \o buffer[c]
  <2> DEFINE m == Head(buffer[c])
             b == Tail(buffer[c])
  <2>1. m \in Messages /\ b \in Seq(Messages)
        BY <1>1, HeadAndTail
  <2>2. buffer[c] = <<m>> \o b
        BY <1>1
  <2> HIDE DEF m, b
  <2>3. Append(written[c], m) \o b = written[c] \o (<<m>> \o b)
        BY <1>1, <2>1, ConcatAppend
  <2> QED BY <2>2, <2>3, Zenon DEF m, b
<1> QED BY <1>2, <1>3 DEF Told

LEMMA StepKeepsStreams == ASSUME IInv, StreamIInv, [Next]_vars PROVE StreamIInv'
<1>a. SentIsAccounted'
      BY StepKeepsAccount DEF IInv, StreamIInv
<1>0. TypeOK /\ TopicsAreOrdered
      BY DEF IInv, StreamIInv
<1>1. ASSUME UNCHANGED <<handled, current, targets, written, buffer, handler, clients>>, TopicsAreOrdered'
      PROVE  StreamIInv'
  <2>1. \A c \in Clients : Told(c)' = Told(c)
        BY <1>1 DEF Told
  <2> QED BY <1>0, <1>1, <1>a, <2>1, QuietKeepsStreams DEF StreamIInv
<1>2. ASSUME UNCHANGED <<bus, sent, handled>> PROVE TopicsAreOrdered'
      BY <1>0, <1>2 DEF TopicsAreOrdered, Handled
<1>3. ASSUME NEW m \in Messages, Emit(m) PROVE StreamIInv'
      BY <1>0, <1>1, <1>3, EmitKeepsOrder DEF Emit, topicVars, clientVars, brokerVars
<1>4. ASSUME NEW t \in Topics, Misread(t) \/ Leave(t) PROVE StreamIInv'
      BY <1>0, <1>1, <1>4, MisreadKeepsOrder DEF Misread, Leave, topicVars, clientVars, brokerVars
<1>5. CASE Stop \/ UNCHANGED vars
      BY <1>1, <1>2, <1>5 DEF Stop, vars, busVars, clientVars, brokerVars
<1>6. ASSUME NEW c \in Clients, Connect(c) \/ Write(c) \/ Returns(c) PROVE StreamIInv'
  <2>1. UNCHANGED <<bus, sent, handled, current, targets>>
        BY <1>6 DEF Connect, Write, Returns, busVars, topicVars
  <2>2. \A d \in Clients : Told(d)' = Told(d)
    <3>1. CASE Write(c)
          BY <1>0, <3>1, WriteTellsNothing
    <3>2. CASE UNCHANGED <<written, buffer>>
          BY <3>2 DEF Told
    <3> QED BY <1>6, <3>1, <3>2 DEF Connect, Returns
  <2>3. \A d \in Clients : handler'[d] = "new" => handler[d] = "new"
        BY <1>0, <1>6 DEF Connect, Write, Returns, TypeOK
  <2>4. \A d \in clients' : d \in clients \/ handler[d] = "new"
        BY <1>6 DEF Connect, Write, Returns, Drop, brokerVars
  <2>5. TopicsAreOrdered'
        BY <1>2, <2>1
  <2> QED BY <1>0, <1>a, <2>1, <2>2, <2>3, <2>4, <2>5, QuietKeepsStreams DEF StreamIInv
<1> QED BY <1>3, <1>4, <1>5, <1>6, <1>a, ProjectKeepsStreams, PushKeepsStreams
        DEF Next, TopicStep, Disconnect, Dismissed

\* The inductive invariant of what the clients are told.
THEOREM StreamInvariantHolds == Spec => []StreamIInv
<1>1. IInv /\ StreamIInv /\ [Next]_vars => StreamIInv'
      BY StepKeepsStreams
<1> QED BY <1>1, StreamsInit, InvariantHolds, PTL DEF Spec

\* A client is told each topic in order, and misses after its first event of it only what
\* was lost before Publish and, once it is dropped, the end: for any number of topics and
\* clients that are dropped at any time (Publish, drop).
THEOREM BrokerNeverSkips == Spec => []BrokerSkipsNothing
<1>1. IInv /\ StreamIInv => BrokerSkipsNothing
  <2> SUFFICES ASSUME IInv, StreamIInv, NEW c \in Clients, NEW i \in 1 .. Len(Told(c))
               PROVE  LET first == Told(c)[i]
                      IN  /\ Concerns(first, c)
                          /\ \A j \in 1 .. Len(Told(c)) :
                                 i < j /\ Told(c)[j].topic = first.topic => first.n < Told(c)[j].n
                          /\ \A m \in emitted :
                                 m.topic = first.topic /\ first.n < m.n /\ Concerns(m, c)
                                     => IsTold(c, m) \/ m \in lost \/ IsToCome(c, m)
      BY DEF BrokerSkipsNothing
  <2>1. /\ TypeOK
        /\ Concerns(Told(c)[i], c)
        /\ \A j \in 1 .. Len(Told(c)) :
               i < j /\ Told(c)[j].topic = Told(c)[i].topic => Told(c)[i].n < Told(c)[j].n
        BY DEF IInv, StreamIInv, ToldInOrder
  <2>2. \A p \in 1 .. Len(Told(c)) : Told(c)[p] \in Handled(Told(c)[p].topic) /\ Told(c)[p].n \in Nat
        BY <2>1, ToldIsTyped, NumbersAreNat DEF StreamIInv, ToldInOrder
  <2>3. ASSUME NEW m \in emitted, m.topic = Told(c)[i].topic, Told(c)[i].n < m.n, Concerns(m, c),
               ~ IsTold(c, m), m \notin lost
        PROVE  IsToCome(c, m)
    <3>1. m.topic \in Topics /\ m.n \in Nat
          BY <2>1, MessageIsOfTopic DEF TypeOK
    <3>2. CASE m \in Handled(m.topic)
      <4>1. c \in clients => m \in current[m.topic] /\ c \in targets[m.topic]
            BY <2>3, <3>1, <3>2 DEF StreamIInv, NothingSince
      <4>2. ASSUME NEW p \in 1 .. Len(Told(c)), Told(c)[p].topic = m.topic
            PROVE  Told(c)[p].n < m.n
        <5>1. ~ m.n < Told(c)[p].n
              BY <2>3, <3>1, <3>2, <4>2 DEF StreamIInv, NothingBetween
        <5>2. m.n # Told(c)[p].n
          <6> SUFFICES ASSUME m.n = Told(c)[p].n PROVE FALSE
              OBVIOUS
          <6>1. m = Told(c)[p]
                BY <2>1, <2>2, <3>1, <3>2, <4>2, HandledIsNumbered DEF StreamIInv
          <6> QED BY <2>3, <6>1 DEF IsTold
        <5> QED BY <2>2, <3>1, <5>1, <5>2
      <4> QED BY <4>1, <4>2 DEF IsToCome
    <3>3. CASE m \in OnBus(m.topic)
      <4>1. \A h \in Handled(m.topic) : h.n < m.n
            BY <3>1, <3>3 DEF StreamIInv, TopicsAreOrdered, OnBus
      <4> QED BY <2>2, <3>3, <4>1 DEF IsToCome
    <3> QED BY <2>3, <3>2, <3>3 DEF StreamIInv, SentIsAccounted
  <2> QED BY <2>1, <2>3
<1> QED BY <1>1, InvariantHolds, StreamInvariantHolds, PTL
=============================================================================
