---------------------------- MODULE MqttSession ----------------------------
(***************************************************************************)
(* The firmware's MQTT conversation: MqttClientForIR on AsyncMqttClient on *)
(* one side, a broker with the home automation behind it on the other, two *)
(* streams that can break at any time between them.  The session is always *)
(* a clean one.  Module MqttSupervisor says when connections are made.     *)
(***************************************************************************)
EXTENDS MqttClientForIR, AsyncMqttClient, FiniteSets

CONSTANTS
  Commands,       \* [levels, payload] the home automation can send
  Qos,            \* qualities of service it uses
  Times,          \* times of day at which a commit can happen
  Reported,       \* status topics modelled, out of Topics
  Room,           \* units the TCP send buffer holds
  MaxCommands,    \* bound: commands issued
  MaxConnects,    \* bound: connections made
  MaxRetries,     \* bound: PUBLISH and PUBREL that the broker repeats
  MaxRefusals     \* bound: handlers in which publish() lacks memory

ASSUME SessionAssumption ==
  /\ Qos \subseteq 0..2 /\ Times \subseteq TimeOfDay
  /\ Reported \subseteq Topics \cup {"commited"}
  /\ Room \in Nat \ {0} /\ MaxCommands \in Nat

VARIABLES
  data,        \* *m_whirpoolData
  state,       \* _state
  queue,       \* _head ... _tail
  sent,        \* _sent
  pubrels,     \* _pendingPubRels
  packetId,    \* OutPacket::_nextPacketId
  connects,    \* connections made so far
  c2b, b2c,    \* the streams: units to the broker, packets to the client
  retained,    \* broker: function from topic to payload or to NoBody
  subscribed,  \* broker: cmd/# is subscribed
  inflight,    \* broker: QoS 1 and 2 messages not completed, [id, n, phase]
  lastId,      \* broker: the last packet identifier used in this session
  issued,      \* history: QoS of the commands issued, numbered in order
  retries,     \* number of repetitions made
  applied,     \* history: numbers of the commands handled, in order
  acked,       \* history: numbers of those whose flow the broker completed
  refused,     \* history: topics whose last publication found no memory
  refusals     \* number of handlers in which that happened

client == <<data, state, queue, sent, pubrels, packetId, connects, refused,
            refusals>>
broker == <<retained, subscribed, inflight, lastId, issued, retries, acked>>
vars   == <<client, broker, c2b, b2c, applied>>

Init ==
  /\ data = PowerOnData
  /\ state = "DISCONNECTED"
  /\ queue = <<>> /\ sent = 0
  /\ pubrels = {}
  /\ packetId = 0
  /\ connects = 0
  /\ c2b = <<>> /\ b2c = <<>>
  /\ retained = [t \in Reported |-> NoBody]
  /\ subscribed = FALSE
  /\ inflight = {}
  /\ lastId = 0
  /\ retries = 0
  /\ issued = <<>> /\ applied = <<>> /\ acked = {} /\ refused = {} /\ refusals = 0

---------------------------------------------------------------------------
(* The client.                                                             *)

\* Let the queue q, its head partly sent, go on the wire.
Send(q, alreadySent) ==
  LET h == handleQueue(q, alreadySent, Room - Len(c2b))
  IN  /\ queue' = h.queue
      /\ sent' = h.sent
      /\ c2b' = c2b \o h.wire

\* publish() for each of them: the last ones are refused when the heap is low.
Published(pubs) ==
  LET some == Select(pubs, {i \in DOMAIN pubs : pubs[i].topic \in Reported})
      topics(m, n) == {some[i].topic : i \in m..n}
      first(k) == [packets |-> [i \in 1..k |-> PublishPacket(some[i])],
                   refused |-> (refused \ topics(1, k)) \cup topics(k + 1, Len(some)),
                   refusals |-> IF k = Len(some) THEN refusals ELSE refusals + 1]
  IN  { first(k) : k \in IF refusals < MaxRefusals
                         THEN 0..Len(some) ELSE {Len(some)} }

\* connect(), the TCP handshake and _onConnect.
TcpConnects ==
  /\ state = "DISCONNECTED" /\ connects < MaxConnects
  /\ connects' = connects + 1
  /\ state' = "CONNECTING"
  /\ Send(addFront(queue, Packet("CONNECT", 0)), sent)
  /\ UNCHANGED <<data, pubrels, packetId, refused, refusals,
                 b2c, broker, applied>>

\* The connection ends: _onDisconnect on one side, the end of the clean
\* session on the other; what is in the streams is lost.
TcpDrops ==
  /\ state # "DISCONNECTED"
  /\ state' = "DISCONNECTED"
  /\ queue' = keepSession(queue, sent) /\ sent' = 0
  /\ c2b' = <<>> /\ b2c' = <<>>
  /\ subscribed' = FALSE /\ inflight' = {} /\ lastId' = 0
  /\ UNCHANGED <<data, pubrels, packetId, connects, refused, refusals, retained, issued,
                 retries, acked, applied>>

\* The program restarts: hang(), an exception, the watchdog.
Restarts ==
  /\ connects > 0
  /\ data' = PowerOnData /\ state' = "DISCONNECTED"
  /\ queue' = <<>> /\ sent' = 0 /\ pubrels' = {} /\ packetId' = 0
  /\ refused' = {}
  /\ c2b' = <<>> /\ b2c' = <<>>
  /\ subscribed' = FALSE /\ inflight' = {} /\ lastId' = 0
  /\ UNCHANGED <<connects, refusals, retained, issued, retries, acked, applied>>

\* Mutation: the settings are published only on the first connection.
initValuesOnce == IF connects = 1 THEN sendInitValues(data) ELSE <<>>

initValues == sendInitValues(data)

\* Mutation: the packet identifiers of the last session are remembered.
pubrelsKept == pubrels

\* A new session: _pendingPubRels.clear().
pubrelsCleared == {}

\* _onConnAck without a session, then MqttClientForIR::onConnect.
onConnAck ==
  /\ state' = "CONNECTED"
  /\ pubrels' = pubrelsCleared
  /\ packetId' = packetId + 1
  /\ \E o \in Published(initValues) :
       /\ Send(<<Packet("SUBSCRIBE", packetId')>> \o o.packets, 0)
       /\ refused' = o.refused /\ refusals' = o.refusals
  /\ UNCHANGED <<data, connects, applied>>

onSubAck(p) ==
  /\ Send(released(queue, p.id), sent)
  /\ UNCHANGED <<data, state, pubrels, packetId, connects, refused, refusals,
                 applied>>

\* _onMessage: a QoS 2 message that is already awaiting its PUBREL is not
\* handed on again.
notifyPublish(p) == ~(p.qos = 2 /\ p.id \in pubrels)

\* _onMessage and MqttClientForIR::onMessage, then _onPublish.  A handler that
\* throws ends the program (Restarts).
onPublish(p) ==
  \E t \in Times :
    LET e == IF notifyPublish(p)
             THEN parseMessage(p.cmd.levels, p.cmd.payload, data, t)
             ELSE Nothing(data)
    IN  /\ ~e.abort
        /\ data' = e.data
        /\ applied' = IF notifyPublish(p) THEN Append(applied, p.n) ELSE applied
        /\ \E o \in Published(e.pubs) :
             /\ Send(acknowledge(queue \o o.packets, p.qos, p.id), sent)
             /\ refused' = o.refused /\ refusals' = o.refusals
        /\ pubrels' = IF p.qos = 2 THEN pubrels \cup {p.id} ELSE pubrels
        /\ UNCHANGED <<state, packetId, connects>>

onPubRel(p) ==
  /\ Send(pubRel(queue, p.id), sent)
  /\ pubrels' = pubrels \ {p.id}
  /\ UNCHANGED <<data, state, packetId, connects, refused, refusals,
                 applied>>

\* _onData for one whole packet.
ClientReceives ==
  /\ b2c # <<>> /\ b2c' = Tail(b2c)
  /\ LET p == Head(b2c)
     IN  \/ p.type = "CONNACK" /\ onConnAck
         \/ p.type = "SUBACK" /\ onSubAck(p)
         \/ p.type = "PUBLISH" /\ onPublish(p)
         \/ p.type = "PUBREL" /\ onPubRel(p)
  /\ UNCHANGED broker

\* _onAck and _onPoll: there may be room again.
ClientSends ==
  /\ state # "DISCONNECTED"
  /\ queue # <<>> /\ Len(c2b) < Room
  /\ Send(queue, sent) /\ c2b' # c2b
  /\ UNCHANGED <<data, state, pubrels, packetId, connects, refused, refusals,
                 b2c, broker,
                 applied>>

---------------------------------------------------------------------------
(* The broker, external to the repository: MQTT 3.1.1 with clean sessions. *)

\* A whole packet at the front of the stream.
Complete ==
  /\ c2b # <<>>
  /\ Len(c2b) >= Head(c2b).of
  /\ \A i \in 1..Head(c2b).of :
       c2b[i] = [Head(c2b) EXCEPT !.unit = i]

Answer(p) == b2c' = Append(b2c, p)

\* The flow with this identifier, if it is in this phase: an answer out of
\* phase is ignored.
Flow(id, phase) == {f \in inflight : f.id = id /\ f.phase = phase}

FinishFlow(id, phase) ==
  /\ inflight' = inflight \ Flow(id, phase)
  /\ acked' = acked \cup {f.n : f \in Flow(id, phase)}

BrokerTakes(p) ==
  \/ /\ p.type = "CONNECT"
     /\ Answer([type |-> "CONNACK"])
     /\ UNCHANGED broker
  \/ /\ p.type = "SUBSCRIBE"
     /\ subscribed' = TRUE
     /\ Answer([type |-> "SUBACK", id |-> p.id])
     /\ UNCHANGED <<retained, inflight, lastId, issued, retries, acked>>
  \/ /\ p.type = "PUBLISH"
     /\ retained' = IF p.body.retain
                    THEN [retained EXCEPT ![p.body.topic] = p.body.payload]
                    ELSE retained
     /\ UNCHANGED <<b2c, subscribed, inflight, lastId, issued, retries, acked>>
  \/ /\ p.type \in {"PUBACK", "PUBCOMP"}
     /\ FinishFlow(p.id, IF p.type = "PUBACK" THEN "puback" ELSE "pubcomp")
     /\ UNCHANGED <<b2c, retained, subscribed, lastId, issued, retries>>
  \/ /\ p.type = "PUBREC"    \* answered even when the flow is not known
     /\ Answer([type |-> "PUBREL", id |-> p.id])
     /\ inflight' =
          (inflight \ Flow(p.id, "pubrec")) \cup
          {[f EXCEPT !.phase = "pubcomp"] : f \in Flow(p.id, "pubrec")}
     /\ UNCHANGED <<retained, subscribed, lastId, issued, retries, acked>>

BrokerReceives ==
  /\ Complete
  /\ c2b' = SubSeq(c2b, Head(c2b).of + 1, Len(c2b))
  /\ BrokerTakes(Head(c2b))
  /\ UNCHANGED <<client, applied>>

Message(c, q, n, id) ==
  [type |-> "PUBLISH", id |-> id, qos |-> q, n |-> n, cmd |-> c]

\* The home automation publishes a command.
Command(c, q) ==
  /\ subscribed /\ Len(issued) < MaxCommands
  /\ issued' = Append(issued, q)
  /\ lastId' = IF q = 0 THEN lastId ELSE lastId + 1
  /\ LET id == IF q = 0 THEN 0 ELSE lastId'
         n == Len(issued')
     IN  /\ Answer(Message(c, q, n, id))
         /\ inflight' =
              IF q = 0 THEN inflight
              ELSE inflight \cup
                   {[id |-> id, n |-> n, cmd |-> c, qos |-> q,
                     phase |-> IF q = 1 THEN "puback" ELSE "pubrec"]}
  /\ UNCHANGED <<client, c2b, retained, subscribed, retries, acked, applied>>

\* An answer did not come in time: MQTT 3.1 brokers repeat the message.
BrokerRetries ==
  /\ retries < MaxRetries /\ retries' = retries + 1
  /\ \E f \in inflight :
       Answer(IF f.phase = "pubcomp" THEN [type |-> "PUBREL", id |-> f.id]
              ELSE Message(f.cmd, f.qos, f.n, f.id))
  /\ UNCHANGED <<client, c2b, retained, subscribed, inflight, lastId, issued,
                 acked, applied>>

Next ==
  \/ TcpConnects \/ TcpDrops \/ Restarts
  \/ ClientReceives \/ ClientSends
  \/ BrokerReceives \/ BrokerRetries
  \/ \E c \in Commands, q \in Qos : Command(c, q)

Spec == Init /\ [][Next]_vars

\* Both ends read what has arrived and the client is polled.
Fairness ==
  WF_vars(ClientReceives) /\ WF_vars(ClientSends) /\ WF_vars(BrokerReceives)

FairSpec == Spec /\ Fairness

---------------------------------------------------------------------------
TypeOK ==
  /\ data \in WhirlpoolYJ1BData
  /\ state \in {"DISCONNECTED", "CONNECTING", "CONNECTED"}
  /\ sent \in Nat /\ (queue = <<>> => sent = 0)
  /\ Len(c2b) <= Room
  /\ pubrels \subseteq 1..MaxCommands

\* Where a queue or a stream holds publications of topic t.
About(s, t) == {i \in 1..Len(s) : s[i].type = "PUBLISH" /\ s[i].body.topic = t}
LastAbout(s, t) == CHOOSE i \in About(s, t) : \A j \in About(s, t) : j <= i

\* The last publication of topic t that is on its way, or what is retained.
Latest(t) ==
  LET payload(s) == s[LastAbout(s, t)].body.payload
  IN  IF About(queue, t) # {} THEN payload(queue)
      ELSE IF About(c2b, t) # {} THEN payload(c2b)
      ELSE retained[t]

\* While the client is connected, each retained topic shows the object's
\* value as soon as what is queued has arrived: across reconnects, kept
\* packets of earlier connections and a full buffer, no change is forgotten
\* and no older publication overtakes a newer one.  (The fan topic: see
\* MqttCommands!TopicsTellData.)
Mirror ==
  state = "CONNECTED" =>
    \A t \in Reported \ ({"fan", "commited"} \cup refused) :
      Latest(t) = Text(t, data)

HeadWaits == queue # <<>> /\ sent = Size(Head(queue)) /\ ~Head(queue).released

InStream(stream, type, id) ==
  \E i \in 1..Len(stream) : stream[i].type = type /\ stream[i].id = id

\* The queue never waits for an answer that cannot come: the packet at the
\* head is still travelling or its confirmation is.
ConfirmationComes ==
  state = "CONNECTED" /\ HeadWaits =>
    LET h == Head(queue)
        answer == IF h.type = "SUBSCRIBE" THEN "SUBACK" ELSE "PUBREL"
    IN  InStream(c2b, h.type, h.id) \/
        \E i \in 1..Len(b2c) : b2c[i].type = answer /\ b2c[i].id = h.id

Delivery == INSTANCE CommandDelivery

\* Commands are handled in the order in which they were issued, one of QoS 2 at
\* most once however often the broker repeats its packets, and none is
\* completed that was not handled: identifiers left over from an earlier
\* session hide no new message (_pendingPubRels, AsyncMqttClient.cpp:506-510
\* and 553-607).
CommandsDelivered == Delivery!Spec

\* Every packet is written to the end before the next one begins (MQTT 3.1.1,
\* with which docs/4.-Limitations-and-known-issues.md:3 says to comply).
StreamWellFormed ==
  \A i \in 1..Len(c2b) - 1 :
    IF c2b[i].unit < c2b[i].of
    THEN c2b[i + 1] = [c2b[i] EXCEPT !.unit = @ + 1]
    ELSE c2b[i + 1].unit = 1

\* While a connection lasts, what is queued is sent.
QueueDrains ==
  (<>[](state = "CONNECTED")) => <>[](queue = <<>> /\ c2b = <<>>)
=============================================================================
