----------------------------- MODULE MqttParser -----------------------------
(***************************************************************************)
(* How AsyncMqttClient reads the broker's bytes: _onData and the classes   *)
(* of AsyncMqttClient/Packets.  TCP delivers the stream in segments cut    *)
(* anywhere; between them the parser keeps its place in                    *)
(* _parsingInformation, _currentParsedPacket and _remainingLengthBuffer.   *)
(*                                                                         *)
(* One call of _onData is one run of its loop: while segment is not empty  *)
(* only Turn, an iteration of that loop, can take place.                   *)
(***************************************************************************)
EXTENDS Naturals, Sequences, SequencesExt

CONSTANTS
  Base,           \* of the digits of the remaining length: 128
  LengthRange,    \* of uint32_t: 2^32
  MaxTopicLength, \* _parsingInformation.maxTopicLength: 128
  Replies,        \* packets a broker may send after its CONNACK
  ReturnCodes,    \* of CONNACK
  MaxPackets,     \* bound: packets and violations in the first connection,
                  \* one fewer in each later one
  MaxConnects,    \* bound: connections
  Violations      \* whether the peer may fail to speak MQTT

ASSUME MqttParserAssumption ==
  /\ Base \in Nat /\ Base > 2
  /\ LengthRange \in Nat /\ Base * Base * Base * Base <= LengthRange
  /\ MaxTopicLength \in Nat /\ ReturnCodes \subseteq Nat
  /\ MaxPackets \in Nat /\ MaxConnects \in Nat /\ Violations \in BOOLEAN

VARIABLES
  tcp,             \* there is a connection
  state,           \* _state
  stream,          \* bytes on their way to the client
  segment,         \* what the running _onData has still to read
  bufferState,     \* _parsingInformation.bufferState
  packet,          \* *_currentParsedPacket, or None
  lengthBuffer,    \* _remainingLengthBuffer up to its position
  remainingLength, \* _parsingInformation.remainingLength
  topicBuffer,     \* _parsingInformation.topicBuffer
  connects,        \* connections made
  sent,            \* history: packets the peer sent on this connection
  violated,        \* history: the peer has sent a byte that begins no packet
  calls            \* history: what the callbacks were told on this connection,
                   \* the parts of a message joined

place == <<bufferState, packet, lengthBuffer, remainingLength, topicBuffer>>
peer  == <<stream, sent, violated>>
vars  == <<tcp, state, peer, segment, place, connects, calls>>

None == [type |-> "none"]

---------------------------------------------------------------------------
(* The peer, external to the repository: MQTT 3.1.1.  A byte has a reading *)
(* as a number and one as the first byte of a packet; the bytes a peer     *)
(* means as numbers begin no packet.                                       *)

Number(n)      == [value |-> n, type |-> "reserved", qos |-> 0]
First(type, q) == [value |-> 0, type |-> type, qos |-> q]

Word(hi, lo) == 2 * Base * hi + lo
WordBytes(n) == <<n \div (2 * Base), n % (2 * Base)>>

\* Helpers::encodeRemainingLength, which the client uses for its own packets;
\* rest[i] is what remains after i digits.
encodeRemainingLength(length) ==
  LET rest[i \in 0..4] == IF i = 0 THEN length ELSE rest[i - 1] \div Base
      bytesNeeded == CHOOSE n \in 1..4 : rest[n] = 0 /\ \A i \in 1..n - 1 : rest[i] > 0
  IN  [i \in 1..bytesNeeded |->
         (rest[i - 1] % Base) + (IF i < bytesNeeded THEN Base ELSE 0)]

Body(p) ==
  CASE p.type = "CONNACK"  -> <<0, p.code>>
    [] p.type = "PINGRESP" -> <<>>
    [] p.type = "PUBLISH"  -> WordBytes(Len(p.topic)) \o p.topic
         \o (IF p.qos = 0 THEN <<>> ELSE WordBytes(p.id)) \o p.payload
    [] p.type = "SUBACK"   -> WordBytes(p.id) \o <<0>>
    [] OTHER               -> WordBytes(p.id)

Bytes(p) ==
  LET numbers == encodeRemainingLength(Len(Body(p))) \o Body(p)
      q       == IF p.type = "PUBLISH" THEN p.qos ELSE 0
  IN  <<First(p.type, q)>> \o [i \in DOMAIN numbers |-> Number(numbers[i])]

\* A broker's packets after its CONNACK: a length of at most four bytes, words
\* of two, and no empty topic (MQTT 3.1.1, 2.2.3 and 4.7.3).
ASSUME RepliesAssumption ==
  LET Words == 0..4 * Base * Base - 1
  IN  \A p \in Replies :
        /\ Len(Body(p)) < Base * Base * Base * Base
        /\ \/ p.type = "PINGRESP"
           \/ p.type \in {"SUBACK", "UNSUBACK", "PUBREL", "PUBACK", "PUBREC", "PUBCOMP"}
              /\ p.id \in Words
           \/ /\ p.type = "PUBLISH" /\ p.qos \in 0..2 /\ p.id \in Words
              /\ p.topic \in Seq(Nat) /\ Len(p.topic) \in Words \ {0}
              /\ p.payload \in Seq(Nat)

---------------------------------------------------------------------------
Init ==
  /\ tcp = FALSE /\ state = "DISCONNECTED"
  /\ stream = <<>> /\ sent = <<>> /\ segment = <<>> /\ violated = FALSE
  /\ bufferState = "NONE" /\ packet = None
  /\ lengthBuffer = <<>> /\ remainingLength = 0
  /\ topicBuffer = [i \in 1..MaxTopicLength |-> 0]
  /\ connects = 0 /\ calls = <<>>

\* Mutation: the parser keeps its place.
clearNothing == UNCHANGED <<bufferState, packet>>

\* Mutation: the packet is freed but the parser keeps its place.
clearPacket == packet' = None /\ UNCHANGED bufferState

\* _clear: the position in _remainingLengthBuffer stays.
clear == bufferState' = "NONE" /\ packet' = None

\* connect() and _onConnect.
TcpConnects ==
  /\ ~tcp /\ state = "DISCONNECTED" /\ segment = <<>> /\ connects < MaxConnects
  /\ tcp' = TRUE /\ state' = "CONNECTING" /\ connects' = connects + 1
  /\ sent' = <<>> /\ calls' = <<>>
  /\ UNCHANGED <<stream, violated, segment, place>>

\* _onDisconnect between two segments.
TcpDrops ==
  /\ tcp /\ segment = <<>>
  /\ tcp' = FALSE /\ state' = "DISCONNECTED"
  /\ stream' = <<>> /\ sent' = <<>> /\ calls' = <<>>
  /\ clear
  /\ UNCHANGED <<violated, segment, lengthBuffer, remainingLength, topicBuffer,
                 connects>>

\* The broker's first packet is its CONNACK; after an error it is the last.
Greetings == {i \in 1..Len(sent) : sent[i].type = "CONNACK"}

PeerSends ==
  /\ tcp /\ segment = <<>> /\ Len(sent) + connects <= MaxPackets
  /\ \E p \in IF Greetings = {}
              THEN [type : {"CONNACK"}, code : ReturnCodes]
              ELSE IF \A i \in Greetings : sent[i].code = 0 THEN Replies ELSE {} :
       sent' = Append(sent, p) /\ stream' = stream \o Bytes(p)
  /\ UNCHANGED <<violated, tcp, state, segment, place, connects, calls>>

\* What answers at the configured address is no MQTT broker; bound: one byte
\* until the program restarts.
PeerViolates ==
  /\ Violations /\ ~violated /\ tcp /\ segment = <<>> /\ Len(sent) + connects <= MaxPackets
  /\ violated' = TRUE
  /\ sent' = Append(sent, Number(0)) /\ stream' = Append(stream, Number(0))
  /\ UNCHANGED <<tcp, state, segment, place, connects, calls>>

\* TCP hands on a segment and _onData is called.
Receive ==
  /\ segment = <<>>
  /\ \E n \in 1..Len(stream) :
       /\ segment' = SubSeq(stream, 1, n)
       /\ stream' = SubSeq(stream, n + 1, Len(stream))
  /\ UNCHANGED <<violated, tcp, state, sent, place, connects, calls>>

---------------------------------------------------------------------------
(* One iteration of the loop of _onData.                                   *)

Current == Head(segment)
Read(n) == segment' = SubSeq(segment, n + 1, Len(segment))

\* What has been told and call c: a part of a message joins the parts before it,
\* and one that does not go on where the last one ended is no part of a message.
Joining(told, c) ==
  LET m     == Last(told)
      whole == [type |-> "MESSAGE", topic |-> c.topic, payload |-> c.part,
                total |-> c.total, qos |-> c.qos, id |-> c.id]
  IN  IF c.type # "MESSAGE" THEN Append(told, c)
      ELSE IF c.index = 0 THEN Append(told, whole)
      ELSE IF told # <<>> /\ m.type = "MESSAGE" /\ m = [whole EXCEPT !.payload = m.payload]
              /\ c.index = Len(m.payload)
      THEN Front(told) \o <<[m EXCEPT !.payload = @ \o c.part]>>
      ELSE Append(told, None)

Call(c) == calls' = Joining(calls, c)

KnownTypes == {"CONNACK", "PINGRESP", "SUBACK", "UNSUBACK", "PUBLISH",
               "PUBREL", "PUBACK", "PUBREC", "PUBCOMP"}

\* The packet classes begin with their positions and lengths at zero.
NewPacket(first) ==
  [type |-> first.type, qos |-> first.qos, position |-> 0, msb |-> 0, id |-> 0,
   topicLength |-> 0, ignore |-> FALSE, payloadLength |-> 0, payloadRead |-> 0]

FirstByte ==
  /\ bufferState = "NONE" /\ Current.type \in KnownTypes
  /\ Read(1)
  /\ packet' = NewPacket(Current) /\ bufferState' = "REMAINING_LENGTH"
  /\ UNCHANGED <<tcp, state, stream, calls, lengthBuffer, remainingLength,
                 topicBuffer>>

\* disconnect( true ), which returns at once when the client is disconnected;
\* the rest of the segment is read all the same.
ProtocolViolation ==
  /\ bufferState = "NONE" /\ Current.type \notin KnownTypes
  /\ Read(1)
  /\ IF state = "DISCONNECTED"
     THEN bufferState' = "REMAINING_LENGTH" /\ UNCHANGED <<tcp, state, stream, packet>>
     ELSE tcp' = FALSE /\ state' = "DISCONNECTED" /\ stream' = <<>> /\ clear
  /\ UNCHANGED <<calls, lengthBuffer, remainingLength, topicBuffer>>

decodeRemainingLength(bytes) ==
  LET multiplier[i \in 0..Len(bytes)] == IF i = 0 THEN 1 ELSE multiplier[i - 1] * Base
      value[i \in 0..Len(bytes)] ==
        IF i = 0 THEN 0
        ELSE value[i - 1] + (bytes[i] % Base) * multiplier[i - 1]
  IN  value[Len(bytes)]

\* Mutation: the position in _remainingLengthBuffer is not reset.
lengthKept(bytes) == bytes

\* _remainingLengthBufferPosition = 0
lengthReset(bytes) == <<>>

\* Whatever has no remaining length is taken for a PINGRESP and ends here.
RemainingLength ==
  /\ bufferState = "REMAINING_LENGTH" /\ Read(1)
  /\ LET bytes  == Append(lengthBuffer, Current.value)
         length == decodeRemainingLength(bytes)
     IN  IF Current.value >= Base
         THEN /\ lengthBuffer' = bytes
              /\ UNCHANGED <<remainingLength, bufferState, packet, calls>>
         ELSE /\ lengthBuffer' = lengthReset(bytes)
              /\ remainingLength' = length
              /\ IF length > 0
                 THEN /\ bufferState' = "VARIABLE_HEADER"
                      /\ UNCHANGED <<packet, calls>>
                 ELSE /\ bufferState' = "NONE" /\ packet' = None
                      /\ Call([type |-> "PINGRESP"])
  /\ UNCHANGED <<tcp, state, stream, topicBuffer>>

---------------------------------------------------------------------------
(* The packet classes: their parseVariableHeader and parsePayload.         *)

Reading(type) == bufferState = "VARIABLE_HEADER" /\ packet.type = type

\* The last two bytes read, as a number.
LastWord == Word(packet.msb, Current.value)

NextField == packet' = [packet EXCEPT !.position = @ + 1, !.msb = Current.value]

\* ConnAckPacket, and _onConnAck.
ConnAck ==
  /\ Reading("CONNACK") /\ Read(1)
  /\ IF packet.position = 0
     THEN NextField /\ UNCHANGED <<state, bufferState, calls>>
     ELSE /\ Call([type |-> "CONNACK", code |-> Current.value])
          /\ bufferState' = "NONE" /\ packet' = None
          /\ state' = IF Current.value = 0 THEN "CONNECTED" ELSE state
  /\ UNCHANGED <<tcp, stream, lengthBuffer, remainingLength, topicBuffer>>

\* The classes whose packets hold an identifier and no more.
IdentifierTypes == {"UNSUBACK", "PUBREL", "PUBACK", "PUBREC", "PUBCOMP"}

IdentifierOnly ==
  /\ \E t \in IdentifierTypes : Reading(t)
  /\ Read(1)
  /\ IF packet.position = 0
     THEN NextField /\ UNCHANGED <<bufferState, calls>>
     ELSE /\ Call([type |-> packet.type, id |-> LastWord])
          /\ bufferState' = "NONE" /\ packet' = None
  /\ UNCHANGED <<tcp, state, stream, lengthBuffer, remainingLength, topicBuffer>>

\* SubAckPacket: the status is its payload.
SubAck ==
  /\ Reading("SUBACK") /\ Read(1)
  /\ IF packet.position = 0
     THEN NextField /\ UNCHANGED bufferState
     ELSE /\ packet' = [packet EXCEPT !.id = LastWord]
          /\ bufferState' = "PAYLOAD"
  /\ UNCHANGED <<calls, tcp, state, stream, lengthBuffer, remainingLength,
                 topicBuffer>>

SubAckStatus ==
  /\ bufferState = "PAYLOAD" /\ packet.type = "SUBACK" /\ Read(1)
  /\ Call([type |-> "SUBACK", id |-> packet.id])
  /\ bufferState' = "NONE" /\ packet' = None
  /\ UNCHANGED <<tcp, state, stream, lengthBuffer, remainingLength, topicBuffer>>

\* PublishPacket: the message is in the topic buffer and in data.
Message(p, part, index, total) ==
  [type |-> "MESSAGE", topic |-> SubSeq(topicBuffer', 1, p.topicLength),
   part |-> part, index |-> index, total |-> total, qos |-> p.qos, id |-> p.id]

Complete(p) == [type |-> "PUBLISH", qos |-> p.qos, id |-> p.id]

\* Mutation: a message that needs no acknowledgement is left as it is.
AfterQos0Kept(p) == IF p.ignore \/ p.qos = 0 THEN p ELSE None

\* What is left of a packet that has been read: _onPublish frees it.
After(p) == IF p.ignore THEN p ELSE None

\* Mutation: the length of the payload has a sign.
payloadLengthSigned(p) == remainingLength - (p.position + 1)

\* The argument of _preparePayloadHandling.
payloadLength(p) == (remainingLength + LengthRange - (p.position + 1)) % LengthRange

\* _preparePayloadHandling; p is the packet as it is after its last field.
\* Without a payload the message ends here.
preparePayload(p) ==
  IF payloadLength(p) # 0
  THEN /\ packet' = [p EXCEPT !.payloadLength = payloadLength(p)]
       /\ bufferState' = "PAYLOAD" /\ UNCHANGED calls
  ELSE /\ bufferState' = "NONE"
       /\ packet' = After(p)
       /\ calls' = IF p.ignore THEN calls
                   ELSE Append(Joining(calls, Message(p, <<>>, 0, 0)), Complete(p))

\* The topic's length; a longer one than the buffer is ignored.
TopicLength ==
  /\ packet.position < 2
  /\ IF packet.position = 0
     THEN NextField
     ELSE packet' = [packet EXCEPT !.position = 2, !.topicLength = LastWord,
                                   !.ignore = LastWord > MaxTopicLength]
  /\ UNCHANGED <<topicBuffer, bufferState, calls>>

Topic ==
  /\ packet.position \in 2..packet.topicLength + 1
  /\ topicBuffer' = IF packet.ignore THEN topicBuffer
                    ELSE [topicBuffer EXCEPT ![packet.position - 1] = Current.value]
  /\ IF packet.position = packet.topicLength + 1 /\ packet.qos = 0
     THEN preparePayload(packet)
     ELSE /\ packet' = [packet EXCEPT !.position = @ + 1]
          /\ UNCHANGED <<bufferState, calls>>

\* The packet identifier of QoS 1 and 2.
PacketId ==
  /\ packet.position >= packet.topicLength + 2
  /\ UNCHANGED topicBuffer
  /\ IF packet.position = packet.topicLength + 2
     THEN NextField /\ UNCHANGED <<bufferState, calls>>
     ELSE preparePayload([packet EXCEPT !.id = LastWord])

Publish ==
  /\ Reading("PUBLISH") /\ Read(1)
  /\ TopicLength \/ Topic \/ PacketId
  /\ UNCHANGED <<tcp, state, stream, lengthBuffer, remainingLength>>

\* Mutation: a segment that holds the end of the payload holds nothing else.
partSizeOfSegment(p, available) == available

\* remainToRead
partSize(p, available) ==
  IF p.payloadRead + available > p.payloadLength
  THEN p.payloadLength - p.payloadRead ELSE available

\* PublishPacket::parsePayload: what there is of the payload is one message.
Payload ==
  /\ bufferState = "PAYLOAD" /\ packet.type = "PUBLISH"
  /\ packet.payloadRead <= packet.payloadLength
  /\ UNCHANGED <<tcp, state, stream, lengthBuffer, remainingLength, topicBuffer>>
  /\ LET n    == partSize(packet, Len(segment))
         part == [i \in 1..n |-> segment[i].value]
         read == packet.payloadRead + n
         ends == read = packet.payloadLength
         told == Joining(calls, Message(packet, part, packet.payloadRead, packet.payloadLength))
     IN  /\ Read(n)
         /\ calls' = IF packet.ignore THEN calls
                     ELSE IF ends THEN Append(told, Complete(packet)) ELSE told
         /\ bufferState' = IF ends THEN "NONE" ELSE bufferState
         /\ packet' = LET p == [packet EXCEPT !.payloadRead = read]
                      IN  IF ends THEN After(p) ELSE p

\* No packet to call, one that does not read on, or one that has read more than
\* its payload and would go on outside the segment, which is undefined: the
\* program is restarted by an exception or by the watchdog.
Derailed ==
  /\ segment # <<>>
  /\ \/ bufferState \in {"VARIABLE_HEADER", "PAYLOAD"} /\ packet = None
     \/ Reading("PINGRESP")
     \/ /\ bufferState = "PAYLOAD" /\ packet.type = "PUBLISH"
        /\ packet.payloadRead > packet.payloadLength

Crash ==
  /\ Derailed
  /\ tcp' = FALSE /\ state' = "DISCONNECTED"
  /\ stream' = <<>> /\ sent' = <<>> /\ segment' = <<>> /\ violated' = FALSE
  /\ clear /\ lengthBuffer' = <<>> /\ remainingLength' = 0
  /\ topicBuffer' = [i \in 1..MaxTopicLength |-> 0]
  /\ calls' = <<>>
  /\ UNCHANGED connects

Turn ==
  /\ segment # <<>>
  /\ \/ FirstByte \/ ProtocolViolation \/ RemainingLength
     \/ ConnAck \/ IdentifierOnly \/ SubAck \/ SubAckStatus
     \/ Publish \/ Payload
  /\ UNCHANGED <<connects, sent, violated>>

Next ==
  \/ TcpConnects \/ TcpDrops \/ PeerSends \/ PeerViolates \/ Receive
  \/ Turn \/ Crash

Spec == Init /\ [][Next]_vars

---------------------------------------------------------------------------
Byte == [value : Nat, type : KnownTypes \cup {"reserved"}, qos : 0..2]

\* *_currentParsedPacket
Packet ==
  [type : KnownTypes, qos : 0..2, position : Nat, msb : Nat, id : Nat,
   topicLength : Nat, ignore : BOOLEAN, payloadLength : Nat, payloadRead : Nat]

TypeOK ==
  /\ tcp \in BOOLEAN /\ stream \in Seq(Byte) /\ segment \in Seq(Byte)
  /\ state \in {"DISCONNECTED", "CONNECTING", "CONNECTED"}
  /\ bufferState \in {"NONE", "REMAINING_LENGTH", "VARIABLE_HEADER", "PAYLOAD"}
  /\ packet \in Packet \cup {None}
  /\ lengthBuffer \in Seq(Nat) /\ remainingLength \in Nat
  /\ topicBuffer \in [1..MaxTopicLength -> Nat]

\* _remainingLengthBuffer has four bytes, the next of which is written at this
\* position.  Bytes that a broken connection left there and those of the next
\* packet fit together (AsyncMqttClient.hpp:137, AsyncMqttClient.cpp:306).
LengthFits == ~violated => Len(lengthBuffer) < 4

\* What the callbacks are to be told of packet p.
Expected(p) ==
  CASE p.type = "reserved" -> <<>>
    [] p.type = "CONNACK" -> <<[type |-> "CONNACK", code |-> p.code]>>
    [] p.type = "PINGRESP" -> <<[type |-> "PINGRESP"]>>
    [] p.type = "PUBLISH" ->
         IF Len(p.topic) > MaxTopicLength THEN <<>>
         ELSE LET id == IF p.qos = 0 THEN 0 ELSE p.id
              IN  <<[type |-> "MESSAGE", topic |-> p.topic, payload |-> p.payload,
                     total |-> Len(p.payload), qos |-> p.qos, id |-> id],
                    [type |-> "PUBLISH", qos |-> p.qos, id |-> id]>>
    [] OTHER -> <<[type |-> p.type, id |-> p.id]>>

Owed ==
  LET owed[n \in 0..Len(sent)] == IF n = 0 THEN <<>> ELSE owed[n - 1] \o Expected(sent[n])
  IN  owed[Len(sent)]

\* m tells what e tells, or, if it is the last one, the beginning of it.
Tells(m, e, last) ==
  \/ m = e
  \/ /\ last /\ m.type = "MESSAGE" /\ e.type = "MESSAGE"
     /\ e = [m EXCEPT !.payload = e.payload] /\ IsPrefix(m.payload, e.payload)

\* However the stream is cut into segments, and wherever earlier connections
\* broke off, the callbacks are told what the peer has sent, in its order,
\* nothing twice, the parts of a payload one after another
\* (AsyncMqttClient.cpp:248-329, docs/3.-Memory-management.md:12).
HandledInOrder ==
  ~violated =>
    /\ Len(calls) <= Len(Owed)
    /\ \A i \in DOMAIN calls : Tells(calls[i], Owed[i], i = Len(calls))

\* When everything the peer sent has been read, all of it has been handled
\* and the parser waits for the first byte of a packet; bytes of a remaining
\* length left over from the last connection end with the CONNACK.
AllHandled ==
  ~violated /\ tcp /\ stream = <<>> /\ segment = <<>> =>
    /\ bufferState = "NONE" /\ calls = Owed
    /\ sent # <<>> => lengthBuffer = <<>>

\* _currentParsedPacket is there whenever it is called
\* (AsyncMqttClient.cpp:319 and 322): only a peer that does not speak MQTT
\* brings the parser out of step, and the program to a restart.
PacketPresent == Derailed => violated

\* Between two packets the object of the last one is freed, unless its topic
\* was too long (PublishPacket.cpp:70 and 89): that one is never freed.
PacketFreed ==
  ~violated /\ bufferState = "NONE" => packet = None \/ packet.ignore
=============================================================================
