-------------------------- MODULE AsyncMqttClient --------------------------
(***************************************************************************)
(* The outgoing queue of AsyncMqttClient                                   *)
(* (lib/async-mqtt-client-develop/src/AsyncMqttClient.cpp), as operators   *)
(* on a sequence of packets whose head is _head.  A packet is written to   *)
(* the TCP stream in units: a unit stands for a run of bytes, and a packet *)
(* longer than the room left in the TCP buffer is written in parts.        *)
(***************************************************************************)
EXTENDS Naturals, Sequences

CONSTANTS
  Size(_),            \* number of units of a packet
  LengthLooksLikeQos(_)
                      \* whether bits 1 and 2 of the packet's second byte,
                      \* its remaining length, are not both zero

NoBody == <<>>

\* Packets that wait, sent, for an answer: SUBSCRIBE, PUBREC and PUBREL.
Packet(type, id) ==
  [type |-> type, id |-> id, body |-> NoBody, dup |-> FALSE,
   released |-> type \notin {"SUBSCRIBE", "PUBREC", "PUBREL"}]

\* PublishOutPacket with QoS 0, the only one the firmware uses: its _packetId
\* is 1.
PublishPacket(pub) == [Packet("PUBLISH", 1) EXCEPT !.body = pub]

---------------------------------------------------------------------------
\* The units from + 1 .. from + k of p, as the broker sees them.
Units(p, from, k) ==
  [i \in 1..k |-> [type |-> p.type, id |-> p.id, body |-> p.body,
                   dup |-> p.dup, unit |-> from + i, of |-> Size(p)]]

Smaller(a, b) == IF a < b THEN a ELSE b

\* Mutation: the room in the TCP buffer is looked at only before writing.
TurnWithoutLimit(c, p) ==
  LET k    == Size(p) - c.sent
      done == p.released
  IN  IF c.blocked \/ c.room = 0
      THEN [c EXCEPT !.queue = Append(@, p), !.blocked = TRUE]
      ELSE [queue   |-> IF done THEN c.queue ELSE Append(c.queue, p),
            sent    |-> IF done THEN 0 ELSE c.sent + k,
            room    |-> c.room,
            wire    |-> c.wire \o Units(p, c.sent, k),
            blocked |-> ~done]

\* One turn of the loop in _handleQueue, p being the head: write what fits,
\* then drop the packet if it is complete and released, else stop.
Turn(c, p) ==
  LET k    == Smaller(Size(p) - c.sent, c.room)
      done == c.sent + k = Size(p) /\ p.released
  IN  IF c.blocked \/ c.room = 0
      THEN [c EXCEPT !.queue = Append(@, p), !.blocked = TRUE]
      ELSE [queue   |-> IF done THEN c.queue ELSE Append(c.queue, p),
            sent    |-> IF done THEN 0 ELSE c.sent + k,
            room    |-> c.room - k,
            wire    |-> c.wire \o Units(p, c.sent, k),
            blocked |-> ~done]

\* _handleQueue: the queue and _sent after it, and what it wrote.  The loop
\* goes on until it has to stop, so one call after several _addBack has the
\* effect of a call after each of them.  (The two bound variables make TLC
\* evaluate each turn once.)
Turns(queue, sent, room) ==
  LET turn[i \in 0..Len(queue)] ==
        IF i = 0
        THEN [queue |-> <<>>, sent |-> sent, room |-> room, wire |-> <<>>,
              blocked |-> FALSE]
        ELSE CHOOSE c \in {Turn(b, queue[i]) : b \in {turn[i - 1]}} : TRUE
  IN  turn

handleQueue(queue, sent, room) == Turns(queue, sent, room)[Len(queue)]

---------------------------------------------------------------------------
\* The elements of s at the positions in I, in their order.
Select(s, I) ==
  LET upTo[i \in 0..Len(s)] ==
        IF i = 0 THEN <<>>
        ELSE IF i \in I THEN Append(upTo[i - 1], s[i]) ELSE upTo[i - 1]
  IN  upTo[Len(s)]

\* What _clearQueue(true) keeps: qos() reads the second byte of a PUBLISH.
Kept(p) ==
  \/ p.type = "PUBLISH" /\ LengthLooksLikeQos(p)
  \/ p.type \in {"PUBREC", "PUBCOMP"}

\* _clearQueue(true): a kept PUBLISH no longer than _sent is marked DUP, be
\* it the one in progress or not.
keepSession(queue, sent) ==
  LET kept == Select(queue, {i \in DOMAIN queue : Kept(queue[i])})
  IN  [i \in 1..Len(kept) |->
         IF kept[i].type = "PUBLISH" /\ Size(kept[i]) <= sent
         THEN [kept[i] EXCEPT !.dup = TRUE] ELSE kept[i]]

addFront(queue, p) == <<p>> \o queue

\* _insert: behind the head.
insert(queue, p) == <<Head(queue), p>> \o Tail(queue)

headHas(queue, id) == queue # <<>> /\ Head(queue).id = id

releaseHead(queue) == <<[Head(queue) EXCEPT !.released = TRUE]>> \o Tail(queue)

\* Mutation: only a PUBLISH is looked for.
releasedPublish(queue, id) ==
  IF headHas(queue, id) /\ Head(queue).type = "PUBLISH"
  THEN releaseHead(queue) ELSE queue

\* _onSubAck: the head is released if the confirmation is for it.
released(queue, id) == IF headHas(queue, id) THEN releaseHead(queue) ELSE queue

\* Mutation: the PUBREC at the head is not released.
pubRelHolds(queue, id) ==
  IF headHas(queue, id) THEN insert(queue, Packet("PUBCOMP", id)) ELSE queue

\* _onPubRel: PUBCOMP is sent only when the PUBREC is at the head.
pubRel(queue, id) ==
  IF headHas(queue, id)
  THEN insert(releaseHead(queue), Packet("PUBCOMP", id)) ELSE queue

\* _onPublish.
acknowledge(queue, qos, id) ==
  CASE qos = 0 -> queue
    [] qos = 1 -> Append(queue, Packet("PUBACK", id))
    [] qos = 2 -> Append(queue, Packet("PUBREC", id))
=============================================================================
