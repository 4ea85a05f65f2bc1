-------------------------- MODULE KeepAliveProofs --------------------------
(***************************************************************************)
(* The safety of the keep-alive timers, for all timeouts with PingAfter <  *)
(* PingTimeout, any size of the send buffer and any number of commands.    *)
(***************************************************************************)
EXTENDS KeepAlive, SequenceTheorems, TLAPS

USE KeepAliveAssumption

\* The fields of the ages.
LEMMA AgesFields ==
  ASSUME NEW a \in Ages
  PROVE  /\ a.client \in 0..PingTimeout /\ a.server \in 0..PingAfter
         /\ a.sent \in 0..AckTimeout /\ a.rx \in 0..RxTimeout
         /\ a.ping \in 0..PingTimeout \cup {NoPing}
         /\ a.asked \in 0..PingTimeout + 1 \cup {NoPing}
         /\ a.more \in {0, 1}
  BY DEF Ages

\* Changing one age, and what becomes of the two that the properties compare.
LEMMA SetClient ==
  ASSUME NEW a \in Ages
  PROVE  /\ [a EXCEPT !.client = 0] \in Ages
         /\ [a EXCEPT !.client = 0].client = 0
  BY DEF Ages

LEMMA SetPing ==
  ASSUME NEW a \in Ages, NEW x \in {0, NoPing}
  PROVE  /\ [a EXCEPT !.ping = x] \in Ages
         /\ [a EXCEPT !.ping = x].ping = x
         /\ [a EXCEPT !.ping = x].client = a.client
  BY DEF Ages

LEMMA SetOther ==
  ASSUME NEW a \in Ages
  PROVE  /\ [a EXCEPT !.sent = 0] \in Ages
         /\ [a EXCEPT !.sent = 0].ping = a.ping
         /\ [a EXCEPT !.sent = 0].client = a.client
         /\ [a EXCEPT !.rx = 0] \in Ages
         /\ [a EXCEPT !.rx = 0].ping = a.ping
         /\ [a EXCEPT !.rx = 0].client = a.client
         /\ [a EXCEPT !.server = 0] \in Ages
         /\ [a EXCEPT !.server = 0].ping = a.ping
         /\ [a EXCEPT !.server = 0].client = a.client
  BY DEF Ages

LEMMA SetAsked ==
  ASSUME NEW a \in Ages, NEW x \in 0..PingTimeout + 1 \cup {NoPing}
  PROVE  /\ [a EXCEPT !.asked = x] \in Ages
         /\ [a EXCEPT !.asked = x].ping = a.ping
         /\ [a EXCEPT !.asked = x].client = a.client
  BY DEF Ages

LEMMA SetMore ==
  ASSUME NEW a \in Ages, NEW x \in {0, 1}
  PROVE  /\ [a EXCEPT !.more = x] \in Ages
         /\ [a EXCEPT !.more = x].ping = a.ping
         /\ [a EXCEPT !.more = x].client = a.client
  BY DEF Ages

\* An age that is counted stays in its range, one that is not stays so.
LEMMA OlderType ==
  ASSUME NEW last \in Nat, NEW n \in 0..last \cup {NoPing}
  PROVE  /\ Older(n, last) \in 0..last \cup {NoPing}
         /\ n # NoPing => Older(n, last) \in 0..last
  BY DEF Older, NoPing

\* The ages after something has been written.
LEMMA WrittenType ==
  ASSUME NEW a \in Ages, NEW n, NEW q
  PROVE  /\ Written(a, n, q) \in Ages
         /\ Written(a, n, q).client = 0
         /\ Written(a, n, q).ping = NoPing
<1> DEFINE pings == {i \in 1..n : q[i] = "ping"}
           first == a.asked = NoPing
           x == IF first /\ pings # {} THEN 0 ELSE a.asked
           y == IF \E i, j \in pings : first => i # j THEN 1 ELSE a.more
           a1 == [a EXCEPT !.client = 0]
           a2 == [a1 EXCEPT !.sent = 0]
           a3 == [a2 EXCEPT !.ping = NoPing]
           a4 == [a3 EXCEPT !.asked = x]
           a5 == [a4 EXCEPT !.more = y]
<1>1. x \in 0..PingTimeout + 1 \cup {NoPing} /\ y \in {0, 1}
  BY AgesFields
<1>2. Written(a, n, q) =
        [a EXCEPT !.client = 0, !.sent = 0, !.ping = NoPing, !.asked = x, !.more = y]
  BY DEF Written, Ages
<1> HIDE DEF x, y
<1>3. Written(a, n, q) = a5
  BY <1>2
<1>4. a1 \in Ages /\ a1.client = 0
  BY SetClient
<1> HIDE DEF a1
<1>5. a2 \in Ages /\ a2.client = 0
  BY <1>4, SetOther
<1> HIDE DEF a2
<1>6. a3 \in Ages /\ a3.client = 0 /\ a3.ping = NoPing
  BY <1>5, SetPing
<1> HIDE DEF a3
<1>7. a4 \in Ages /\ a4.client = 0 /\ a4.ping = NoPing
  BY <1>1, <1>6, SetAsked
<1> HIDE DEF a4
<1>8. a5 \in Ages /\ a5.client = 0 /\ a5.ping = NoPing
  BY <1>1, <1>7, SetMore
<1> QED BY <1>3, <1>8

\* One call of _handleQueue keeps the types; either it leaves queue and ages
\* alone or it has just sent something and forgotten the ping request.
LEMMA Flush ==
  ASSUME NEW q \in Seq(Packet), NEW u \in 0..Room, NEW w \in BOOLEAN,
         NEW b \in BOOLEAN, NEW a \in Ages, handleQueue(q, u, w, b, a)
  PROVE  /\ queue' \in Seq(Packet) /\ waits' \in BOOLEAN
         /\ unacked' \in 0..Room /\ busy' \in BOOLEAN /\ age' \in Ages
         /\ \/ queue' = q /\ age' = a /\ busy' = b
            \/ age'.client = 0 /\ age'.ping = NoPing
<1>1. PICK n \in 0..Len(q) :
        /\ Writes(n, q, u, w)
        /\ queue' = SubSeq(q, n + 1, Len(q))
        /\ unacked' = u + n
        /\ waits' = (w \/ (n > 0 /\ q[n] = "confirmed"))
        /\ age' = IF n = 0 THEN a ELSE Written(a, n, q)
        /\ busy' = (b \/ n > 0)
  BY DEF handleQueue
<1>2. queue' \in Seq(Packet)
  BY <1>1
<1>3. unacked' \in 0..Room
  BY <1>1 DEF Writes, CanWrite
<1>4. waits' \in BOOLEAN /\ busy' \in BOOLEAN
  BY <1>1
<1>5. CASE n = 0
  <2>1. queue' = q
    BY <1>1, <1>5
  <2>2. age' = a /\ busy' = b
    BY <1>1, <1>5
  <2> QED BY <1>2, <1>3, <1>4, <2>1, <2>2
<1>6. CASE n # 0
  <2>1. age' = Written(a, n, q)
    BY <1>1, <1>6
  <2>2. age' \in Ages /\ age'.client = 0 /\ age'.ping = NoPing
    BY <2>1, WrittenType
  <2> QED BY <1>2, <1>3, <1>4, <2>2
<1> QED BY <1>5, <1>6

\* Growing older stays within the ages.
LEMMA AgedType == ASSUME age \in Ages PROVE Aged \in Ages
<1>1. /\ age.client # NoPing /\ age.server # NoPing
      /\ age.sent # NoPing /\ age.rx # NoPing
  BY AgesFields DEF NoPing
<1>2. /\ Older(age.client, PingTimeout) \in 0..PingTimeout
      /\ Older(age.server, PingAfter) \in 0..PingAfter
      /\ Older(age.sent, AckTimeout) \in 0..AckTimeout
      /\ Older(age.rx, RxTimeout) \in 0..RxTimeout
  BY <1>1, AgesFields, OlderType
<1>3. Older(age.ping, PingTimeout) \in 0..PingTimeout \cup {NoPing}
  BY AgesFields, OlderType
<1>4. Older(age.asked, PingTimeout + 1) \in 0..PingTimeout + 1 \cup {NoPing}
  <2>1. PingTimeout + 1 \in Nat
    OBVIOUS
  <2> QED BY <2>1, AgesFields, OlderType
<1>5. age.more \in {0, 1}
  BY AgesFields
<1> QED BY <1>2, <1>3, <1>4, <1>5 DEF Aged, Ages

\* What has been heard leaves the ages well typed, and the two as they were.
LEMMA HeardType ==
  ASSUME age \in Ages
  PROVE  Heard \in Ages /\ Heard.ping = age.ping /\ Heard.client = age.client
<1>1. Heard = [[age EXCEPT !.rx = 0] EXCEPT !.server = 0]
  BY DEF Heard
<1>2. [age EXCEPT !.rx = 0] \in Ages
  BY SetOther
<1> QED BY <1>1, <1>2, SetOther

\* Closing forgets the ping request.
LEMMA ClosedType ==
  ASSUME NEW a \in Ages
  PROVE  LET c == [a EXCEPT !.ping = NoPing, !.asked = NoPing, !.more = 0]
         IN  c \in Ages /\ c.ping = NoPing
<1> DEFINE a1 == [a EXCEPT !.ping = NoPing]
           a2 == [a1 EXCEPT !.asked = NoPing]
<1>1. [a EXCEPT !.ping = NoPing, !.asked = NoPing, !.more = 0] = [a2 EXCEPT !.more = 0]
  OBVIOUS
<1>2. a1 \in Ages /\ a1.ping = NoPing
  BY SetPing
<1> HIDE DEF a1
<1>3. a2 \in Ages /\ a2.ping = NoPing
  BY <1>2, SetAsked
<1> HIDE DEF a2
<1> QED BY <1>1, <1>3, SetMore

\* What an answer to a ping leaves.
LEMMA AnsweredType ==
  ASSUME age \in Ages, NEW m \in {0, age.more}
  PROVE  LET c == [Heard EXCEPT !.ping = NoPing, !.more = m,
                                !.asked = IF age.more = 1 THEN 0 ELSE NoPing]
         IN  c \in Ages /\ c.ping = NoPing /\ c.client = age.client
<1> DEFINE x == IF age.more = 1 THEN 0 ELSE NoPing
           a1 == [Heard EXCEPT !.ping = NoPing]
           a2 == [a1 EXCEPT !.more = m]
<1>1. x \in 0..PingTimeout + 1 \cup {NoPing} /\ m \in {0, 1}
  BY AgesFields
<1> HIDE DEF x
<1>2. [Heard EXCEPT !.ping = NoPing, !.more = m, !.asked = x] = [a2 EXCEPT !.asked = x]
  OBVIOUS
<1>3. a1 \in Ages /\ a1.ping = NoPing /\ a1.client = age.client
  BY HeardType, SetPing
<1> HIDE DEF a1
<1>4. a2 \in Ages /\ a2.ping = NoPing /\ a2.client = age.client
  BY <1>1, <1>3, SetMore
<1> HIDE DEF a2
<1>5. /\ [a2 EXCEPT !.asked = x] \in Ages
      /\ [a2 EXCEPT !.asked = x].ping = NoPing
      /\ [a2 EXCEPT !.asked = x].client = age.client
  BY <1>1, <1>4, SetAsked
<1> QED BY <1>2, <1>5 DEF x

LEMMA NonEmpty ==
  ASSUME NEW q \in Seq(Packet), NEW p \in Packet
  PROVE  Append(q, p) \in Seq(Packet) /\ Append(q, p) # <<>>
  OBVIOUS

\* The values the constants' ranges always hold.
LEMMA Zeros == /\ 0 \in 0..Room /\ FALSE \in BOOLEAN /\ TRUE \in BOOLEAN
               /\ 0 \in 0..PingTimeout + 1 \cup {NoPing}
               /\ NoPing \in 0..PingTimeout + 1 \cup {NoPing}
  OBVIOUS

---------------------------------------------------------------------------
\* Every variable keeps its type; the send buffer is never overfilled.
THEOREM TypeCorrect == Spec => []TypeOK
<1>1. Init => TypeOK
  <2> SUFFICES ASSUME Init PROVE TypeOK
    OBVIOUS
  <2>1. queue \in Seq(Packet)
    BY EmptySeq DEF Init
  <2>2. age \in Ages
    BY DEF Init, Ages, NoPing
  <2>3. unacked \in 0..Room
    BY DEF Init
  <2> QED BY <2>1, <2>2, <2>3 DEF Init, TypeOK
<1>2. TypeOK /\ [Next]_vars => TypeOK'
  <2> SUFFICES ASSUME TypeOK, [Next]_vars PROVE TypeOK'
    OBVIOUS
  <2> USE DEF TypeOK
  <2>0. ASSUME NEW a \in Ages, Close(a) PROVE TypeOK'
    <3>1. queue' \in Seq(Packet)
      BY <2>0, EmptySeq DEF Close
    <3>2. age' \in Ages
      BY <2>0, ClosedType DEF Close
    <3>3. unacked' \in 0..Room
      BY <2>0, Zeros DEF Close
    <3>4. UNCHANGED <<link, refused>> /\ state' = "DISCONNECTED"
          /\ rxTimeout' = FALSE /\ waits' = FALSE /\ busy' = FALSE
      BY <2>0 DEF Close
    <3> QED BY <3>1, <3>2, <3>3, <3>4
  <2>1. CASE TcpConnects
    <3>0. [age EXCEPT !.rx = 0] \in Ages
      BY SetOther
    <3>1. <<"plain">> \in Seq(Packet)
      BY DEF Packet
    <3>2. handleQueue(<<"plain">>, 0, FALSE, FALSE, [age EXCEPT !.rx = 0])
      BY <2>1 DEF TcpConnects
    <3>3. /\ queue' \in Seq(Packet) /\ waits' \in BOOLEAN
          /\ unacked' \in 0..Room /\ busy' \in BOOLEAN /\ age' \in Ages
      BY <3>0, <3>1, <3>2, Zeros, Flush, ZenonT(60)
    <3>4. link' = "up" /\ state' = "CONNECTING" /\ refused' = FALSE
          /\ rxTimeout' = TRUE
      BY <2>1 DEF TcpConnects, waitForConnAck
    <3> QED BY <3>3, <3>4
  <2>2. CASE PeerCloses
    BY <2>2, <2>0 DEF PeerCloses
  <2>3. CASE RetransmissionGivesUp
    BY <2>3, <2>0 DEF RetransmissionGivesUp
  <2>4. CASE LinkDies
    BY <2>4 DEF LinkDies
  <2>5. CASE Acked
    <3>1. [age EXCEPT !.rx = 0] \in Ages
      BY SetOther
    <3>2. PICK n \in 1..unacked :
            IF n = unacked
            THEN handleQueue(queue, 0, waits, FALSE, [age EXCEPT !.rx = 0])
            ELSE /\ unacked' = unacked - n /\ age' = [age EXCEPT !.rx = 0]
                 /\ UNCHANGED <<queue, waits, busy>>
      BY <2>5 DEF Acked
    <3>3. CASE n = unacked
      <4>1. handleQueue(queue, 0, waits, FALSE, [age EXCEPT !.rx = 0])
        BY <3>2, <3>3
      <4>2. /\ queue' \in Seq(Packet) /\ waits' \in BOOLEAN
            /\ unacked' \in 0..Room /\ busy' \in BOOLEAN /\ age' \in Ages
        BY <3>1, <4>1, Zeros, Flush, ZenonT(60)
      <4> QED BY <2>5, <4>2 DEF Acked
    <3>4. CASE n # unacked
      BY <2>5, <3>1, <3>2, <3>4 DEF Acked
    <3> QED BY <3>3, <3>4
  <2>6. CASE ConnAck
    <3>1. <<"confirmed", "plain">> \in Seq(Packet)
      BY DEF Packet
    <3> QED BY <2>6, <3>1, HeardType, Flush, ZenonT(60) DEF ConnAck
  <2>7. CASE Confirmation
    BY <2>7, HeardType, Flush, ZenonT(60) DEF Confirmation
  <2>8. CASE Command
    <3>1. PICK p \in {"plain", "confirmed"} :
            handleQueue(Append(queue, p), unacked, waits, busy, Heard)
      BY <2>8 DEF Command
    <3>2. Append(queue, p) \in Seq(Packet)
      BY NonEmpty DEF Packet
    <3>3. unacked \in 0..Room /\ waits \in BOOLEAN /\ busy \in BOOLEAN /\ Heard \in Ages
      BY HeardType
    <3>4. /\ queue' \in Seq(Packet) /\ waits' \in BOOLEAN
          /\ unacked' \in 0..Room /\ busy' \in BOOLEAN /\ age' \in Ages
      BY <3>1, <3>2, <3>3, Flush, ZenonT(60)
    <3> QED BY <2>8, <3>4 DEF Command
  <2>9. CASE PingResp
    <3>1. PICK m \in {0, age.more} :
            age' = [Heard EXCEPT !.ping = NoPing, !.more = m,
                                 !.asked = IF age.more = 1 THEN 0 ELSE NoPing]
      BY <2>9 DEF PingResp
    <3>2. age' \in Ages
      BY <3>1, AnsweredType
    <3> QED BY <2>9, <3>2 DEF PingResp
  <2>10. CASE PollAckTimeout
    BY <2>10, AgedType DEF PollAckTimeout
  <2>11. CASE PollCloses
    BY <2>11, AgedType, <2>0 DEF PollCloses
  <2>12. CASE PollSends
    <3>1. CASE PingDue
      <4>1. Append(queue, "ping") \in Seq(Packet)
        BY NonEmpty DEF Packet
      <4>2. [Aged EXCEPT !.ping = 0] \in Ages
        BY AgedType, SetPing
      <4>3. handleQueue(Append(queue, "ping"), unacked, waits, busy,
                        [Aged EXCEPT !.ping = 0])
        BY <2>12, <3>1 DEF PollSends
      <4>4. /\ queue' \in Seq(Packet) /\ waits' \in BOOLEAN
            /\ unacked' \in 0..Room /\ busy' \in BOOLEAN /\ age' \in Ages
        BY <4>1, <4>2, <4>3, Flush, ZenonT(60)
      <4> QED BY <2>12, <4>4 DEF PollSends
    <3>2. CASE ~PingDue
      BY <2>12, <3>2, AgedType, Flush, ZenonT(60) DEF PollSends
    <3> QED BY <3>1, <3>2
  <2>13. CASE UNCHANGED vars
    BY <2>13 DEF vars
  <2> QED BY <2>1, <2>2, <2>3, <2>4, <2>5, <2>6, <2>7, <2>8, <2>9, <2>10,
             <2>11, <2>12, <2>13 DEF Next
<1> QED BY <1>1, <1>2, PTL DEF Spec

---------------------------------------------------------------------------
(* The ping.                                                               *)

\* A ping request counts as outstanding only while something is in the queue.
Pending(q, a) == a.ping # NoPing => q # <<>> /\ a.ping <= a.client

\* With an empty queue the client has spoken lately.  A poll that finds an
\* acknowledgement late (busy) skips the ping, but only once: it is not busy
\* the next time.
Lately(q, b, a) ==
  q = <<>> => a.client <= PingAfter /\ (b => a.client < PingAfter)

IInv ==
  /\ TypeOK
  /\ Pending(queue, age)
  /\ state = "CONNECTED" => Lately(queue, busy, age)

\* _handleQueue keeps both.
LEMMA FlushKeeps ==
  ASSUME NEW q \in Seq(Packet), NEW u \in 0..Room, NEW w \in BOOLEAN,
         NEW b \in BOOLEAN, NEW a \in Ages, handleQueue(q, u, w, b, a),
         Pending(q, a)
  PROVE  /\ Pending(queue', age')
         /\ Lately(q, b, a) => Lately(queue', busy', age')
<1>1. \/ queue' = q /\ age' = a /\ busy' = b
      \/ age'.client = 0 /\ age'.ping = NoPing
  BY Flush, SMTT(40)
<1>2. CASE queue' = q /\ age' = a /\ busy' = b
  BY <1>2
<1>3. CASE age'.client = 0 /\ age'.ping = NoPing
  BY <1>3 DEF Pending, Lately
<1> QED BY <1>1, <1>2, <1>3

\* A poll that finds no ping due with an empty queue finds the client active.
LEMMA AgedKeeps ==
  ASSUME age \in Ages, Pending(queue, age)
  PROVE  /\ Pending(queue, Aged)
         /\ age.client < PingAfter => Aged.client <= PingAfter
         /\ queue = <<>> => Aged.ping = NoPing
<1>1. /\ Aged.client = Older(age.client, PingTimeout)
      /\ Aged.ping = Older(age.ping, PingTimeout)
  BY DEF Aged
<1>2. age.client \in 0..PingTimeout /\ age.ping \in 0..PingTimeout \cup {NoPing}
  BY AgesFields
<1>3. Pending(queue, Aged)
  BY <1>1, <1>2 DEF Pending, Older, NoPing
<1>4. age.client < PingAfter => Aged.client <= PingAfter
  BY <1>1, <1>2 DEF Older, NoPing
<1>5. queue = <<>> => Aged.ping = NoPing
  BY <1>1 DEF Pending, Older
<1> QED BY <1>3, <1>4, <1>5

\* The invariant holds at first and is kept by every step.
LEMMA PingInvariant == Spec => []IInv
<1>1. Init => IInv
  <2> SUFFICES ASSUME Init PROVE IInv
    OBVIOUS
  <2>1. Pending(queue, age)
    BY DEF Init, Pending
  <2>2. state # "CONNECTED"
    BY DEF Init
  <2>3. TypeOK
    <3>1. queue \in Seq(Packet)
      BY EmptySeq DEF Init
    <3>2. age \in Ages
      BY DEF Init, Ages, NoPing
    <3>3. unacked \in 0..Room
      BY DEF Init
    <3> QED BY <3>1, <3>2, <3>3 DEF Init, TypeOK
  <2> QED BY <2>1, <2>2, <2>3 DEF IInv
<1>2. IInv /\ TypeOK' /\ [Next]_vars => IInv'
  <2> SUFFICES ASSUME IInv, TypeOK', [Next]_vars
               PROVE  /\ Pending(queue', age')
                      /\ state' = "CONNECTED" => Lately(queue', busy', age')
    BY DEF IInv
  <2>types. /\ queue \in Seq(Packet) /\ waits \in BOOLEAN /\ busy \in BOOLEAN
            /\ unacked \in 0..Room /\ age \in Ages
    BY DEF IInv, TypeOK
  <2>inv. /\ Pending(queue, age)
          /\ state = "CONNECTED" => Lately(queue, busy, age)
    BY DEF IInv
  <2> DEFINE Goal == /\ Pending(queue', age')
                     /\ state' = "CONNECTED" => Lately(queue', busy', age')
  <2>rx. LET a == [age EXCEPT !.rx = 0]
         IN  /\ a \in Ages /\ Pending(queue, a)
             /\ \A b \in BOOLEAN : Lately(queue, b, age) => Lately(queue, b, a)
    BY <2>types, <2>inv, SetOther DEF Pending, Lately
  <2>heard. /\ Heard \in Ages
            /\ \A q \in Seq(Packet) : q = queue \/ q # <<>> => Pending(q, Heard)
            /\ \A b \in BOOLEAN : Lately(queue, b, age) => Lately(queue, b, Heard)
    BY <2>types, <2>inv, HeardType DEF Pending, Lately
  <2>close. ASSUME NEW a \in Ages, Close(a) PROVE Goal
    <3>1. age' = [a EXCEPT !.ping = NoPing, !.asked = NoPing, !.more = 0]
      BY <2>close DEF Close
    <3>2. age'.ping = NoPing
      BY <2>close, <3>1, ClosedType
    <3> QED BY <2>close, <3>2 DEF Close, Pending
  <2>1. CASE TcpConnects
    <3>0. [age EXCEPT !.rx = 0] \in Ages
      BY <2>types, SetOther
    <3>1. <<"plain">> \in Seq(Packet) /\ <<"plain">> # <<>>
      BY DEF Packet
    <3>2. Pending(<<"plain">>, [age EXCEPT !.rx = 0])
      BY <2>types, <2>inv, <3>1, SetOther DEF Pending
    <3>3. /\ state' = "CONNECTING"
          /\ handleQueue(<<"plain">>, 0, FALSE, FALSE, [age EXCEPT !.rx = 0])
      BY <2>1 DEF TcpConnects
    <3> QED BY <3>0, <3>1, <3>2, <3>3, Zeros, FlushKeeps
  <2>2. CASE PeerCloses
    BY <2>2, <2>types, <2>close DEF PeerCloses
  <2>3. CASE RetransmissionGivesUp
    BY <2>3, <2>types, <2>close DEF RetransmissionGivesUp
  <2>4. CASE LinkDies
    BY <2>4, <2>inv DEF LinkDies
  <2>5. CASE Acked
    <3>1. PICK n \in 1..unacked :
            IF n = unacked
            THEN handleQueue(queue, 0, waits, FALSE, [age EXCEPT !.rx = 0])
            ELSE /\ unacked' = unacked - n /\ age' = [age EXCEPT !.rx = 0]
                 /\ UNCHANGED <<queue, waits, busy>>
      BY <2>5 DEF Acked
    <3>2. state' = state
      BY <2>5 DEF Acked
    <3>3. CASE n = unacked
      <4>1. handleQueue(queue, 0, waits, FALSE, [age EXCEPT !.rx = 0])
        BY <3>1, <3>3
      <4>2. Lately(queue, busy, age) => Lately(queue, FALSE, [age EXCEPT !.rx = 0])
        BY <2>types, SetOther DEF Lately
      <4> QED BY <2>types, <2>inv, <2>rx, <3>2, <4>1, <4>2, Zeros, FlushKeeps
    <3>4. CASE n # unacked
      BY <2>types, <2>inv, <2>rx, <3>1, <3>2, <3>4
    <3> QED BY <3>3, <3>4
  <2>6. CASE ConnAck
    <3> DEFINE q == <<"confirmed", "plain">>
    <3>1. q \in Seq(Packet) /\ q # <<>>
      BY DEF Packet
    <3>2. Pending(q, Heard) /\ Lately(q, busy, Heard)
      BY <2>heard, <3>1 DEF Lately
    <3>3. CASE handleQueue(q, unacked, FALSE, busy, Heard)
      BY <2>types, <2>heard, <3>1, <3>2, <3>3, Zeros, FlushKeeps
    <3>4. CASE age' = Heard /\ UNCHANGED <<state, queue, waits, unacked, busy>>
      BY <2>6, <2>types, <2>heard, <3>4 DEF ConnAck
    <3> QED BY <2>6, <3>3, <3>4 DEF ConnAck
  <2>7. CASE Confirmation
    <3>1. state' = state /\ handleQueue(queue, unacked, FALSE, busy, Heard)
      BY <2>7 DEF Confirmation
    <3> QED BY <2>types, <2>inv, <2>heard, <3>1, Zeros, FlushKeeps
  <2>8. CASE Command
    <3>1. PICK p \in {"plain", "confirmed"} :
            handleQueue(Append(queue, p), unacked, waits, busy, Heard)
      BY <2>8 DEF Command
    <3>2. Append(queue, p) \in Seq(Packet) /\ Append(queue, p) # <<>>
      BY <2>types, NonEmpty DEF Packet
    <3>3. Pending(Append(queue, p), Heard) /\ Lately(Append(queue, p), busy, Heard)
      BY <2>heard, <3>2 DEF Lately
    <3> QED BY <2>types, <2>heard, <3>1, <3>2, <3>3, FlushKeeps
  <2>9. CASE PingResp
    <3>1. PICK m \in {0, age.more} :
            age' = [Heard EXCEPT !.ping = NoPing, !.more = m,
                                 !.asked = IF age.more = 1 THEN 0 ELSE NoPing]
      BY <2>9 DEF PingResp
    <3>2. age'.ping = NoPing /\ age'.client = age.client
      BY <2>types, <3>1, AnsweredType
    <3>3. UNCHANGED <<state, queue, busy>>
      BY <2>9 DEF PingResp
    <3> QED BY <2>inv, <3>2, <3>3 DEF Pending, Lately
  <2>10. CASE PollAckTimeout
    <3>1. /\ busy /\ busy' = FALSE /\ age' = Aged
          /\ UNCHANGED <<state, queue>>
      BY <2>10 DEF PollAckTimeout, AckTooLate
    <3>2. Pending(queue, Aged) /\ (age.client < PingAfter => Aged.client <= PingAfter)
      BY <2>types, <2>inv, AgedKeeps
    <3> QED BY <2>inv, <3>1, <3>2 DEF Lately
  <2>11. CASE PollCloses
    BY <2>11, <2>types, AgedType, <2>close DEF PollCloses
  <2>12. CASE PollSends
    <3>1. state' = state
      BY <2>12 DEF PollSends
    <3>2. CASE PingDue
      <4> DEFINE q == Append(queue, "ping")
                 a == [Aged EXCEPT !.ping = 0]
      <4>1. q \in Seq(Packet) /\ q # <<>>
        BY <2>types, NonEmpty DEF Packet
      <4>2. a \in Ages /\ a.ping = 0 /\ a.client \in 0..PingTimeout
        BY <2>types, AgedType, SetPing, AgesFields
      <4>3. Pending(q, a) /\ Lately(q, busy, a)
        BY <4>1, <4>2 DEF Pending, Lately
      <4>4. handleQueue(q, unacked, waits, busy, a)
        BY <2>12, <3>2 DEF PollSends
      <4> HIDE DEF q, a
      <4> QED BY <2>types, <4>1, <4>2, <4>3, <4>4, FlushKeeps
    <3>3. CASE ~PingDue
      <4>1. Aged \in Ages /\ Pending(queue, Aged)
        BY <2>types, <2>inv, AgedType, AgedKeeps
      <4>2. state = "CONNECTED" => Lately(queue, busy, Aged)
        <5> SUFFICES ASSUME state = "CONNECTED", queue = <<>>
                     PROVE  Aged.client < PingAfter
          BY <4>1, AgesFields DEF Lately
        <5>1. Aged.ping = NoPing
          BY <2>types, <2>inv, AgedKeeps
        <5> QED BY <3>3, <4>1, <5>1, AgesFields DEF PingDue
      <4>3. handleQueue(queue, unacked, waits, busy, Aged)
        BY <2>12, <3>3 DEF PollSends
      <4> QED BY <2>types, <3>1, <4>1, <4>2, <4>3, FlushKeeps
    <3> QED BY <3>2, <3>3
  <2>13. CASE UNCHANGED vars
    BY <2>13, <2>inv DEF vars
  <2> QED BY <2>1, <2>2, <2>3, <2>4, <2>5, <2>6, <2>7, <2>8, <2>9, <2>10,
             <2>11, <2>12, <2>13 DEF Next
<1> QED BY <1>1, <1>2, TypeCorrect, PTL DEF Spec

\* With an empty queue the client speaks at least every PingAfter, whatever
\* the timeouts and the size of the send buffer (AsyncMqttClient.cpp:338).
THEOREM PingsInTime == Spec => []PingInTime
<1>1. IInv => PingInTime
  BY DEF IInv, PingInTime, Lately
<1> QED BY <1>1, PingInvariant, PTL
=============================================================================
