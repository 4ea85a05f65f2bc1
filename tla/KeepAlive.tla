----------------------------- MODULE KeepAlive -----------------------------
(***************************************************************************)
(* How the client finds out that a connection is dead.  The timers of      *)
(* AsyncMqttClient (_onPoll, _sendPing) and of AsyncClient below it (_poll *)
(* of lib/ESPAsyncTCP-master) over a link that may go silent for good: no  *)
(* byte, acknowledgement or FIN gets through any more.                     *)
(*                                                                         *)
(* Time is counted in polls: lwIP polls a connection every half second, so *)
(* one Poll is one tick.  A packet takes one of Room places in the TCP     *)
(* send buffer until the peer's TCP acknowledges it.                       *)
(***************************************************************************)
EXTENDS Integers, Sequences

CONSTANTS
  PingAfter,    \* _keepAlive * 0.7
  RxTimeout,    \* _keepAlive, the TCP client's timeout until CONNACK
  PingTimeout,  \* _keepAlive * 2
  AckTimeout,   \* ASYNC_MAX_ACK_TIME
  Room,         \* packets the TCP send buffer holds
  CanRefuse,    \* whether the broker may answer CONNECT with an error
  MaxQueue      \* bound: packets waiting when the next command or PINGRESP
                \* arrives

ASSUME KeepAliveAssumption ==
  /\ PingAfter \in Nat \ {0}  /\ RxTimeout \in Nat \ {0}
  /\ PingTimeout \in Nat \ {0} /\ AckTimeout \in Nat \ {0}
  /\ Room \in Nat \ {0}
  /\ CanRefuse \in BOOLEAN
  /\ PingAfter < PingTimeout
  /\ MaxQueue \in Nat

VARIABLES
  link,       \* "up" or "dead"
  state,      \* _state
  refused,    \* the CONNACK received was an error
  rxTimeout,  \* _rx_since_timeout # 0
  queue,      \* packets of the client's queue not yet written
  waits,      \* the head is written and waits for its confirmation
  unacked,    \* packets in the TCP send buffer
  busy,       \* _pcb_busy
  age         \* time since _lastClientActivity, _lastServerActivity,
              \* _pcb_sent_at, _rx_last_packet and _lastPingRequestTime (or
              \* NoPing); history: asked, since the first PINGREQ written
              \* after the last PINGRESP, or since that PINGRESP if others
              \* wait (or NoPing); more, 1 if others wait for theirs too

vars == <<link, state, refused, rxTimeout, queue, waits, unacked, busy, age>>

NoPing == -1

\* A SUBSCRIBE, PUBREC or PUBREL blocks the queue until it is confirmed.
Packet == {"plain", "confirmed", "ping"}

\* Each age stops counting at the last value that anything compares it with.
Ages == [client : 0..PingTimeout, server : 0..PingAfter, sent : 0..AckTimeout,
         rx : 0..RxTimeout, ping : 0..PingTimeout \cup {NoPing},
         asked : 0..PingTimeout + 1 \cup {NoPing}, more : {0, 1}]

Init ==
  /\ link = "up" /\ state = "DISCONNECTED" /\ refused = FALSE
  /\ rxTimeout = FALSE
  /\ queue = <<>> /\ waits = FALSE
  /\ unacked = 0 /\ busy = FALSE
  /\ age = [client |-> 0, server |-> 0, sent |-> 0, rx |-> 0,
            ping |-> NoPing, asked |-> NoPing, more |-> 0]

---------------------------------------------------------------------------
(* The queue.                                                              *)

\* Mutation: the room in the TCP buffer is not looked at.
CanWriteAnyway(n, q, u, w) ==
  n > 0 => ~w /\ \A i \in 1..n - 1 : q[i] # "confirmed"

\* The first n packets of q can be written: there is room for them and none
\* before the last one blocks the queue.
CanWrite(n, q, u, w) ==
  n > 0 => /\ ~w
           /\ u + n <= Room
           /\ \A i \in 1..n - 1 : q[i] # "confirmed"

\* How many packets one call of _handleQueue writes: as many as it can.
Writes(n, q, u, w) ==
  /\ CanWrite(n, q, u, w)
  /\ n < Len(q) => ~CanWrite(n + 1, q, u, w)

\* The ages once the first n packets of q have been written: whatever is
\* written, the ping itself included, resets _lastPingRequestTime.
Written(a, n, q) ==
  LET pings == {i \in 1..n : q[i] = "ping"}
      first == a.asked = NoPing
  IN  [a EXCEPT !.client = 0, !.sent = 0, !.ping = NoPing,
                !.asked = IF first /\ pings # {} THEN 0 ELSE @,
                !.more = IF \E i, j \in pings : first => i # j THEN 1 ELSE @]

\* _handleQueue on queue q with u places of the buffer taken, the head waiting
\* or not (w), _pcb_busy (b) and ages a.
handleQueue(q, u, w, b, a) ==
  \E n \in 0..Len(q) :
    /\ Writes(n, q, u, w)
    /\ queue' = SubSeq(q, n + 1, Len(q))
    /\ unacked' = u + n
    /\ waits' = (w \/ (n > 0 /\ q[n] = "confirmed"))
    /\ age' = IF n = 0 THEN a ELSE Written(a, n, q)
    /\ busy' = (b \/ n > 0)

---------------------------------------------------------------------------
(* A connection begins and ends.                                           *)

\* Mutation: connect() does not set the timeout.
waitForEver == rxTimeout' = FALSE

\* connect(): _client.setRxTimeout(_keepAlive).
waitForConnAck == rxTimeout' = TRUE

\* connect(), AsyncClient::_connected and _onConnect.
TcpConnects ==
  /\ state = "DISCONNECTED" /\ state' = "CONNECTING"
  /\ link' = "up" /\ refused' = FALSE
  /\ waitForConnAck
  /\ handleQueue(<<"plain">>, 0, FALSE, FALSE, [age EXCEPT !.rx = 0])

\* _close or _error of AsyncClient, then _onDisconnect and _clear.  (What
\* stays in the queue is gone at the next CONNACK: module MqttSession.)
Close(a) ==
  /\ state' = "DISCONNECTED"
  /\ rxTimeout' = FALSE
  /\ queue' = <<>> /\ waits' = FALSE
  /\ unacked' = 0 /\ busy' = FALSE
  /\ age' = [a EXCEPT !.ping = NoPing, !.asked = NoPing, !.more = 0]
  /\ UNCHANGED <<link, refused>>

Open == state # "DISCONNECTED"

\* FIN or RST of the broker.
PeerCloses == Open /\ link = "up" /\ Close(age)

\* lwIP has repeated a segment in vain.
RetransmissionGivesUp == Open /\ link = "dead" /\ unacked > 0 /\ Close(age)

LinkDies ==
  /\ Open /\ link = "up" /\ link' = "dead"
  /\ UNCHANGED <<state, refused, rxTimeout, queue, waits, unacked, busy, age>>

---------------------------------------------------------------------------
(* What arrives.                                                           *)

Arrives == Open /\ link = "up"

\* AsyncClient::_sent: _onAck is called only when nothing is left unacked.
Acked ==
  /\ Arrives
  /\ \E n \in 1..unacked :
       IF n = unacked
       THEN handleQueue(queue, 0, waits, FALSE, [age EXCEPT !.rx = 0])
       ELSE /\ unacked' = unacked - n /\ age' = [age EXCEPT !.rx = 0]
            /\ UNCHANGED <<queue, waits, busy>>
  /\ UNCHANGED <<link, state, refused, rxTimeout>>

\* _recv and _onData: ages after something has been received.
Heard == [age EXCEPT !.rx = 0, !.server = 0]

\* CONNACK: the TCP timeout is switched off whatever it says.  When it is
\* positive, _onConnAck, onConnect: SUBSCRIBE and the settings are queued.
ConnAck ==
  /\ Arrives /\ state = "CONNECTING" /\ ~refused
  /\ rxTimeout' = FALSE
  /\ \/ /\ state' = "CONNECTED" /\ UNCHANGED refused
        /\ handleQueue(<<"confirmed", "plain">>, unacked, FALSE, busy, Heard)
     \/ /\ CanRefuse /\ refused' = TRUE
        /\ age' = Heard
        /\ UNCHANGED <<state, queue, waits, unacked, busy>>
  /\ UNCHANGED link

\* SUBACK, PUBREL: the head is released.
Confirmation ==
  /\ Arrives /\ waits
  /\ handleQueue(queue, unacked, FALSE, busy, Heard)
  /\ UNCHANGED <<link, state, refused, rxTimeout>>

\* PUBLISH: a publication or an acknowledgement is queued.
Command ==
  /\ Arrives /\ state = "CONNECTED" /\ Len(queue) < MaxQueue
  /\ \E p \in {"plain", "confirmed"} : handleQueue(Append(queue, p), unacked, waits, busy, Heard)
  /\ UNCHANGED <<link, state, refused, rxTimeout>>

\* PINGRESP: _onPingResp.  There may be more to come, for the other pings.
PingResp ==
  /\ Arrives /\ state = "CONNECTED" /\ age.asked # NoPing /\ Len(queue) < MaxQueue
  /\ \E m \in {0, age.more} :
       age' = [Heard EXCEPT !.ping = NoPing, !.more = m,
                            !.asked = IF age.more = 1 THEN 0 ELSE NoPing]
  /\ UNCHANGED <<link, state, refused, rxTimeout, queue, waits, unacked, busy>>

---------------------------------------------------------------------------
(* One poll: AsyncClient::_poll and AsyncMqttClient::_onPoll.              *)

Older(n, last) == IF n = NoPing \/ n = last THEN n ELSE n + 1

Aged == [client |-> Older(age.client, PingTimeout),
         server |-> Older(age.server, PingAfter),
         sent   |-> Older(age.sent, AckTimeout),
         rx     |-> Older(age.rx, RxTimeout),
         ping   |-> Older(age.ping, PingTimeout),
         asked  |-> Older(age.asked, PingTimeout + 1),
         more   |-> age.more]

AckTooLate == busy /\ Aged.sent >= AckTimeout
RxTooLate  == rxTimeout /\ Aged.rx >= RxTimeout
PingTooLate == Aged.ping # NoPing /\ Aged.ping >= PingTimeout

\* Mutation: only the broker's silence is looked at.
PingDueForServer ==
  state = "CONNECTED" /\ Aged.ping = NoPing /\ Aged.server >= PingAfter

PingDue ==
  /\ state = "CONNECTED" /\ Aged.ping = NoPing
  /\ Aged.client >= PingAfter \/ Aged.server >= PingAfter

\* The timeout callback is not set: this poll does nothing else.
PollAckTimeout ==
  /\ Open /\ AckTooLate
  /\ busy' = FALSE /\ age' = Aged
  /\ UNCHANGED <<link, state, refused, rxTimeout, queue, waits, unacked>>

PollCloses ==
  /\ Open /\ ~AckTooLate
  /\ RxTooLate \/ PingTooLate
  /\ Close(Aged)

PollSends ==
  /\ Open /\ ~AckTooLate /\ ~RxTooLate /\ ~PingTooLate
  /\ IF PingDue
     THEN handleQueue(Append(queue, "ping"), unacked, waits, busy,
                      [Aged EXCEPT !.ping = 0])
     ELSE handleQueue(queue, unacked, waits, busy, Aged)
  /\ UNCHANGED <<link, state, refused, rxTimeout>>

Poll == PollAckTimeout \/ PollCloses \/ PollSends

Next ==
  \/ TcpConnects \/ PeerCloses \/ RetransmissionGivesUp \/ LinkDies
  \/ Acked \/ ConnAck \/ Confirmation \/ Command \/ PingResp
  \/ PollAckTimeout \/ PollCloses \/ PollSends

Spec == Init /\ [][Next]_vars

\* lwIP polls every open connection.
FairSpec == Spec /\ WF_vars(Poll)

---------------------------------------------------------------------------
TypeOK ==
  /\ link \in {"up", "dead"}
  /\ state \in {"DISCONNECTED", "CONNECTING", "CONNECTED"}
  /\ refused \in BOOLEAN /\ rxTimeout \in BOOLEAN
  /\ queue \in Seq(Packet) /\ waits \in BOOLEAN
  /\ unacked \in 0..Room /\ busy \in BOOLEAN
  /\ age \in Ages

\* The broker never has reason to give the client up: unless something is
\* stuck in the queue, no more than the ping interval passes without a packet
\* from the client, although a poll that finds an acknowledgement late does
\* nothing else (ESPAsyncTCP.cpp:674, AsyncMqttClient.cpp:338).
PingInTime ==
  state = "CONNECTED" /\ queue = <<>> => age.client <= PingAfter

\* "if there is too much time the client has sent a ping request without a
\* response, disconnect client" (AsyncMqttClient.cpp:332): no connection is
\* kept on which a ping has waited longer than the ping timeout.
UnansweredPingCloses == state = "CONNECTED" => age.asked <= PingTimeout

\* "to avoid half open connections" (AsyncMqttClient.cpp:332): a connection
\* over which nothing arrives any more is closed in the end, even if lwIP
\* never gives up.
HalfOpenEnds == (Open /\ link = "dead") ~> ~Open
=============================================================================
