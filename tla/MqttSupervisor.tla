--------------------------- MODULE MqttSupervisor ---------------------------
(***************************************************************************)
(* Who brings the MQTT connection back.  Three parties act on it:          *)
(*   - the Wi-Fi event handlers onWifiConnect and onWifiDisconnect         *)
(*     (src/src/main.cpp), called some time after the station changed;     *)
(*   - the two-second reconnect timer of MqttClientForIR                   *)
(*     (src/src/MqttMessages.cpp), armed when a connection is lost;        *)
(*   - the state machine of AsyncMqttClient over the TCP client            *)
(*     (lib/async-mqtt-client-develop, lib/ESPAsyncTCP-master).            *)
(* All of them run to completion on one core: a handler is one action.     *)
(***************************************************************************)
EXTENDS Naturals, Sequences

CONSTANTS
  Failures,   \* synchronous failures of AsyncClient::connect considered
  MaxEvents   \* bound: Wi-Fi events that wait for their handler

ASSUME SupervisorAssumption ==
  /\ Failures \subseteq {"noroute", "nomem"}
  /\ MaxEvents \in Nat

VARIABLES
  wifi,      \* WiFi.isConnected()
  events,    \* station events whose handler has not run yet
  mqtt,      \* AsyncMqttClient::_state
  dns,       \* name lookups under way for the TCP client
  syn,       \* TCP connections requested and not answered
  pcb,       \* AsyncClient::_pcb # NULL: an established TCP connection
  timer      \* m_mqttReconnectTimer is armed

tcp  == <<dns, syn, pcb>>
vars == <<wifi, events, mqtt, dns, syn, pcb, timer>>

Event == {"GotIP", "Disconnected"}
State == {"CONNECTING", "CONNECTED", "DISCONNECTED"}

Init ==
  /\ wifi = FALSE
  /\ events = <<>>
  /\ mqtt = "DISCONNECTED"
  /\ dns = 0 /\ syn = 0 /\ pcb = FALSE
  /\ timer = FALSE

---------------------------------------------------------------------------
(* The station: the SDK changes the status and queues the event.           *)

Queue(e) == Len(events) < MaxEvents /\ events' = Append(events, e)

WifiUp ==
  /\ ~wifi /\ wifi' = TRUE
  /\ Queue("GotIP")
  /\ UNCHANGED <<mqtt, tcp, timer>>

WifiDown ==
  /\ wifi /\ wifi' = FALSE
  /\ Queue("Disconnected")
  /\ UNCHANGED <<mqtt, tcp, timer>>

\* Every failed attempt of the station to associate is reported once more.
WifiRetryFails ==
  /\ ~wifi
  /\ Queue("Disconnected")
  /\ UNCHANGED <<wifi, mqtt, tcp, timer>>

---------------------------------------------------------------------------
(* AsyncClient.                                                            *)

\* The reasons for which the call cannot even start a connection.
CannotStart ==
  \/ "nomem" \in Failures
  \/ "noroute" \in Failures /\ ~wifi

\* AsyncClient::connect(IPAddress, port).
connectIP ==
  \/ ~pcb /\ syn' = syn + 1 /\ UNCHANGED pcb
  \/ (pcb \/ CannotStart) /\ UNCHANGED <<syn, pcb>>

\* AsyncClient::connect(host, port): an address or a name to look up.
connectHost ==
  \/ connectIP /\ UNCHANGED dns
  \/ dns' = dns + 1 /\ UNCHANGED <<syn, pcb>>

(* AsyncMqttClient.                                                        *)

\* Mutation: a second connect() while one is under way.
connectAlways == mqtt' = "CONNECTING" /\ connectHost

\* connect(): the result of the TCP client's connect is not looked at.
connect ==
  IF mqtt = "DISCONNECTED"
  THEN mqtt' = "CONNECTING" /\ connectHost
  ELSE UNCHANGED <<mqtt, tcp>>

\* Mutation: the connection is simply lost.
rearmNever == UNCHANGED timer

\* Mutation: the timer is armed whether or not there is a network.
rearmAlways == timer' = TRUE

\* MqttClientForIR::onDisconnect.
rearm == timer' = (timer \/ wifi)

\* AsyncMqttClient::_onDisconnect and the callback it runs.
onDisconnect == mqtt' = "DISCONNECTED" /\ rearm

---------------------------------------------------------------------------
(* The handlers in main.cpp and the timer.                                 *)

Handle(e) == events # <<>> /\ Head(events) = e /\ events' = Tail(events)

onWifiConnect ==
  /\ Handle("GotIP")
  /\ connect
  /\ UNCHANGED <<wifi, timer>>

onWifiDisconnect ==
  /\ Handle("Disconnected")
  /\ timer' = FALSE
  /\ UNCHANGED <<wifi, mqtt, tcp>>

\* Mutation: the timer's callback does not connect.
TimerFiresIdle ==
  /\ timer /\ timer' = FALSE
  /\ UNCHANGED <<wifi, events, mqtt, tcp>>

TimerFires ==
  /\ timer /\ timer' = FALSE
  /\ connect
  /\ UNCHANGED <<wifi, events>>

---------------------------------------------------------------------------
(* What the network answers.                                               *)

DnsFound ==
  /\ dns > 0 /\ dns' = dns - 1
  /\ connectIP
  /\ UNCHANGED <<wifi, events, mqtt, timer>>

\* Mutation: a failed lookup is answered twice.
DnsFailsTwice ==
  /\ dns > 0 /\ dns' = dns - 2
  /\ onDisconnect
  /\ UNCHANGED <<wifi, events, syn, pcb>>

DnsFails ==
  /\ dns > 0 /\ dns' = dns - 1
  /\ onDisconnect
  /\ UNCHANGED <<wifi, events, syn, pcb>>

\* AsyncClient::_connected, then AsyncMqttClient::_onConnect: the state
\* remains CONNECTING until the broker answers.
TcpConnected ==
  /\ syn > 0 /\ syn' = syn - 1
  /\ pcb' = TRUE
  /\ UNCHANGED <<wifi, events, mqtt, dns, timer>>

\* Mutation: a refused connection is not reported to the client.
TcpRefusedSilently ==
  /\ syn > 0 /\ syn' = syn - 1
  /\ UNCHANGED <<wifi, events, mqtt, dns, pcb, timer>>

\* AsyncClient::_error before the connection is established.
TcpRefused ==
  /\ syn > 0 /\ syn' = syn - 1
  /\ onDisconnect
  /\ UNCHANGED <<wifi, events, dns, pcb>>

\* Mutation: the end of a connection is not reported to the client.
TcpLostSilently ==
  /\ pcb /\ pcb' = FALSE
  /\ UNCHANGED <<wifi, events, mqtt, dns, syn, timer>>

\* The connection ends: peer, error, RX timeout while the CONNACK is awaited,
\* or AsyncMqttClient::disconnect(true).
TcpLost ==
  /\ pcb /\ pcb' = FALSE
  /\ onDisconnect
  /\ UNCHANGED <<wifi, events, dns, syn>>

\* _onConnAck with return code 0.
ConnAck ==
  /\ pcb /\ mqtt = "CONNECTING"
  /\ mqtt' = "CONNECTED"
  /\ UNCHANGED <<wifi, events, tcp, timer>>

\* hang(), the serial command 'r' or a power cycle.
Reset ==
  /\ wifi' = FALSE
  /\ events' = <<>>
  /\ mqtt' = "DISCONNECTED"
  /\ dns' = 0 /\ syn' = 0 /\ pcb' = FALSE
  /\ timer' = FALSE

Next ==
  \/ WifiUp \/ WifiDown \/ WifiRetryFails
  \/ onWifiConnect \/ onWifiDisconnect \/ TimerFires
  \/ DnsFound \/ DnsFails
  \/ TcpConnected \/ TcpRefused \/ TcpLost
  \/ ConnAck
  \/ Reset

Spec == Init /\ [][Next]_vars

\* The event loop runs every handler and timer that is due; a lookup or a
\* connection request is answered (lwIP gives up by itself), and a server
\* asked again and again answers in the end.
Fairness ==
  /\ WF_vars(onWifiConnect) /\ WF_vars(onWifiDisconnect) /\ WF_vars(TimerFires)
  /\ WF_vars(DnsFound \/ DnsFails) /\ WF_vars(TcpConnected \/ TcpRefused)
  /\ SF_vars(DnsFound) /\ SF_vars(TcpConnected) /\ SF_vars(ConnAck)

FairSpec == Spec /\ Fairness

---------------------------------------------------------------------------
TypeOK ==
  /\ wifi \in BOOLEAN
  /\ events \in Seq(Event)
  /\ mqtt \in State
  /\ dns \in Nat /\ syn \in Nat
  /\ pcb \in BOOLEAN
  /\ timer \in BOOLEAN

\* The last event that waits for its handler.
LastWaiting(e) == events # <<>> /\ events[Len(events)] = e

\* A client that has lost its connection while there is a network is never
\* forgotten: the timer is armed or a GotIP event is still to be handled,
\* whatever the interleaving of events, timer and TCP callbacks.
NoOrphan ==
  mqtt = "DISCONNECTED" /\ wifi => timer \/ LastWaiting("GotIP")

\* "ensure we don't reconnect to MQTT while reconnecting to Wi-Fi"
\* (MqttMessages.cpp:98): a timer that is still armed without a network is
\* about to be detached by the pending Disconnected event.
NoStrayTimer ==
  timer /\ ~wifi => LastWaiting("Disconnected")

Sockets == dns + syn + (IF pcb THEN 1 ELSE 0)

\* GotIP and the timer may both ask for a connection, in any order and at
\* any time: there is never more than one in the making or established.
OneConnection == Sockets <= 1

\* A client that says CONNECTED has a connection and one that says
\* DISCONNECTED holds none.
StateMatchesSocket ==
  /\ mqtt = "CONNECTED" => pcb
  /\ mqtt = "DISCONNECTED" => Sockets = 0

\* _onDisconnect is called anyway (AsyncMqttClient.cpp:235): a client that
\* is CONNECTING waits for something that will answer.
ConnectingHasAttempt ==
  mqtt = "CONNECTING" => Sockets > 0

\* How far the connection has come.
Stage ==
  IF mqtt = "CONNECTED" THEN "session"
  ELSE IF pcb THEN "open"
  ELSE IF syn > 0 THEN "request"
  ELSE IF dns > 0 THEN "lookup"
  ELSE "none"

Link == INSTANCE Reconnector WITH network <- wifi, link <- Stage

\* The handlers, the timer and the two clients together make one link at a
\* time, step by step, and begin again as long as there is a network.
KeepsLink == Link!FairSpec

\* If the network stays, the client gets connected, and again after each
\* loss.
Reconnects ==
  (<>[]wifi) => []<>(mqtt = "CONNECTED")
=============================================================================
