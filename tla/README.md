# WhirlpoolAcControl in TLA+

This directory is a formal model of the firmware in the repository: an ESP8266
that drives a Whirlpool air conditioner through its infrared receiver and is
controlled over MQTT, a small REST interface and a serial console.  It contains
TLA+ modules, TLC configurations and proofs checked by TLAPS.  `PROJECT.json`
lists the components, the runs, the mutants that show that each property can
fail, the lines each definition stands for, the findings and the theorems.
Paths below are relative to the repository's root.

## 1. Inventory: the system's parts

| Part | Source | State | Operations | What makes it correct |
|---|---|---|---|---|
| Remote-control state | `src/Whirlpool_YJ1B.*` | nine bytes, `m_data`, as a union of bit fields | `set...`, `get...`, `getJson` | every field in range, no field spills into another, the frame says what the object says |
| Commit and frame | `src/main.cpp` `onCommit`, IRremote | the same object, the time of day | write the clock, send 68 bits | a receiver reads back the settings and the time |
| Command interpreter | `src/MqttMessages.*` `MqttClientForIR` | pointer to the object, reconnect timer | `onMessage`, nine handlers, `publish...`, `onConnect`, `onDisconnect` | the retained topics show the object; one command changes one setting |
| MQTT client | `lib/async-mqtt-client-develop` | connection state, queue of packets, progress of its head, pending QoS 2 identifiers | connect, publish, subscribe, handlers of the packets it receives | nothing blocks the queue, nothing acknowledged is lost, QoS 2 means once |
| TCP client | `lib/ESPAsyncTCP-master` | protocol control block, timeouts | connect, name lookup, callbacks | one connection; every end of one is reported |
| Wi-Fi supervision | `src/main.cpp`, `src/MqttMessages.cpp` | station status, queued events, timer | `onWifiConnect`, `onWifiDisconnect`, timer, `onDisconnect` | the client always comes back |
| REST and serial | `src/main.cpp` | none | three routes, commands `1`, `r`, ... | same object as MQTT |
| Boot and configuration | `src/main.cpp`, `src/Config.*`, `src/WifiParameters.*` | files, parameters | `setup`, `hang` | the parts start in a usable order; the device gets to `loop()` |
| Wi-Fi portal | `lib/WiFiManager-master` | Wi-Fi mode, station, credentials in flash, the loop flags `connect` and `abort` | `autoConnect`, `startConfigPortal`, the requests of a visitor | it ends with a station and no access point; credentials are not lost by accident |
| Environment sensor | `src/DHTSensor.*`, `lib/DHTNew-master` | last reading, its time and type | `read`, getters | a reading is never older than it claims |
| Heartbeat LED, syslog | `src/main.cpp`, `lib/Syslog-master` | a pin; none | `blink`; `log` | none that other parts depend on |

How they interact.  Everything runs on one core without preemption: the Arduino
`loop()` (REST, serial, LED, sensor), `setup()` with the portal inside it, the Wi-Fi event handlers, the `Ticker` and lwIP's
callbacks each run to completion.  So a handler is one action, and the
interesting interleavings are those of whole handlers: *which* one runs first,
and what another one changed since the state it was scheduled for.  The MQTT
handlers, the REST route and the serial console share one `WhirlpoolYJ1B`
object; the Wi-Fi handlers, the timer and the TCP callbacks share one
`AsyncMqttClient`.  The Wi-Fi handlers are installed before `autoConnect` blocks
in the portal, so MQTT, and with it commits, may be live while `setup()` is not finished.

Hard behaviours: Wi-Fi events that are handled late, a timer racing them,
connections that break anywhere, a queue that outlives a connection, packets
written in parts into a full buffer, repeated QoS 2 messages, payloads that
arrive in fragments, a byte stream that TCP cuts anywhere, bit fields narrower than
what is stored in them, a boot that a visitor, the router or a power cut may disturb at
any step, a clock that wraps.
`PROJECT.json` lists each of these hazards at its line.

## 2. Modules

| Module | Models | Kind |
|---|---|---|
| `WhirlpoolYJ1B` | the object, the frame, and the receiver of `Documentation/rPI/Receive` | operators |
| `WhirlpoolYJ1BProofs` | the receiver reads from a frame what the object holds: the lemma `FieldsArrive` | proofs |
| `MqttClientForIR` | what each message changes and publishes | operators |
| `MqttClientForIRProofs` | what a message can do at all: the lemma `Effect` on every handler | proofs |
| `MqttCommands` | interpreter, object and infrared sender on a perfect transport, payloads in fragments, commits | state machine |
| `MqttCommandsProofs` | theorems about `MqttCommands` | proofs |
| `AsyncMqttClient` | the queue of outgoing packets | operators |
| `CommandDelivery` | what the conversation promises about commands | abstract specification |
| `MqttSession` | interpreter + queue + two streams + broker; implements `CommandDelivery` | composition |
| `MqttSessionProofs` | theorems about `MqttSession`, the refinement among them, and about `CommandDelivery` | proofs |
| `MqttParser` | the incoming bytes: `_onData` and the packet classes | state machine |
| `MqttParserProofs` | theorems about `MqttParser` | proofs |
| `Reconnector` | one link, made step by step, tried again | abstract specification |
| `MqttSupervisor` | Wi-Fi events, timer, client and TCP state; implements `Reconnector` | state machine |
| `MqttSupervisorProofs` | theorems about `MqttSupervisor`, the refinement among them | proofs |
| `KeepAlive` | the timers of both clients over a link that may go silent | state machine |
| `KeepAliveProofs` | theorems about `KeepAlive` | proofs |
| `EnvironmentSensor` | the driver DHTNEW and the object `DHTSensor` | operators |
| `WiFiManager` | `autoConnect`, the portal, the station beside it | actions |
| `Firmware` | `setup()` and `loop()` around the two | composition |
| `FirmwareProofs` | theorems about `Firmware` | proofs |
| `MC...` | small instances of each state machine | constants only |

`MqttCommands` and `MqttSession` use the same operators for the
object and its handlers, so a mistake in a handler is seen at both levels.
`MqttSupervisor` decides *when* connections are made and lost; `MqttSession`
takes them as given (`TcpConnects`, `TcpDrops` at any time) and follows what
happens in them; `KeepAlive` decides when a silent connection is given up, which
the other two leave open; `MqttParser` shows that the bytes of a stream cut anywhere become the
whole packets that `MqttSession` receives one by one.  `Firmware` is the frame around all of
them: of MQTT it has only what the Wi-Fi handlers last told it, to connect or to let go, which
is where `MqttSupervisor` begins.

### 2.1 WhirlpoolYJ1B

The record `data` has a field for each bit field of `WhirlpoolYJ1BData`; the
set `WhirlpoolYJ1BData` gives each its width.  `setClockHours` and the other
clock setters do the code's arithmetic, `Raw` places the fields in the nine
bytes as the union does, `Frame` puts the bits on air in the order of
`sendPulseDistanceWidthRawData`, and `translateToByte` and `printCommon` are the
Python receiver.

### 2.2 MqttClientForIR and MqttCommands

`parseMessage` and `proceedCommand` choose the handler; a handler is an operator
from the object to a record of the new object, the publications made, and
whether a commit or an exception ended it.  Words are compared after `tolower`,
as in the code, so the capitalised keys of `fanMap` and `modeMap` are never
found.  In `MqttCommands` a message arrives whole or cut (`Split`), each
fragment is one `onMessage`, and a local commit (REST or serial) or a restart may come in
between.  A commit, local or by message, is `onCommit` of `main.cpp`: it writes the clock into the
object and sends it; `air` is the frame just sent and the time it was sent for.

`TopicsTellData` says that the retained topics show the object, and leaves out two whose content is
wrong in itself: `fan`, which `onFan` does not publish, and `mode`, which says "Cool" for three other
modes (section 5).  `FrameTellsSettings` and `FrameTellsDial` say that encoder and decoder, written
separately in C++ and Python, agree on every field after any history of commands;
`SettingsInRange` that no history leaves the fifteen temperatures and five modes.

### 2.3 AsyncMqttClient and MqttSession

`queue` is the list from `_head` to `_tail` and `sent` is `_sent`; `handleQueue`
is `_handleQueue`, with `Turn` as the body of its loop.  The byte stream is
modelled in *units*: a packet has `Size` units, the TCP send buffer has `Room`
of them, and a packet that does not fit is written in parts.  A broker that
follows MQTT 3.1.1 with clean sessions is external: it answers, retains, delivers
commands and may repeat them.  `TcpDrops` may happen at any time; both streams are lost,
the client keeps what `_clearQueue(true)` keeps, and the broker what it retained.

`Restarts` is a restart of the program at any moment, whatever caused it (a handler that throws is one cause, so
`onPublish` has no such outcome): the broker keeps what is retained, the
client nothing.  `Published` is `publish()` for each of a handler's publications, the last of
which may find no memory; `refused` remembers the topics this happened to.

`issued`, `applied` and `acked` are history variables: the commands with their quality
of service, the numbers of those whose handler ran, in order, and of those whose flow
the broker has completed.  They are the state of `CommandDelivery`, an abstract specification
with three actions: a command is issued, handled (a new one after all that were
handled before, an old one only with QoS 1), completed (only if it was handled).
`CommandsDelivered` says that `MqttSession` implements it.

### 2.4 MqttSupervisor

`wifi` is the station's status and `events` the queue of events whose handler
has not run: a handler may find a status other than the one it was queued for.
`mqtt`, `dns`, `syn` and `pcb` are the client's state and the lookups, attempts
and connections under it; `timer` the reconnect timer.  `Failures` chooses the
ways in which `AsyncClient::connect` may fail at once: `noroute` (no network
when the address is a literal, as in `data/config.json`) and `nomem`.

`Stage` maps this state to that of `Reconnector`, a link that goes from `none` through
`lookup`, `request` and `open` to `session` and may fail anywhere.  `KeepsLink` says that
the supervision implements it, with its fairness: an attempt is begun as long as
there is a network, and answered.

### 2.5 KeepAlive

A tick of the model is one poll of lwIP, half a second.  `age` holds the time
since each of `_lastClientActivity`, `_lastServerActivity`, `_pcb_sent_at`,
`_rx_last_packet` and `_lastPingRequestTime`, each counted up to the largest
value that it is compared with.  `PollAckTimeout`, `PollCloses` and `PollSends` are the
three ways through `AsyncClient::_poll` and `_onPoll`; `handleQueue` is again
`_handleQueue`, here with packets that are written whole or not at all, into a
send buffer of `Room` packets that only the peer's acknowledgements empty.  In
`link = "dead"` nothing arrives any more.  `asked` and `more` are history: how long at least
the broker has owed the answer to a written ping, and whether it owes others too.

`PingInTime` says that the ping keeps up with the interval although a poll that finds
an acknowledgement late skips it.  `UnansweredPingCloses` is what the comment on the ping timeout
claims, and fails; `HalfOpenEnds` says that a dead connection ends all the same: pings pile up until
one finds the buffer full, and that one stays outstanding.

### 2.6 MqttParser

`stream` holds the bytes that the peer has sent, `segment` what the running `_onData` has not
read yet; `Receive` cuts a segment anywhere.  `bufferState`, `packet`, `lengthBuffer`,
`remainingLength` and `topicBuffer` are the parser's place: `_parsingInformation`,
`_currentParsedPacket` and `_remainingLengthBuffer`.  `Turn` is one iteration of the loop of
`_onData`, with one action per buffer state and packet class.  A byte is a record: its
value as a number and its reading as the first byte of a packet.  The length of numbers is kept
(a remaining length of two bytes, identifiers of two bytes, a length that wraps), scaled by `Base`.

`calls` is a history of what the callbacks were told; `Joining` adds a part of a payload to the
message it goes on with.  `HandledInOrder` compares it with what the peer sent, `AllHandled` says
that the parser is in step again whenever everything was read.  The position in `_remainingLengthBuffer` survives a
connection that breaks inside a remaining length (`_clear` does not reset it); the
invariants hold all the same, because the first packet of the next connection is a
CONNACK: the bytes that are left over only make its length wrong, which no CONNACK looks at.  They cannot overrun
the four bytes either (`LengthFits`): at most three are left, and a CONNACK has a length of one.
All of this is for a peer that speaks MQTT.  `violated` remembers that it does not, and
`PacketPresent` says that nothing else brings the parser out of step.  The actions say what a
parser out of step does as far as the code defines it; `Crash` stands for the calls it does not define, among
them a payload of which more than its length has been read (an old object after a second violation).

### 2.7 EnvironmentSensor, WiFiManager and Firmware

`EnvironmentSensor` has `read` as an operator: the set of pairs (driver, result) in which
`DHTNEW::read` may end, given the sensor that is connected and what comes back on the data line.
`Kept` is what `DHTSensor::loop` keeps of it.

`WiFiManager` follows `pc` through `setupWifi`: `autoConnect` tries the stored
network, then opens the portal, whose loop serves one visitor's request per pass.
`mode` is the Wi-Fi mode, `link` the station and `stored` the configuration in flash.  The stack
joins, fails and drops beside it.  Each change of the station that a handler is installed for is put
into `events`; `onWifiConnect` and `onWifiDisconnect` take the events out, any time later, and `told`
is what the last of them told MQTT.  A failed attempt switches the station off, which is reported when
the station had joined.  `ClosePortal` and `LastRequest` are the two outcomes of
`shutdownConfigPortal`, which serves one more request: `/restart` and `/erase` act at once.

`Firmware` puts both into `setup()` and `loop()`.  `Restarted` is a restart for whatever reason: only
`stored` and `config` survive.  `Tick` and `LoopPass` are `loop()`: at most `MaxGap` ticks pass between
two passes, and `clock` is `millis()`, which wraps and may have any value when `loop()` begins.
`elapsed`, which does not wrap, is a history variable: the true time since the last read.

`MqttKnowsLink` relates what MQTT will have been told, once the handlers that wait have run, to
the link, through every stage of the portal; `ReachesLoop` says that it *is* told in the end;
`LoopIsStation` says that no way out of it leaves the access point open or the station off;
`NeverWaitsAgain` and `ReadsSpaced` relate three clocks, the sensor's, the driver's and the true one.

## 3. Runs

| Run | Instance | Shows |
|---|---|---|
| `mqtt_commands` | one or two messages per handler, refused and overlong ones, cut ones, two times, local commits, restarts | topics but `fan` and `mode` follow the object; one setting per fragment; the receiver reads what was set; settings in range |
| `mqtt_supervisor` | six pending events, no synchronous failure | nobody is forgotten, one connection, comes back, implements `Reconnector` |
| `mqtt_session` | two commands of any QoS, three connections, room 3, one repetition, one refused publication, restarts | mirror, no blocked queue, implements `CommandDelivery` |
| `mqtt_parser` | two connections, three packets or violations in the first, two in the second, any segments | everything read once and in order, nothing left over |
| `keep_alive` | intervals 2 < 3 < 4 < 6, room 3, two packets waiting | ping in time, half-open connections end |
| `firmware` | one mistyped network, three waiting events, two disturbances, `Wrap` 7, read interval 3, gap 2 | boot, portal, credentials, sensor interval |
| `half_of_day` | as `mqtt_commands` | **fails**: AM/PM bit never cleared |
| `message_fragments` | a temperature in two parts | **fails**: each part is a command |
| `connect_fails` | `noroute` | **fails**: CONNECTING for ever |
| `ping_unanswered` | as `keep_alive`, room 5 | **fails**: an unanswered ping is forgotten when the next is written |
| `refused_connack` | intervals 1 < 2 < 3 < 4, room 2, CONNECT may be refused | **fails**: CONNECTING for ever |
| `cut_packet` | two-unit status document | **fails**: a packet is never finished |

The failing runs are the findings of `PROJECT.json`; each checks one property
stated by a document, a comment or a test of the repository.

### Bounds, and why they are enough

- *Arguments.*  Only comparisons with 16, 30, 12 and 60 and the widths of the
  fields decide anything, so `MCMqttCommands` has values on both sides of each (fragments
  and `UP` take the temperature beyond both ends), values that set every bit, and a message for each
  branch of each handler.
- *`MaxEvents = 6`* in `mqtt_supervisor`.  Two losses and returns of the network, plus failed
  associations, wait behind an unhandled event.  The safety properties are
  proved without the bound.
- *`MaxConnects = 3`.*  A queue that survives one connection, is replayed in the
  second and gone in the third.
- *`MaxCommands = 2`, `Room = 3`.*  A command during the start-up publications
  and one behind it or while the buffer is full; identifiers of an earlier session meet
  those of a new one.
- *`Reported = {light}`*, with `status` in `cut_packet`.  One setting, or one and the document
  that repeats it; the nine settings share `onSwitch` and are distinguished in `MqttCommands`.
- *`MaxRetries = 1`, `MaxRefusals = 1`.*  A repeated PUBLISH or PUBREL, in each phase of a flow; one handler
  whose publications find no memory.
- *`Base = 4`, `LengthRange = 1024`, `MaxTopicLength = 2`* in `mqtt_parser`.  Messages of four bytes and more have a remaining
  length of two bytes, identifier 9 uses both of its bytes, and one topic is too long.  A
  second connection meets what the first left behind.  The safety properties are proved for
  every `Base`, every set of packets and every number of them.
- *`Wrap = 7`, `ReadRate = 3`, `MaxGap = 2`.*  The smallest counter that a pass in time cannot miss
  by a whole turn; in the code `Wrap` is 2^32 ms and the interval 20 s.  The safety properties
  are proved for all values with `ReadRate + MaxGap < Wrap`.
- *`MaxEvents = 3`* in `firmware`.  A join waits behind the loss before it, and its own loss behind both: a
  handler may find the station one or two changes further on.  The stack joins only when there is
  room for the event that ends the link too.  The safety properties are proved for every bound.
- *`MaxMeddling = 2`.*  A failed attempt followed by an exit, an erasure followed by a power cut, and
  every other pair.  The safety properties are proved without the bound.
- *`PingAfter`, `RxTimeout`, `PingTimeout`, `AckTimeout`.*  Scaled down, in the order of
  the code's values: 5 s (acknowledgement) < 10.5 s (ping) < 15 s (receive) < 30 s
  (ping timeout).  The safety properties are proved for any values with the ping
  interval below the ping timeout.
- *`MaxQueue = 2`, `Room = 3`* in `keep_alive`.  The buffer can be filled by commands, by
  pings, or by both, with a packet that waits for its confirmation in front.  `ping_unanswered` has room for
  five, so that pings are really written; with a `Written` that leaves `ping` alone its property holds there.

`MqttSession` runs without deadlock checking: when commands and connections are
used up and everything is quiet, the bounded instance stops; so does `MqttParser` when its peer
has sent all its packets.

### Fairness

`MqttSupervisor` assumes that queued events and an armed timer are handled
(the SDK's loop runs them; nothing in the firmware blocks it) and that an
attempt is answered: lwIP's own timers end every lookup and SYN.  Strong fairness
of success (`DnsFound`, `TcpConnected`, `ConnAck`) is an assumption on the
network: a server asked again and again answers in the end.  Nothing is
assumed about the Wi-Fi: `Reconnects` has "if the network stays" as premise.
`MqttSession` assumes that both ends read what arrives and that the client is
polled (lwIP polls twice a second), nothing about connections or commands.
`KeepAlive` assumes only that an open connection is polled (weak fairness of
`Poll`): not that lwIP's retransmissions ever give up, nor that a broker answers.
`Firmware` assumes that the program and time go on, that a handler whose event waits is run (the SDK
does so whenever the program yields) and, strongly, that a station which can join
again and again joins in the end (the stack retries by itself).  It assumes a visitor: while the
portal is open somebody, sooner or later, names the household network.  The code needs that, as the
portal has no time limit; without it `ReachesLoop` is false.

## 4. Proofs

`MqttSupervisorProofs` proves, for every `MaxEvents` and every set of
`Failures`, what `mqtt_supervisor` checks for one:

- `TypeCorrect`: `Spec => []TypeOK`.
- `Supervision`: `NoOrphan` and `NoStrayTimer` (`TimerHasReason` states the second alone).  They are not inductive:
  `onWifiDisconnect` stops the timer, and why a client that is left without one is not
  forgotten depends on what the *rest* of the queue holds.
  The strengthening is `LastEventIsTrue` (in the proof module): a network that is up and a
  `Disconnected` event that is being handled imply a `GotIP` behind it.
- `SingleConnection`: `OneConnection` and `StateMatchesSocket` (`StateIsTrue` states the second alone), which are
  inductive only together: `connect` may start a connection because a
  DISCONNECTED client holds none.
- `AttemptUnderWay`: if `Failures = {}` then `ConnectingHasAttempt`.  Without
  that premise it is false (`connect_fails`).
- `ImplementsReconnector`: `Spec => Link!Spec`.  Each action maps to one of `Reconnector` or to
  a stutter.  A name that is found while another connection exists would skip stages;
  `OneConnection` and `StateMatchesSocket` exclude it, so the step is proved
  under the invariant of `SingleConnection`.

`KeepAliveProofs` proves, for all timeouts with `PingAfter < PingTimeout`, every `Room`,
`CanRefuse` and `MaxQueue`:

- `TypeCorrect`: `Spec => []TypeOK`, with `unacked \in 0..Room`, which needs the guard
  of `_handleQueue`.
- `PingsInTime` (`PingInTime`), from the invariant `IInv`.  `PingInTime` is not inductive: a poll that finds an acknowledgement
  late lets the time since the last packet grow without a ping, so `Lately` adds
  that a connection which is busy is still *below* the interval, and that a late poll ends
  being busy; `Pending` adds that no ping is outstanding when the queue is empty, without
  which none would be sent.
  The lemma `Flush` carries the argument: `_handleQueue` either leaves queue,
  ages and `busy` alone or has just sent something and forgotten the ping.

`WhirlpoolYJ1BProofs` proves `FieldsArrive`: from the frame of any object whose fields are in their widths the receiver
reads every field.  Bits are `div` and `mod`: the lemmas `Octet` and `RawBytes` say that eight bits put into a byte are
read out again, so that a field that is in its width spills into no other.

`MqttClientForIRProofs` proves `Effect`, one lemma per handler: a message publishes nothing and changes nothing, or
publishes the clock (`commited`), or changes one setting, the text of which it publishes together with
the status document, and no other text.  `MqttCommandsProofs` uses it for

- `TypeCorrect`, `TopicsFollow` (`TopicsTellData`) and `OneAtATime` (`OneSettingPerFragment`).
  It is proved with the mode topic (`Mirrored`), which shows the text that the code gives for the mode, and
  is inductive only because of the half of `Effect` that says which texts do *not* change.
- `RangeKept` (`SettingsInRange`), `SettingsArrive` (`FrameTellsSettings`) and `DialArrives`
  (`FrameTellsDial`): every setter keeps its field in its width, and a frame on the air is the one of the
  object as it is (`AirTells`).

`MqttSessionProofs` proves, for every set of commands, every size of packets and of the send buffer, and all
bounds, what `mqtt_session` checks for one instance:

- `TypeCorrect`: `Spec => []TypeOK`.
- `ConfirmationAlwaysComes` (`ConfirmationComes`): the head of the queue never waits for an answer
  that is not under way.
- `DeliveryImplemented`: `Spec => Delivery!Spec`, the refinement of `CommandDelivery`.
- `Promises`: whatever implements `CommandDelivery` handles no command but a QoS 1 command twice, completes none
  that was not handled, and handles commands in the order of their issue.  `SessionPromises` is the same of `MqttSession`.
- `MirrorHolds` (`Mirror`): while the client is connected, what the broker retains of each topic, or will
  when stream and queue are read, tells the object.

They have one hypothesis about the constant `Size`, `SizeIsLength`: no packet is empty, and `release()` does not
change a packet's length.  Every constructor in `Packets/Out` writes at least a fixed header, and
`release()` only sets `_released` (`OutPacket.cpp`).  It quantifies over every packet there can be,
too many for TLC to evaluate, so it stands in the theorems and not in an `ASSUME`; the `Size` of each instance satisfies it.

The argument has four layers.

1. *The loop of `_handleQueue`.*  `Loop` is its invariant: how much of the queue remains, how far the head is
   written, which unit on the wire belongs to which packet, and that every packet that left the queue went through the
   wire first.  A recursive function describes the loop; that the invariant holds after each turn is an induction,
   which `NatSetInduction` does over a *set* of turns, from the well-foundedness of `<` alone.
2. *Types and heads.*  `Typed` is inductive together with `Progress`: a packet that is written completely and is still
   in the queue is of a kind that waits (SUBSCRIBE, PUBREC).  Without it `_sent` could exceed the length of the
   head after `_clearQueue`.  `HeadTravels` says where the answer to such a head is.
3. *Phases and books.*  `Phases` divides a connection into `Asking`, `Asked`, `Answered`, `InSession` and
   `Offline`: CONNECT is the first packet on the wire and is answered once, so no command of an earlier session is
   mistaken for one of this session.  `Books` relates the broker's flows, both streams, the queue, the client's list of pending
   identifiers and the history: each number has one flow and one identifier (`OneNumber`, `OneFlow`), a message in
   the stream is newer than all before it or repeats one of them (`Order`), and an identifier is pending exactly
   if the command that carries it now was handled (`Twos`).
   `Accountable` is their conjunction with the types; under it each action maps to one of `CommandDelivery` or to a
   stutter.  In `CommandDelivery`, that a new command comes after *all* that were handled is what makes the
   promises inductive.
4. *Last words.*  `Mirrored` is `Mirror` with the last publication of a topic as a witness in place of a `CHOOSE`; it
   is inductive under `Phases` (the start-up publications follow CONNACK, and only then is a
   client connected) and with `Retaining`, which types what is retained.  `_handleQueue` moves packets from queue
   to stream and lets no publication overtake another (`Moved`).

`FirmwareProofs` proves, for all intervals with `ReadRate + MaxGap < Wrap`, any set of mistyped
networks and any number of disturbances:

- `TypeCorrect`: `Spec => []TypeOK`.
- `WifiCorrect` (`MqttKnowsLink`), for every `MaxEvents`.  The lemmas `Reported` and `Handled` say that an
  event that is queued is the last word and that a handler that runs leaves it as it was; the rest is that each step
  which makes or ends the link queues the event for it.  `WifiInv` adds that there is no link before the
  handlers are installed, which only the stages of `mode` show.
- `LoopAsStation` (`LoopIsStation`).  `StationInv` adds what the mode is in the stages of `autoConnect` before
  the portal, without which `StoredJoins` could reach `loop()` in another mode.
- `CredentialsKept` (`KeepsCredentials`), action by action.
- `SensorCorrect` (`EnvironmentTold`), from lemmas on the pairs that `read` may return.
- `ReadsInTime`: `NeverWaitsAgain` and `ReadsSpaced` (`NeverTooSoon` states the first alone).  The invariant `TimeInv` says that `clock` is
  `lastTime + elapsed`, perhaps less one `Wrap`, that `elapsed <= ReadRate + gap`, and that the
  driver's `lastRead` is `lastTime`; with `ReadRate + MaxGap < Wrap` the lemma `SinceIsElapsed` follows:
  the subtraction that wraps gives the true time.  Without a bound on the gap both
  properties are false: a pass that comes a whole turn of the counter late finds the time not yet due.

`MqttParserProofs` proves, for every topic buffer, every set of packets a broker may send, every number of
packets, violations and connections, and every way to cut the stream:

- `TypeCorrect`: `Spec => []TypeOK`, violations included.
- `ToldInOrder` (`HandledInOrder`), `EverythingTold` (`AllHandled`), `PacketIsPresent` (`PacketPresent`),
  `PacketIsFreed` (`PacketFreed`) and `LengthAlwaysFits` (`LengthFits`), all from one invariant, `InStepAlways`.

None of them is inductive, because none says what the bytes still to be read are.  `InStep` says it: there are a
sequence of bytes that is the packets sent one after another (`Wire`) and a sequence of answers owed for them
(`Debt`), and the parser has read `m` packets and `k` bytes of the next (`Progress`).  What is left of the bytes is
`segment` and then `stream` (`Left`); the place is the one to which `k` bytes of that packet lead (`InLength`,
`InHeader`, `InStatus`, `InPayload`, or `Between` when `k` is 0); and `calls` is what is owed for `m` packets, with
the part read so far of a payload.  The work is in three layers:

1. *Numbers.*  `LengthRead`: `decodeRemainingLength` undoes `encodeRemainingLength` for every length of up to four
   bytes.  Both are recursive functions over numbers; `Recursion` and `SameSteps` give what recursion
   means, by the induction over a set of numbers that `MqttSessionProofs` uses too.
2. *Packets.*  `BytesAre`, `ShortBody` and `MessageBody` say which byte stands where in each kind of packet.
3. *Steps.*  One lemma per buffer state and packet class leads from `k` bytes of a packet to the next place
   (`StepFirst`, `StepLength`, `StepShort`, `StepStatus`, `StepPublish`, `StepPayload`); `Settle` turns the end of a packet
   into the beginning of the next.  In the first packet of a connection `lengthBuffer` is known only to be short and
   `remainingLength` not at all, which is enough for a CONNACK.

The assumptions are those of the module: `MqttParserAssumption` (the code's values are 128, 2^32 and 128) and
`RepliesAssumption`, MQTT's own limits on what a broker sends: lengths of four bytes, words of two, no empty topic.
An empty topic would bring the parser out of step (`PublishPacket.cpp:50`: the payload of a QoS 0
message begins only after a byte of topic).

Each invariance proof has one case per action of `Next`.  Only model-checked: the liveness properties
(`Reconnects`, `QueueDrains`, `HalfOpenEnds`, `ReachesLoop` and their like: fairness is out of the prover's reach).

## 5. What the code does

Behaviour the model follows because the code does it, and that a maintainer
will want to know; the findings are the part of it that contradicts a
statement of the repository.

- `setClockAMPM` sets the AM/PM bit at noon and never clears it (`half_of_day`).
- `setClockSeconds` stores a quarter of a minute, 0..3, where the comment says
  four-second intervals and the receiver multiplies by 4.
- `mapMode` has `bool` keys: modes 1 to 4 are all "Cool" on the mode topic, though the table in the same lines and
  `Documentation/rPI/Receive/Whirlpool_YJ1B.py:5-10` name them apart.  The status
  document has the mode as a number, which is right.
- `onFan` publishes the swing topic; the retained fan topic shows the change
  only after the next connection.  `TopicsTellData` and `Mirror` therefore leave
  the fan topic out.  `TopicsTellData` leaves the mode topic out too; `Mirror`, which is about the way of the
  publications, compares the texts as they are published.
- `::tolower` is applied to the payload, so of `fanMap` and `modeMap` only the
  numeric keys can be found.
- A temperature is converted to `uint8_t` before it is clamped: -1 sets 30.
- A numeral that does not fit an `int` throws `std::out_of_range`, which nothing
  catches: the chip restarts (`abort`).
- The REST route and the serial command commit without publishing `commited`.
- `qos()` of an outgoing packet reads its length byte; after a lost connection QoS 0
  publications may stay in the queue, with the DUP flag if they are shorter than what
  was sent of the head, and are dropped again at CONNACK, even half written
  (`cut_packet`).  The comment at `AsyncMqttClient.cpp:455-458` keeps only PUBREC and
  PUBCOMP messages and the head.
- Nobody looks at the result of `publish()`: a publication that is refused for lack of
  memory (`AsyncMqttClient.cpp:739`) leaves its retained topic stale until the next
  change or connection.  `Mirror` is checked with memory to spare.
- The receive timeout ends with the first byte of CONNACK and the ping starts with
  CONNECTED; a CONNACK that refuses leaves neither (`refused_connack`).
- Every send clears `_lastPingRequestTime`, that of the ping too (`AsyncMqttClient.cpp:410`): once the broker has been
  silent for the ping interval a ping is written at every poll, until the send buffer is full or
  lwIP gives up, and only then does the ping timeout begin to run.  The comment at line 332
  speaks of "a ping request without a response"; what the test at line 333 sees is a ping that is
  not yet written (`ping_unanswered`).
- `connect()` ignores that the TCP client could not start (`connect_fails`).

The parser (`MqttParser`):

- A message whose topic is longer than 128 bytes is skipped, never acknowledged, so that a
  broker repeats it in the next session, and its object is never freed (`PublishPacket.cpp:70` and `:89`).
- Any packet with remaining length zero is taken for a PINGRESP.
- After a byte that begins no packet the connection is closed, but the rest of the segment is parsed on: a
  second such byte leaves no packet object to call (a restart), the beginning of another packet
  leaves the next connection in its middle, and a CONNACK makes the client CONNECTED without
  a connection.  TLC reaches all three; only a peer that does not speak MQTT causes them.
- `_preparePayloadHandling` frees the packet by way of `_onPublish`, and `parseVariableHeader` then increments
  its position (`PublishPacket.cpp:61-63`).

Boot, portal and sensor (`Firmware`):

- `config.json` is never written: the portal answers "Saved" to its parameters (`strings_en.h:73`), but
  `WifiParameters::setSaveParamsCallback` is never called.
- A file that does not parse, or whose ports are no numbers, restarts the chip at every boot until the file
  is replaced: `hang()` and an uncaught `std::invalid_argument`.  A missing key reads as the text "null", so a
  missing `syslog_port` does it too, after the Wi-Fi has been set up.
- `mqtt.name` is read from the key `host_name` (`main.cpp:148`), not `mqtt_device`.
- The portal never times out (`main.cpp:113` speaks of a timeout): a router that starts later than the
  device leaves it in the portal until a visitor comes.
- The station may join between the end of `connectWifi`'s wait and `startConfigPortal`.  The portal then stays
  open, MQTT is connected and commits are taken, but the sender is not enabled: those frames are not sent.
- A submitted network is in flash before it is tried; one that fails has replaced the one that worked.
- Of the request that `shutdownConfigPortal` serves, `/restart` and `/erase` act at once, the latter in front of
  a network that has just been joined; any other is answered and has no effect, a saved network included.
- A commit before the time server has answered carries a wrong clock.
- A DHT22 whose first probe is disturbed may answer the DHT11's longer pulse and is then decoded as a DHT11 until
  the next restart.  A DHT11 is never taken for a DHT22 (`EnvironmentTold`).

## 6. Not modelled, and why

- Pulse timing, modulation, HTTP, JSON text, flash files: formatting or pure I/O
  without control that a property is about.
- Timer fields and unnamed bits of the union: nothing assigns them.
- `AsyncClient::add` accepting less than `space()` promised: `_handleQueue` counts it as sent
  (`AsyncMqttClient.cpp:406`); whether lwIP refuses depends on its segment limits.
- QoS 1 and 2 publications, unsubscribe, persistent sessions and TLS: the
  firmware never uses them.
- The tests in `test/`: they expect a zeroed object, which the constructor no longer leaves.
- The values of the portal's parameters (`WifiParameters`): their save callback is never installed.
- Heartbeat LED: two local variables and a pin, on a scale of milliseconds; nothing reads them, and
  its test of `millis()` is the one that `EnvironmentSensor` models.  Syslog: fire-and-forget datagrams.
- Of the vendored libraries, what the firmware never reaches: most of WiFiManager's 3900 lines are page
  texts, setters and the non-blocking portal, most of ESPAsyncTCP the server, the synchronous
  and buffered clients and TLS; IRremote's receivers and protocols, ArduinoJson's
  templates and the examples are not linked in or only format text.  They are the larger part of
  the repository's lines, and no state of this program.

## 7. Plan

Done: the six state machines above, the two abstract specifications with their
refinements, and the proofs of every safety property that a run checks.  What is left, in this order:

1. `AsyncClient::add` and `_handleQueue` at the level of bytes, with lwIP's segment limit.
2. A `MqttCommands` that implements an abstract mirror of object and topics.
