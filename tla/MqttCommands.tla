---------------------------- MODULE MqttCommands ----------------------------
(***************************************************************************)
(* The command interpreter and the infrared sender behind a perfect        *)
(* transport, with the device object between them.  A message arrives in   *)
(* one or more fragments, each of which is one call of onMessage           *)
(* (src/src/MqttMessages.cpp); publications reach the retained topics at   *)
(* once.  Between two fragments the REST route or the serial console may   *)
(* commit.  A commit (onCommit in src/src/main.cpp) writes the time of day *)
(* into the object and sends the object as one frame.                      *)
(***************************************************************************)
EXTENDS MqttClientForIR

CONSTANTS
  Messages,     \* [levels, payload] that the home automation sends
  Split(_),     \* the ways in which a payload can be cut into fragments
  Times         \* times of day at which a commit can happen

ASSUME TimesAssumption == Times \subseteq TimeOfDay

VARIABLES
  data,       \* *m_whirpoolData
  air,        \* the frame just sent and the local time it was sent for
  shown,      \* what a subscriber sees: function from topic to payload
  message,    \* the message being received
  fragments,  \* its fragments still to come
  meant       \* the settings that the whole message stands for

vars == <<data, air, shown, message, fragments, meant>>

NoMessage == [levels |-> <<>>, payload |-> ""]

SettingsOf(d) == [s \in Settings |-> d[s]]

Silence == [bits |-> <<>>, at |-> [hour |-> 0, min |-> 0, sec |-> 0]]

\* After onConnect: sendInitValues has been published.
Init ==
  /\ data = PowerOnData
  /\ air = Silence
  /\ shown = [t \in Topics |-> Text(t, PowerOnData)]
  /\ message = NoMessage
  /\ fragments = <<>>
  /\ meant = SettingsOf(data)

---------------------------------------------------------------------------
\* The retained topics after a sequence of publications.
Published(pubs) ==
  [t \in Topics |->
     LET last == {i \in 1..Len(pubs) : /\ pubs[i].topic = t
                                       /\ \A j \in i + 1..Len(pubs) : pubs[j].topic # t}
     IN  IF last = {} THEN shown[t] ELSE pubs[CHOOSE i \in last : TRUE].payload]

Idle == fragments = <<>>

\* The frame that a commit at time t sends of the object d.
SentFor(d, t) == [bits |-> Frame(d), at |-> t]

Arrive ==
  /\ Idle
  /\ \E m \in Messages, t \in Times :
       /\ message' = m
       /\ fragments' \in Split(m.payload)
       /\ meant' = SettingsOf(parseMessage(m.levels, m.payload, data, t).data)
  /\ air' = Silence
  /\ UNCHANGED <<data, shown>>

\* The program starts anew and connects again, whatever ended it.
Restart ==
  /\ data' = PowerOnData
  /\ air' = Silence
  /\ shown' = [t \in Topics |-> Text(t, PowerOnData)]
  /\ message' = NoMessage
  /\ fragments' = <<>>
  /\ meant' = SettingsOf(PowerOnData)

\* One call of onMessage, which looks at neither index nor total.  An
\* exception that leaves the handler restarts the chip.
onMessage ==
  /\ ~Idle
  /\ \E t \in Times :
       LET e == parseMessage(message.levels, Head(fragments), data, t)
       IN  \/ e.abort /\ Restart
           \/ /\ ~e.abort
              /\ data' = e.data
              /\ air' = IF e.commit THEN SentFor(e.data, t) ELSE Silence
              /\ shown' = Published(e.pubs)
              /\ fragments' = Tail(fragments)
              /\ message' = IF Len(fragments) = 1 THEN NoMessage ELSE message
              /\ UNCHANGED meant

\* PATCH /api/v1/commit and the serial command '1': onCommit without a
\* publication.
LocalCommit ==
  /\ \E t \in Times :
       /\ data' = setClock(data, t)
       /\ air' = SentFor(data', t)
  /\ UNCHANGED <<shown, message, fragments, meant>>

Next == Arrive \/ onMessage \/ LocalCommit \/ Restart

Spec == Init /\ [][Next]_vars

---------------------------------------------------------------------------
TypeOK ==
  /\ data \in WhirlpoolYJ1BData
  /\ air.bits = <<>> \/ air.bits \in [1..FrameBits -> 0..1]
  /\ air.at \in TimeOfDay
  /\ DOMAIN shown = Topics
  /\ message \in Messages \cup {NoMessage}
  /\ DOMAIN meant = Settings

\* After every message, accepted or ignored, whole or in fragments, each
\* retained topic shows the object's current value.  Two are left out, whose
\* content is wrong in itself (README, "What the code does"): the fan topic,
\* because onFan publishes swing in its place, and the mode topic, because
\* getModeText says Cool for three other modes too.
TopicsTellData ==
  \A t \in Topics \ {"fan", "mode"} : shown[t] = Text(t, data)

\* One fragment changes at most one setting, whatever its topic and payload
\* are, unless the chip restarts.
OneSettingPerFragment ==
  [][\/ data' = PowerOnData
     \/ \E s \in Settings : \A r \in Settings \ {s} : data'[r] = data[r]]_vars

Sent == air.bits # <<>>

\* The receiver reads from a frame exactly the settings the object holds and
\* the REST status reports: no two bit fields overlap, encoder and decoder
\* agree on every position, and the clock that a commit writes disturbs no
\* setting (Whirlpool_YJ1B.hpp against Documentation/rPI/Receive).
FrameTellsSettings ==
  Sent => LET heard == printCommon(air.bits)
          IN  /\ heard.temperature = getTemperature(data)
              /\ \A f \in Settings \ {"temperature"} : heard[f] = data[f]

\* The hour on the twelve-hour dial and the minute arrive unchanged.
FrameTellsDial ==
  Sent => LET heard == printCommon(air.bits)
          IN  /\ heard.hours = air.at.hour % 12
              /\ heard.minutes = air.at.min

\* Whatever sequence of commands led here, the stored temperature is one of
\* the fifteen degrees 16..30 and the stored mode one of the five modes,
\* although both bit fields could hold more.
SettingsInRange ==
  /\ getTemperature(data) \in 16..30
  /\ data.mode \in Mode

\* The receiver tells morning from afternoon (Whirlpool_YJ1B.py:68).
FrameTellsHalfOfDay ==
  Sent => (printCommon(air.bits).pm = 1) = (air.at.hour >= 12)

\* A message has the effect of its whole payload, however the network cuts it
\* (docs/3.-Memory-management.md:12: onMessage is called once per part).
MessageIsOneCommand == Idle => meant = SettingsOf(data)
=============================================================================
