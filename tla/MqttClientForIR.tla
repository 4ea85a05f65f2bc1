-------------------------- MODULE MqttClientForIR --------------------------
(***************************************************************************)
(* What MqttClientForIR (src/src/MqttMessages.cpp) does with one message:  *)
(* which command it is, what it changes in the device object and what is   *)
(* published in return.  Operators only: MqttCommands runs them on their   *)
(* own, MqttSession behind a connection.                                   *)
(***************************************************************************)
EXTENDS WhirlpoolYJ1B

CONSTANTS
  Numerals,   \* numerals that fit an int: function from the text to the int
  Overlong    \* numerals that do not fit an int

ASSUME NumeralsAssumption == Numerals \in [DOMAIN Numerals -> Int]

\* The retained topics below m_device, in the order sendInitValues publishes.
InitTopics == <<"status", "temperature", "light", "mode", "state", "fan",
                "swing", "jet", "sleep">>
Topics == {InitTopics[i] : i \in 1..Len(InitTopics)}

\* The payload of a topic, with its form.
Text(topic, d) ==
  CASE topic \in {"status", "commited"} -> <<"json", getJson(d)>>
    [] topic = "temperature" -> <<"number", getTemperature(d)>>
    [] topic = "light" -> <<"text", OnOffText(d.light)>>
    [] topic = "mode"  -> <<"text", getModeText(d)>>
    [] topic = "state" -> <<"text", OnOffText(d.power)>>
    [] topic = "fan"   -> <<"text", getFanText(d)>>
    [] topic = "swing" -> <<"text", OnOffText(d.swing)>>
    [] topic = "jet"   -> <<"text", OnOffText(d.jet)>>
    [] topic = "sleep" -> <<"text", OnOffText(d.sleep)>>

\* publishStatus ... publishSleep, publishCommited: all with QoS 0.
Publication(topic, d) ==
  [topic |-> topic, payload |-> Text(topic, d), retain |-> topic # "commited"]

Publications(topics, d) ==
  [i \in 1..Len(topics) |-> Publication(topics[i], d)]

sendInitValues(d) == Publications(InitTopics, d)

---------------------------------------------------------------------------
(* The tables, and ::tolower on the words that can occur in a value.       *)

Lowered == [On |-> "on", OFF |-> "off", UP |-> "up", Cool |-> "cool",
            V1 |-> "v1"]
tolower(v) == IF v \in DOMAIN Lowered THEN Lowered[v] ELSE v

OnWords  == {"on", "true", "1"}
OffWords == {"off", "false", "0"}
onoffMap == [v \in OnWords \cup OffWords |-> IF v \in OnWords THEN 1 ELSE 0]

fanMap == [v \in {"Auto", "V1", "V2", "V3", "0", "1", "2", "3"} |->
             CASE v \in {"Auto", "0"} -> 0 [] v \in {"V1", "1"} -> 1
               [] v \in {"V2", "2"} -> 2   [] v \in {"V3", "3"} -> 3]

modeMap == [v \in {"Sense_6th", "Cool", "Dry", "Fan", "Heat",
                   "0", "1", "2", "3", "4"} |->
              CASE v \in {"Sense_6th", "0"} -> 0 [] v \in {"Cool", "1"} -> 1
                [] v \in {"Dry", "2"} -> 2 [] v \in {"Fan", "3"} -> 3
                [] v \in {"Heat", "4"} -> 4]

---------------------------------------------------------------------------
(* Handlers: from the device object to the object after the call, the      *)
(* publications made, whether a commit was sent and whether an exception   *)
(* left the handler (which resets the chip).                               *)

Nothing(d) == [data |-> d, pubs |-> <<>>, commit |-> FALSE, abort |-> FALSE]

Done(d, topics) == [Nothing(d) EXCEPT !.pubs = Publications(topics, d)]

onSwitch(topic, set(_, _), v, d) ==
  IF v \in DOMAIN onoffMap
  THEN Done(set(d, onoffMap[v]), <<topic, "status">>) ELSE Nothing(d)

\* Only std::invalid_argument is caught; the int becomes a uint8_t.
onTemperature(v, d) ==
  LET changed(t) == Done(setTemperature(d, ToUint8(t)), <<"temperature", "status">>)
  IN  CASE v = ""     -> Nothing(d)
        [] v = "up"   -> changed(getTemperature(d) + 1)
        [] v = "down" -> changed(getTemperature(d) - 1)
        [] v \in DOMAIN Numerals -> changed(Numerals[v])
        [] v \in Overlong -> [Nothing(d) EXCEPT !.abort = TRUE]
        [] OTHER -> Nothing(d)

onLight(v, d) == onSwitch("light", setLight, v, d)
onState(v, d) == onSwitch("state", setPower, v, d)
onSwing(v, d) == onSwitch("swing", setSwing, v, d)
onJet(v, d)   == onSwitch("jet", setJet, v, d)

\* Mutation: the topic of the handler above is published.
onSleepAsJet(v, d) == onSwitch("jet", setSleep, v, d)
onSleep(v, d) == onSwitch("sleep", setSleep, v, d)

onMode(v, d) ==
  IF v \in DOMAIN modeMap
  THEN Done(setMode(d, modeMap[v]), <<"mode", "status">>) ELSE Nothing(d)

\* Publishes the swing topic, not the fan topic.
onFan(v, d) ==
  IF v \in DOMAIN fanMap
  THEN Done(setFan(d, fanMap[v]), <<"swing", "status">>) ELSE Nothing(d)

\* m_commitEvent is onCommit of main.cpp: the clock of time t is written into
\* the object and the frame is sent (module MqttCommands).
onCommit(d, t) ==
  [data |-> setClock(d, t),
   pubs |-> Publications(<<"commited">>, setClock(d, t)),
   commit |-> TRUE, abort |-> FALSE]

proceedCommand(command, value, d, t) ==
  LET v == tolower(value)
  IN  CASE command = "temperature" -> onTemperature(v, d)
        [] command = "light" -> onLight(v, d)
        [] command = "mode"  -> onMode(v, d)
        [] command = "state" -> onState(v, d)
        [] command = "fan"   -> onFan(v, d)
        [] command = "swing" -> onSwing(v, d)
        [] command = "jet"   -> onJet(v, d)
        [] command = "sleep" -> onSleep(v, d)
        [] command = "commit" -> onCommit(d, t)
        [] OTHER -> Nothing(d)

\* levels are the topic levels below <device>/cmd/.
parseMessage(levels, payload, d, t) ==
  CASE Len(levels) = 1 -> proceedCommand(levels[1], payload, d, t)
    [] Len(levels) = 2 -> proceedCommand(levels[1], levels[2], d, t)
    [] OTHER -> Nothing(d)
=============================================================================
