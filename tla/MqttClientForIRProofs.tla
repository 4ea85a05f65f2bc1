----------------------- MODULE MqttClientForIRProofs -----------------------
(* What the setters of the device object and the handlers of the messages   *)
(* change: lemmas for the proofs about the modules that use them.           *)
EXTENDS MqttClientForIR, TLAPS

\* An object that the setters can have made: the fields for the mode and the
\* temperature could hold more.
InRange(d) == d \in WhirlpoolYJ1BData /\ d.mode \in Mode /\ d.temperature \in 0..14

\* The clamp of setTemperature holds for whatever number the caller gives.
LEMMA TemperatureClamped ==
  ASSUME NEW d, InRange(d), NEW t \in Int
  PROVE  InRange(setTemperature(d, t))
  BY DEF setTemperature, InRange, WhirlpoolYJ1BData

LEMMA OthersKeepRange ==
  ASSUME NEW d, InRange(d), NEW m \in Mode, NEW f \in Fan, NEW b \in 0..1
  PROVE  /\ InRange(setMode(d, m)) /\ InRange(setFan(d, f)) /\ InRange(setPower(d, b))
         /\ InRange(setSwing(d, b)) /\ InRange(setSleep(d, b))
         /\ InRange(setJet(d, b)) /\ InRange(setLight(d, b))
  BY DEF InRange, WhirlpoolYJ1BData, Mode, Fan, setMode, setFan, setPower, setSwing,
         setSleep, setJet, setLight

SameSettings(d, e) == \A s \in Settings : e[s] = d[s]

\* The clock has fields of its own.
LEMMA ClockKeepsSettings ==
  ASSUME NEW d, InRange(d), NEW t \in TimeOfDay
  PROVE  /\ InRange(setClock(d, t))
         /\ SameSettings(d, setClock(d, t))
         /\ setClock(d, t).clock_Hours = t.hour % 12
         /\ setClock(d, t).clock_Minutes = t.min
<1> DEFINE h == setClockHours(d, t.hour)
           m == setClockMinutes(h, t.min)
<1>1. t.hour \in 0..23 /\ t.min \in 0..59 /\ t.sec \in 0..61
  BY DEF TimeOfDay
<1>2. t.hour % 12 \in 0..11 /\ t.min % 60 = t.min /\ (t.sec % 60) \div 15 \in 0..3
  BY <1>1
<1>3. InRange(h) /\ SameSettings(d, h) /\ h.clock_Hours = t.hour % 12
  <2> DEFINE pm == IF t.hour >= 12 THEN 1 ELSE d.clock_AM_PM
             g  == [d EXCEPT !.clock_Hours = t.hour % 12]
  <2>1. pm \in 0..1
    BY DEF InRange, WhirlpoolYJ1BData
  <2>2. InRange(g) /\ SameSettings(d, g) /\ g.clock_Hours = t.hour % 12
    BY <1>2 DEF InRange, SameSettings, Settings, WhirlpoolYJ1BData
  <2>3. h = [g EXCEPT !.clock_AM_PM = pm]
    BY DEF setClockHours
  <2> HIDE DEF g, pm, h
  <2> QED
    BY <2>1, <2>2, <2>3 DEF InRange, SameSettings, Settings, WhirlpoolYJ1BData
<1> HIDE DEF h
<1>4. /\ InRange(m) /\ SameSettings(h, m)
      /\ m.clock_Hours = t.hour % 12 /\ m.clock_Minutes = t.min
  BY <1>1, <1>2, <1>3
     DEF InRange, SameSettings, Settings, WhirlpoolYJ1BData, setClockMinutes
<1> HIDE DEF m
<1>5. LET e == setClockSeconds(m, t.sec)
      IN  /\ InRange(e) /\ SameSettings(m, e)
          /\ e.clock_Hours = t.hour % 12 /\ e.clock_Minutes = t.min
  BY <1>2, <1>4
     DEF InRange, SameSettings, Settings, WhirlpoolYJ1BData, setClockSeconds
<1> QED
  BY <1>3, <1>4, <1>5 DEF setClock, SameSettings, h, m

LEMMA PowerOnInRange == InRange(PowerOnData)
<1>1. InRange(Zeroed)
  BY DEF Zeroed, InRange, WhirlpoolYJ1BData, Mode
<1>2. InRange(setFan(Zeroed, 0))
  BY <1>1, OthersKeepRange DEF Mode, Fan
<1>3. InRange(setMode(setFan(Zeroed, 0), 1))
  BY <1>2, OthersKeepRange DEF Mode, Fan
<1>4. InRange(setLight(setMode(setFan(Zeroed, 0), 1), 1))
  BY <1>3, OthersKeepRange DEF Mode, Fan
<1> QED
  BY <1>4, TemperatureClamped DEF PowerOnData

---------------------------------------------------------------------------
(* The handlers.                                                           *)

OneSetting(d, e) == \E s \in Settings : \A r \in Settings \ {s} : e[r] = d[r]

\* What a handler has published and changed when it ends or throws: nothing,
\* the clock, or one setting, of which the topic and the status tell.  The
\* fan topic is the exception (onFan).
Effect(e, d) ==
  /\ InRange(e.data)
  /\ OneSetting(d, e.data)
  /\ \/ e.pubs = <<>> /\ e.data = d
     \/ /\ e.pubs = Publications(<<"commited">>, e.data)
        /\ \A y \in Topics : Text(y, e.data) = Text(y, d)
     \/ \E x \in Topics :
          /\ e.pubs = Publications(<<x, "status">>, e.data)
          /\ \A y \in Topics \ {x, "status", "fan"} : Text(y, e.data) = Text(y, d)

LEMMA TopicsAre ==
  Topics = {"status", "temperature", "light", "mode", "state", "fan", "swing", "jet",
            "sleep"}
<1>1. Topics = {InitTopics[i] : i \in 1..9}
  BY DEF Topics, InitTopics
<1>2. \A i \in 1..9 : \/ i = 1 \/ i = 2 \/ i = 3 \/ i = 4 \/ i = 5
                      \/ i = 6 \/ i = 7 \/ i = 8 \/ i = 9
  OBVIOUS
<1>3. /\ InitTopics[1] = "status" /\ InitTopics[2] = "temperature"
      /\ InitTopics[3] = "light" /\ InitTopics[4] = "mode" /\ InitTopics[5] = "state"
      /\ InitTopics[6] = "fan" /\ InitTopics[7] = "swing" /\ InitTopics[8] = "jet"
      /\ InitTopics[9] = "sleep"
  BY DEF InitTopics
<1> QED
  BY <1>1, <1>2, <1>3

\* The text of a topic depends on one field; that of the status on the eight
\* settings.
LEMMA TextsOfSettings ==
  ASSUME NEW d, NEW e
  PROVE  /\ SameSettings(d, e) => \A y \in Topics : Text(y, e) = Text(y, d)
         /\ e.temperature = d.temperature => Text("temperature", e) = Text("temperature", d)
         /\ e.light = d.light => Text("light", e) = Text("light", d)
         /\ e.mode = d.mode   => Text("mode", e) = Text("mode", d)
         /\ e.power = d.power => Text("state", e) = Text("state", d)
         /\ e.swing = d.swing => Text("swing", e) = Text("swing", d)
         /\ e.jet = d.jet     => Text("jet", e) = Text("jet", d)
         /\ e.sleep = d.sleep => Text("sleep", e) = Text("sleep", d)
<1> USE DEF Text, getTemperature, getModeText, getFanText, getJson
<1>1. SameSettings(d, e) => \A y \in Topics : Text(y, e) = Text(y, d)
  BY TopicsAre DEF SameSettings, Settings
<1>2. e.temperature = d.temperature => Text("temperature", e) = Text("temperature", d)
  OBVIOUS
<1>3. e.light = d.light => Text("light", e) = Text("light", d)
  OBVIOUS
<1>4. e.mode = d.mode   => Text("mode", e) = Text("mode", d)
  OBVIOUS
<1>5. e.power = d.power => Text("state", e) = Text("state", d)
  OBVIOUS
<1>6. /\ e.swing = d.swing => Text("swing", e) = Text("swing", d)
      /\ e.jet = d.jet     => Text("jet", e) = Text("jet", d)
      /\ e.sleep = d.sleep => Text("sleep", e) = Text("sleep", d)
  OBVIOUS
<1> QED
  BY <1>1, <1>2, <1>3, <1>4, <1>5, <1>6

\* The topic that a handler publishes for the setting it has changed.
ToldIn(s) == CASE s = "power" -> "state" [] s = "fan" -> "swing" [] OTHER -> s

LEMMA Told ==
  ASSUME NEW d, NEW e, InRange(e),
         NEW s \in Settings, \A r \in Settings \ {s} : e[r] = d[r]
  PROVE  Effect(Done(e, <<ToldIn(s), "status">>), d)
<1> DEFINE x == ToldIn(s)
<1>1. /\ Done(e, <<x, "status">>).data = e
      /\ Done(e, <<x, "status">>).pubs = Publications(<<x, "status">>, e)
  BY DEF Done, Nothing
<1>2. x \in Topics
  BY TopicsAre DEF ToldIn, Settings
<1>3. \A y \in Topics \ {x, "status", "fan"} : Text(y, e) = Text(y, d)
  <2>1. /\ s # "temperature" => e.temperature = d.temperature
        /\ s # "light" => e.light = d.light
        /\ s # "mode" => e.mode = d.mode
        /\ s # "power" => e.power = d.power
        /\ s # "swing" => e.swing = d.swing
        /\ s # "jet" => e.jet = d.jet
        /\ s # "sleep" => e.sleep = d.sleep
    BY DEF Settings
  <2>2. /\ s # "temperature" => Text("temperature", e) = Text("temperature", d)
        /\ s # "light" => Text("light", e) = Text("light", d)
        /\ s # "mode" => Text("mode", e) = Text("mode", d)
        /\ s # "power" => Text("state", e) = Text("state", d)
        /\ s # "swing" => Text("swing", e) = Text("swing", d)
        /\ s # "jet" => Text("jet", e) = Text("jet", d)
        /\ s # "sleep" => Text("sleep", e) = Text("sleep", d)
    BY <2>1, TextsOfSettings
  <2> QED
    BY <2>2, TopicsAre DEF ToldIn, Settings
<1>4. OneSetting(d, e)
  BY DEF OneSetting
<1>5. Effect(Done(e, <<x, "status">>), d)
  <2> HIDE DEF x
  <2> QED
    BY <1>1, <1>2, <1>3, <1>4 DEF Effect
<1> QED
  BY <1>5

LEMMA NothingDone ==
  ASSUME NEW d, InRange(d)
  PROVE  Effect(Nothing(d), d)
  BY DEF Nothing, Effect, OneSetting, Settings

\* Each setter writes the field of its name.
LEMMA SettersChangeOne ==
  ASSUME NEW d, InRange(d), NEW v
  PROVE  /\ \A r \in Settings \ {"mode"} : setMode(d, v)[r] = d[r]
         /\ \A r \in Settings \ {"power"} : setPower(d, v)[r] = d[r]
         /\ \A r \in Settings \ {"fan"} : setFan(d, v)[r] = d[r]
         /\ \A r \in Settings \ {"swing"} : setSwing(d, v)[r] = d[r]
         /\ \A r \in Settings \ {"sleep"} : setSleep(d, v)[r] = d[r]
         /\ \A r \in Settings \ {"jet"} : setJet(d, v)[r] = d[r]
         /\ \A r \in Settings \ {"light"} : setLight(d, v)[r] = d[r]
         /\ \A r \in Settings \ {"temperature"} : setTemperature(d, v)[r] = d[r]
  BY DEF Settings, InRange, WhirlpoolYJ1BData, setMode, setPower, setFan, setSwing,
         setSleep, setJet, setLight, setTemperature

LEMMA Switched ==
  ASSUME NEW d, InRange(d), NEW v
  PROVE  /\ Effect(onLight(v, d), d) /\ Effect(onState(v, d), d)
         /\ Effect(onSwing(v, d), d) /\ Effect(onJet(v, d), d)
         /\ Effect(onSleep(v, d), d)
<1>1. CASE v \notin DOMAIN onoffMap
  BY <1>1, NothingDone, Zenon DEF onLight, onState, onSwing, onJet, onSleep, onSwitch
<1>2. CASE v \in DOMAIN onoffMap
  <2> DEFINE b == onoffMap[v]
  <2>1. b \in 0..1
    BY <1>2 DEF onoffMap
  <2>2. /\ onLight(v, d) = Done(setLight(d, b), <<"light", "status">>)
        /\ onState(v, d) = Done(setPower(d, b), <<"state", "status">>)
        /\ onSwing(v, d) = Done(setSwing(d, b), <<"swing", "status">>)
        /\ onJet(v, d)   = Done(setJet(d, b), <<"jet", "status">>)
        /\ onSleep(v, d) = Done(setSleep(d, b), <<"sleep", "status">>)
    BY <1>2, Zenon DEF onLight, onState, onSwing, onJet, onSleep, onSwitch
  <2>3. /\ ToldIn("light") = "light" /\ ToldIn("power") = "state"
        /\ ToldIn("swing") = "swing" /\ ToldIn("jet") = "jet"
        /\ ToldIn("sleep") = "sleep"
    BY DEF ToldIn
  <2>4. /\ InRange(setLight(d, b)) /\ InRange(setPower(d, b))
        /\ InRange(setSwing(d, b)) /\ InRange(setJet(d, b))
        /\ InRange(setSleep(d, b))
    BY <2>1, OthersKeepRange DEF Mode, Fan
  <2>5. {"light", "power", "swing", "jet", "sleep"} \subseteq Settings
    BY DEF Settings
  <2> HIDE DEF b
  <2>6. Effect(onLight(v, d), d)
    BY <2>2, <2>3, <2>4, <2>5, SettersChangeOne, Told
  <2>7. Effect(onState(v, d), d)
    BY <2>2, <2>3, <2>4, <2>5, SettersChangeOne, Told
  <2>8. Effect(onSwing(v, d), d)
    BY <2>2, <2>3, <2>4, <2>5, SettersChangeOne, Told
  <2>9. Effect(onJet(v, d), d)
    BY <2>2, <2>3, <2>4, <2>5, SettersChangeOne, Told
  <2>10. Effect(onSleep(v, d), d)
    BY <2>2, <2>3, <2>4, <2>5, SettersChangeOne, Told
  <2> QED
    BY <2>6, <2>7, <2>8, <2>9, <2>10
<1> QED
  BY <1>1, <1>2

LEMMA ModeSet ==
  ASSUME NEW d, InRange(d), NEW v
  PROVE  Effect(onMode(v, d), d)
<1>1. CASE v \notin DOMAIN modeMap
  BY <1>1, NothingDone DEF onMode
<1>2. CASE v \in DOMAIN modeMap
  <2>1. modeMap[v] \in Mode
    BY <1>2 DEF modeMap, Mode
  <2>2. onMode(v, d) = Done(setMode(d, modeMap[v]), <<ToldIn("mode"), "status">>)
    BY <1>2 DEF onMode, ToldIn
  <2>3. InRange(setMode(d, modeMap[v]))
    BY <2>1, OthersKeepRange DEF Fan
  <2>4. "mode" \in Settings
    BY DEF Settings
  <2> QED
    BY <2>2, <2>3, <2>4, SettersChangeOne, Told
<1> QED
  BY <1>1, <1>2

LEMMA FanSet ==
  ASSUME NEW d, InRange(d), NEW v
  PROVE  Effect(onFan(v, d), d)
<1>1. CASE v \notin DOMAIN fanMap
  BY <1>1, NothingDone DEF onFan
<1>2. CASE v \in DOMAIN fanMap
  <2>1. fanMap[v] \in Fan
    BY <1>2 DEF fanMap, Fan
  <2>2. onFan(v, d) = Done(setFan(d, fanMap[v]), <<ToldIn("fan"), "status">>)
    BY <1>2 DEF onFan, ToldIn
  <2>3. InRange(setFan(d, fanMap[v]))
    BY <2>1, OthersKeepRange DEF Mode
  <2>4. "fan" \in Settings
    BY DEF Settings
  <2> QED
    BY <2>2, <2>3, <2>4, SettersChangeOne, Told
<1> QED
  BY <1>1, <1>2

LEMMA TemperatureSet ==
  ASSUME NEW d, InRange(d), NEW v
  PROVE  Effect(onTemperature(v, d), d)
<1> DEFINE changed(t) == Done(setTemperature(d, ToUint8(t)), <<"temperature", "status">>)
<1>1. ASSUME NEW t \in Int
      PROVE  Effect(changed(t), d)
  <2>1. InRange(setTemperature(d, ToUint8(t)))
    BY TemperatureClamped DEF ToUint8
  <2>2. ToldIn("temperature") = "temperature" /\ "temperature" \in Settings
    BY DEF ToldIn, Settings
  <2> QED
    BY <2>1, <2>2, SettersChangeOne, Told
<1>2. getTemperature(d) \in Int
  BY DEF InRange, getTemperature
<1>3. \/ onTemperature(v, d) = Nothing(d)
      \/ onTemperature(v, d) = changed(getTemperature(d) + 1)
      \/ onTemperature(v, d) = changed(getTemperature(d) - 1)
      \/ v \in DOMAIN Numerals /\ onTemperature(v, d) = changed(Numerals[v])
      \/ onTemperature(v, d) = [Nothing(d) EXCEPT !.abort = TRUE]
  <2> DEFINE a == changed(getTemperature(d) + 1)
             b == changed(getTemperature(d) - 1)
             c == changed(Numerals[v])
             x == [Nothing(d) EXCEPT !.abort = TRUE]
             n == Nothing(d)
  <2>1. onTemperature(v, d) =
          CASE v = "" -> n [] v = "up" -> a [] v = "down" -> b
            [] v \in DOMAIN Numerals -> c [] v \in Overlong -> x [] OTHER -> n
    BY Zenon DEF onTemperature
  <2> HIDE DEF a, b, c, x, n
  <2>2. \/ onTemperature(v, d) = n \/ onTemperature(v, d) = a \/ onTemperature(v, d) = b
        \/ (v \in DOMAIN Numerals /\ onTemperature(v, d) = c)
        \/ onTemperature(v, d) = x
    BY <2>1
  <2> QED
    BY <2>2, Zenon DEF a, b, c, x, n
<1>4. Effect([Nothing(d) EXCEPT !.abort = TRUE], d)
  BY DEF Nothing, Effect, OneSetting, Settings
<1>5. /\ getTemperature(d) + 1 \in Int /\ getTemperature(d) - 1 \in Int
      /\ v \in DOMAIN Numerals => Numerals[v] \in Int
  BY <1>2, NumeralsAssumption
<1> HIDE DEF changed
<1> QED
  BY <1>1, <1>3, <1>4, <1>5, NothingDone

LEMMA Committed ==
  ASSUME NEW d, InRange(d), NEW t \in TimeOfDay
  PROVE  Effect(onCommit(d, t), d)
<1> DEFINE c == setClock(d, t)
<1>1. InRange(c) /\ SameSettings(d, c)
  BY ClockKeepsSettings
<1>2. /\ onCommit(d, t).data = c
      /\ onCommit(d, t).pubs = Publications(<<"commited">>, c)
  BY DEF onCommit
<1> HIDE DEF c
<1>3. OneSetting(d, c)
  BY <1>1 DEF SameSettings, OneSetting, Settings
<1>4. \A y \in Topics : Text(y, c) = Text(y, d)
  BY <1>1, TextsOfSettings
<1> QED
  BY <1>1, <1>2, <1>3, <1>4 DEF Effect

\* Whatever the topic, the payload and the time are, the handler has
\* published what it changed.
LEMMA Parsed ==
  ASSUME NEW d, InRange(d), NEW levels, NEW payload, NEW t \in TimeOfDay,
         NEW e, e = parseMessage(levels, payload, d, t)
  PROVE  Effect(e, d)
<1>1. ASSUME NEW command, NEW value
      PROVE  Effect(proceedCommand(command, value, d, t), d)
  <2> DEFINE v == tolower(value)
             p == proceedCommand(command, value, d, t)
  <2>1. \/ p = onTemperature(v, d) \/ p = onLight(v, d) \/ p = onMode(v, d)
        \/ p = onState(v, d) \/ p = onFan(v, d) \/ p = onSwing(v, d)
        \/ p = onJet(v, d) \/ p = onSleep(v, d) \/ p = onCommit(d, t)
        \/ p = Nothing(d)
    BY Zenon DEF proceedCommand
  <2> HIDE DEF p, v
  <2>2. Effect(p, d)
    BY <2>1, TemperatureSet, Switched, ModeSet, FanSet, Committed, NothingDone
  <2> QED
    BY <2>2 DEF p
<1>2. \/ e = Nothing(d)
      \/ e = proceedCommand(levels[1], payload, d, t)
      \/ e = proceedCommand(levels[1], levels[2], d, t)
  BY DEF parseMessage
<1> QED
  BY <1>1, <1>2, NothingDone

\* No other handler sends a frame.
LEMMA OthersSendNothing ==
  ASSUME NEW d, NEW v
  PROVE  /\ ~Nothing(d).commit
         /\ ~onTemperature(v, d).commit /\ ~onLight(v, d).commit
         /\ ~onMode(v, d).commit /\ ~onState(v, d).commit /\ ~onFan(v, d).commit
         /\ ~onSwing(v, d).commit /\ ~onJet(v, d).commit /\ ~onSleep(v, d).commit
<1>1. /\ ~Nothing(d).commit
      /\ ~[Nothing(d) EXCEPT !.abort = TRUE].commit
  BY DEF Nothing
<1>2. ASSUME NEW x, NEW topics
      PROVE  ~Done(x, topics).commit
  BY DEF Done, Nothing
<1>3. ~onTemperature(v, d).commit
  <2> DEFINE changed(t) == Done(setTemperature(d, ToUint8(t)), <<"temperature", "status">>)
             a == changed(getTemperature(d) + 1)
             b == changed(getTemperature(d) - 1)
             c == changed(Numerals[v])
             x == [Nothing(d) EXCEPT !.abort = TRUE]
             n == Nothing(d)
  <2>1. onTemperature(v, d) =
          CASE v = "" -> n [] v = "up" -> a [] v = "down" -> b
            [] v \in DOMAIN Numerals -> c [] v \in Overlong -> x [] OTHER -> n
    BY Zenon DEF onTemperature
  <2>2. ~a.commit /\ ~b.commit /\ ~c.commit
    BY <1>2
  <2>3. ~x.commit /\ ~n.commit
    BY <1>1
  <2> HIDE DEF a, b, c, x, n
  <2> QED
    BY <2>1, <2>2, <2>3
<1>4. /\ ~onLight(v, d).commit /\ ~onState(v, d).commit /\ ~onSwing(v, d).commit
      /\ ~onJet(v, d).commit /\ ~onSleep(v, d).commit
  BY <1>1, <1>2, Zenon DEF onLight, onState, onSwing, onJet, onSleep, onSwitch
<1>5. ~onMode(v, d).commit /\ ~onFan(v, d).commit
  BY <1>1, <1>2, Zenon DEF onMode, onFan
<1> QED
  BY <1>1, <1>3, <1>4, <1>5

\* Who sends a frame has written the time it read into the object.
LEMMA CommitSetsClock ==
  ASSUME NEW d, NEW levels, NEW payload, NEW t, NEW e,
         e = parseMessage(levels, payload, d, t), e.commit
  PROVE  e.data = setClock(d, t)
<1>1. ASSUME NEW command, NEW value, proceedCommand(command, value, d, t).commit
      PROVE  proceedCommand(command, value, d, t) = onCommit(d, t)
  <2> DEFINE v == tolower(value)
             p == proceedCommand(command, value, d, t)
  <2>1. \/ p = onTemperature(v, d) \/ p = onLight(v, d) \/ p = onMode(v, d)
        \/ p = onState(v, d) \/ p = onFan(v, d) \/ p = onSwing(v, d)
        \/ p = onJet(v, d) \/ p = onSleep(v, d) \/ p = onCommit(d, t)
        \/ p = Nothing(d)
    BY Zenon DEF proceedCommand
  <2>2. p.commit
    BY <1>1
  <2> HIDE DEF p, v
  <2>3. p = onCommit(d, t)
    BY <2>1, <2>2, OthersSendNothing
  <2> QED
    BY <2>3 DEF p
<1>2. \/ e = Nothing(d)
      \/ e = proceedCommand(levels[1], payload, d, t)
      \/ e = proceedCommand(levels[1], levels[2], d, t)
  BY DEF parseMessage
<1>3. e = onCommit(d, t)
  BY <1>1, <1>2, OthersSendNothing
<1> QED
  BY <1>3 DEF onCommit
=============================================================================
