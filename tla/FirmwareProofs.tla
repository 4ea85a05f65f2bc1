--------------------------- MODULE FirmwareProofs ---------------------------
(* What setup() and loop() keep for every length of the intervals and every *)
(* number of disturbances.  WifiInv relates the queue of station events to  *)
(* the link, StationInv follows the Wi-Fi mode through the stages of        *)
(* autoConnect; the sensor's part rests on what one call of read() may      *)
(* return.                                                                  *)
EXTENDS Firmware, TLAPS

WifiInv ==
  /\ events \in Seq(Event) /\ told \in BOOLEAN
  /\ MqttKnowsLink
  /\ pc \in {"mount", "autoConnect"} => mode = {} /\ link = "idle"
  /\ pc = "joinStored" => mode = {"station"}

StationInv ==
  /\ pc \in {"mount", "autoConnect"} => mode = {}
  /\ pc = "joinStored" => mode = {"station"}
  /\ LoopIsStation

---------------------------------------------------------------------------
\* The queue of station events and the last word.

\* An event that is queued is the last word.
LEMMA Reported ==
  ASSUME events \in Seq(Event), NEW e \in Event, events' = Append(events, e)
  PROVE  /\ events' \in Seq(Event)
         /\ LastWord' <=> e = "GotIP"
<1>1. /\ events' \in Seq(Event) /\ events' # <<>>
      /\ events'[Len(events')] = e
  BY DEF Event
<1> QED
  BY <1>1 DEF LastWord

\* A handler that runs says what its event said, so the last word stays.
LEMMA Handled ==
  ASSUME events \in Seq(Event), told \in BOOLEAN, NEW e \in Event, Handle(e),
         told' = (e = "GotIP")
  PROVE  /\ events' \in Seq(Event) /\ told' \in BOOLEAN
         /\ LastWord' <=> LastWord
<1>1. events # <<>> /\ Head(events) = e /\ events' = Tail(events)
  BY DEF Handle
<1>2. events' \in Seq(Event) /\ Len(events') = Len(events) - 1 /\ Len(events) \in Nat \ {0}
  BY <1>1
<1>3. CASE events' = <<>>
  <2>1. Len(events) = 1
    BY <1>2, <1>3
  <2>2. events[Len(events)] = e
    BY <1>1, <2>1
  <2> QED
    BY <1>1, <1>2, <1>3, <2>2 DEF LastWord
<1>4. CASE events' # <<>>
  <2>1. events'[Len(events')] = events[Len(events)]
    BY <1>1, <1>2, <1>4
  <2> QED
    BY <1>1, <1>2, <1>4, <2>1 DEF LastWord
<1> QED
  BY <1>3, <1>4

\* A step that leaves the queue alone and neither makes nor ends the link.
LEMMA WordStays ==
  ASSUME WifiInv, UNCHANGED <<events, told>>, link' = "joined" <=> link = "joined"
  PROVE  events' \in Seq(Event) /\ told' \in BOOLEAN /\ MqttKnowsLink'
<1>1. LastWord' = LastWord
  BY DEF LastWord
<1>2. (link' = "joined") = (link = "joined")
  OBVIOUS
<1> QED
  BY <1>1, <1>2 DEF WifiInv, MqttKnowsLink

\* A step that ends the link, if there was one, and has it reported.
LEMMA WordLeft ==
  ASSUME WifiInv, pc # "mount", Left, told' = told, link' # "joined"
  PROVE  events' \in Seq(Event) /\ told' \in BOOLEAN /\ MqttKnowsLink'
<1>1. CASE link = "joined"
  <2>1. events' = Append(events, "Disconnected")
    BY <1>1 DEF Left, Report, Installed
  <2>2. events' \in Seq(Event) /\ ~LastWord'
    BY <2>1, Reported DEF WifiInv, Event
  <2>3. LastWord' \in BOOLEAN
    BY <2>2, Reported DEF LastWord, WifiInv
  <2> QED
    BY <2>2, <2>3 DEF MqttKnowsLink, WifiInv
<1>2. CASE link # "joined"
  BY <1>2, WordStays DEF Left
<1> QED
  BY <1>1, <1>2

---------------------------------------------------------------------------
LEMMA InitWifi == Init => WifiInv
<1>1. Init => events = <<>> /\ told = FALSE /\ link = "idle" /\ mode = {} /\ pc = "mount"
  BY DEF Init
<1>2. events = <<>> => events \in Seq(Event) /\ LastWord = told
  BY DEF LastWord
<1>3. told = FALSE /\ link = "idle" => told = (link = "joined") /\ told \in BOOLEAN
  OBVIOUS
<1> QED
  BY <1>1, <1>2, <1>3 DEF WifiInv, MqttKnowsLink

LEMMA RestartedWifi ==
  ASSUME Restarted
  PROVE  WifiInv'
<1>1. /\ events' = <<>> /\ told' = FALSE /\ link' = "idle"
      /\ mode' = {} /\ pc' = "mount"
  BY DEF Restarted
<1>2. events' \in Seq(Event) /\ LastWord' = told'
  BY <1>1 DEF LastWord
<1>3. told' = (link' = "joined") /\ told' \in BOOLEAN
  BY <1>1
<1> QED
  BY <1>1, <1>2, <1>3 DEF WifiInv, MqttKnowsLink

LEMMA ConnectingWifi ==
  ASSUME WifiInv, Connecting
  PROVE  WifiInv'
<1> USE DEF wifiVars
<1>1. CASE AutoConnect
  <2>1. events' \in Seq(Event) /\ told' \in BOOLEAN /\ MqttKnowsLink'
    BY <1>1, WordStays DEF AutoConnect, WifiInv
  <2> QED
    BY <1>1, <2>1 DEF AutoConnect, WifiInv
<1>2. CASE StoredJoins \/ StoredFails \/ SubmittedJoins
  <2>1. events' \in Seq(Event) /\ told' \in BOOLEAN /\ MqttKnowsLink'
    BY <1>2, WordStays DEF StoredJoins, StoredFails, SubmittedJoins
  <2> QED
    BY <1>2, <2>1 DEF StoredJoins, StoredFails, SubmittedJoins, WifiInv
<1>3. CASE StartPortal
  <2>1. events' \in Seq(Event) /\ told' \in BOOLEAN /\ MqttKnowsLink'
    BY <1>3, WordStays, WordLeft DEF StartPortal, StationOff
  <2> QED
    BY <1>3, <2>1 DEF StartPortal, WifiInv
<1>4. CASE SubmittedFails
  <2>1. events' \in Seq(Event) /\ told' \in BOOLEAN /\ MqttKnowsLink'
    BY <1>4, WordLeft DEF SubmittedFails, StationOff
  <2> QED
    BY <1>4, <2>1 DEF SubmittedFails, WifiInv
<1>5. CASE ClosePortal
  <2>1. events' \in Seq(Event) /\ told' \in BOOLEAN /\ MqttKnowsLink'
    BY <1>5, WordStays DEF ClosePortal
  <2> QED
    BY <1>5, <2>1 DEF ClosePortal, WifiInv
<1> QED
  BY <1>1, <1>2, <1>3, <1>4, <1>5 DEF Connecting

LEMMA SaveWifiKeeps ==
  ASSUME WifiInv, NEW s, SaveWifi(s)
  PROVE  WifiInv'
<1>1. pc = "portal" /\ pc' = "joinSubmitted" /\ told' = told /\ ConnectNew(s)
  BY DEF SaveWifi
<1>2. CASE link' = "joined"
  <2>1. link = "joined" /\ UNCHANGED events
    BY <1>1, <1>2 DEF ConnectNew
  <2> QED
    BY <1>1, <1>2, <2>1, WordStays DEF WifiInv
<1>3. CASE link' # "joined"
  BY <1>1, <1>3, WordLeft DEF ConnectNew, WifiInv
<1> QED
  BY <1>2, <1>3

LEMMA MeddleWifi ==
  ASSUME WifiInv, Meddle
  PROVE  WifiInv'
<1>1. CASE \E s \in Mistyped : SaveWifi(s)
  BY <1>1, SaveWifiKeeps
<1>2. CASE SaveNothing
  <2>1. events' \in Seq(Event) /\ told' \in BOOLEAN /\ MqttKnowsLink'
    BY <1>2, WordLeft DEF SaveNothing, StationOff
  <2> QED
    BY <1>2, <2>1 DEF SaveNothing, WifiInv
<1>3. CASE Exit \/ AskRestart \/ Erase \/ LastRequest \/ ResetToDefault
  <2>1. /\ UNCHANGED <<mode, link, events, told>>
        /\ pc' \in {"closeAborted", "restart"}
    BY <1>3 DEF Exit, AskRestart, Erase, LastRequest, ResetToDefault, wifiVars
  <2> QED
    BY <2>1, WordStays DEF WifiInv
<1>4. CASE Restarted
  BY <1>4, RestartedWifi
<1> QED
  BY <1>1, <1>2, <1>3, <1>4 DEF Meddle

\* The stack reports a join only while the station is on, which is after the
\* handlers were installed.
LEMMA RadioWifi ==
  ASSUME WifiInv, Radio
  PROVE  WifiInv'
<1>1. CASE Join
  <2>1. pc # "mount" /\ pc' = pc /\ mode' = mode /\ told' = told /\ link' = "joined"
    BY <1>1 DEF Join, WifiInv
  <2>2. events' = Append(events, "GotIP")
    BY <1>1, <2>1 DEF Join, Report, Installed
  <2>3. events' \in Seq(Event) /\ LastWord'
    BY <2>2, Reported DEF WifiInv, Event
  <2>4. LastWord' \in BOOLEAN
    BY <2>1, <2>3 DEF LastWord, WifiInv
  <2>5. MqttKnowsLink'
    BY <2>1, <2>3, <2>4 DEF MqttKnowsLink
  <2> QED
    BY <1>1, <2>1, <2>3, <2>5 DEF Join, WifiInv
<1>2. CASE JoinFails \/ Drop
  <2>1. pc # "mount" /\ pc' = pc /\ mode' = mode /\ told' = told /\ link' = "failed"
    BY <1>2 DEF JoinFails, Drop, WifiInv
  <2>2. events' = Append(events, "Disconnected")
    BY <1>2, <2>1 DEF JoinFails, Drop, Report, Installed
  <2>3. events' \in Seq(Event) /\ ~LastWord'
    BY <2>2, Reported DEF WifiInv, Event
  <2>4. LastWord' \in BOOLEAN
    BY <2>1, <2>3 DEF LastWord, WifiInv
  <2>5. MqttKnowsLink'
    BY <2>1, <2>3, <2>4 DEF MqttKnowsLink
  <2> QED
    BY <1>2, <2>1, <2>3, <2>5 DEF JoinFails, Drop, WifiInv
<1>3. CASE NetworkTurns
  BY <1>3, WordStays DEF NetworkTurns, WifiInv
<1> QED
  BY <1>1, <1>2, <1>3 DEF Radio

LEMMA HandlersWifi ==
  ASSUME WifiInv, Handlers
  PROVE  WifiInv'
<1>1. /\ UNCHANGED <<pc, mode, link>>
      /\ \E e \in Event : Handle(e) /\ told' = (e = "GotIP")
  <2>1. CASE onWifiConnect
    BY <2>1 DEF onWifiConnect, Event
  <2>2. CASE onWifiDisconnect
    BY <2>2 DEF onWifiDisconnect, Event
  <2> QED
    BY <2>1, <2>2 DEF Handlers
<1>2. events' \in Seq(Event) /\ told' \in BOOLEAN /\ (LastWord' <=> LastWord)
  BY <1>1, Handled DEF WifiInv
<1>3. LastWord \in BOOLEAN /\ LastWord' \in BOOLEAN
  BY <1>2 DEF LastWord, WifiInv
<1> QED
  BY <1>1, <1>2, <1>3 DEF WifiInv, MqttKnowsLink

LEMMA StepWifi ==
  ASSUME WifiInv, [Next]_vars
  PROVE  WifiInv'
<1> USE DEF wifiVars
<1>1. CASE Setup
  BY <1>1, WordStays DEF Setup, WifiInv
<1>2. CASE Services
  BY <1>2, WordStays DEF Services, WifiInv
<1>3. CASE Restart
  BY <1>3, RestartedWifi DEF Restart
<1>4. CASE Connecting
  BY <1>4, ConnectingWifi
<1>5. CASE Visit
  BY <1>5, SaveWifiKeeps DEF Visit
<1>6. CASE Meddle
  BY <1>6, MeddleWifi
<1>7. CASE Radio
  BY <1>7, RadioWifi
<1>8. CASE Handlers
  BY <1>8, HandlersWifi
<1>9. CASE Tick
  BY <1>9, WordStays DEF Tick, WifiInv
<1>10. CASE LoopPass
  BY <1>10, WordStays DEF LoopPass, WifiInv
<1>11. CASE UNCHANGED vars
  BY <1>11, WordStays DEF vars, WifiInv
<1> QED
  BY <1>1, <1>2, <1>3, <1>4, <1>5, <1>6, <1>7, <1>8, <1>9, <1>10, <1>11
     DEF Next, Program

LEMMA WifiKept == Spec => []WifiInv
  BY InitWifi, StepWifi, PTL DEF Spec

\* Whatever autoConnect, the portal and the stack do to the station, and
\* however late its handlers run, the last event that waits, or the last one
\* handled, tells MQTT the truth about the link (main.cpp:88-109).
THEOREM WifiCorrect == Spec => []MqttKnowsLink
<1>1. WifiInv => MqttKnowsLink
  BY DEF WifiInv
<1> QED
  BY <1>1, WifiKept, PTL

---------------------------------------------------------------------------
LEMMA StepMode ==
  ASSUME StationInv, [Next]_vars
  PROVE  StationInv'
<1> USE DEF StationInv, LoopIsStation, wifiVars
<1>1. CASE Setup \/ Services \/ Restart \/ Tick \/ LoopPass
  BY <1>1 DEF Setup, Services, Restart, Restarted, Tick, LoopPass
<1>2. CASE Connecting
  BY <1>2 DEF Connecting, AutoConnect, StoredJoins, StoredFails, StartPortal,
              SubmittedJoins, SubmittedFails, ClosePortal
<1>3. CASE Visit
  BY <1>3 DEF Visit, SaveWifi
<1>4. CASE Meddle
  BY <1>4 DEF Meddle, SaveWifi, SaveNothing, Exit, AskRestart, Erase, LastRequest,
              ResetToDefault, Restarted
<1>5. CASE Radio \/ Handlers
  BY <1>5 DEF Radio, Join, JoinFails, Drop, NetworkTurns, Handlers, onWifiConnect,
              onWifiDisconnect
<1>6. CASE UNCHANGED vars
  BY <1>6 DEF vars
<1> QED
  BY <1>1, <1>2, <1>3, <1>4, <1>5, <1>6 DEF Next, Program

\* loop() runs as a station without the access point, however the portal was
\* left (WiFiManager.cpp:923-979).
THEOREM LoopAsStation == Spec => []LoopIsStation
<1>1. Init => StationInv
  BY DEF Init, StationInv, LoopIsStation
<1>2. StationInv => LoopIsStation
  BY DEF StationInv
<1> QED
  BY <1>1, <1>2, StepMode, PTL DEF Spec

\* The stored network changes only in SaveWifi and in the two erasures.
LEMMA StepCredentials ==
  ASSUME [Next]_vars
  PROVE  stored' # stored => \/ pc' = "joinSubmitted" /\ stored' # NoSsid
                             \/ pc' = "restart" /\ stored' = NoSsid
<1> USE DEF wifiVars
<1>1. CASE Setup \/ Services \/ Restart
  BY <1>1 DEF Setup, Services, Restart, Restarted
<1>2. CASE Connecting
  BY <1>2 DEF Connecting, AutoConnect, StoredJoins, StoredFails, StartPortal,
              SubmittedJoins, SubmittedFails, ClosePortal
<1>3. CASE Visit
  BY <1>3 DEF Visit, SaveWifi, ConnectNew
<1>4. CASE Meddle
  <2>1. CASE \E s \in Mistyped : SaveWifi(s)
    BY <2>1 DEF SaveWifi, ConnectNew
  <2>2. CASE SaveNothing \/ Exit \/ AskRestart \/ Erase \/ LastRequest \/ ResetToDefault
    BY <2>2 DEF SaveNothing, Exit, AskRestart, Erase, LastRequest, ResetToDefault
  <2>3. CASE Restarted
    BY <2>3 DEF Restarted
  <2> QED
    BY <1>4, <2>1, <2>2, <2>3 DEF Meddle
<1>5. CASE Radio \/ Handlers
  BY <1>5 DEF Radio, Join, JoinFails, Drop, NetworkTurns, Handlers, onWifiConnect,
              onWifiDisconnect
<1>6. CASE Tick \/ LoopPass
  BY <1>6 DEF Tick, LoopPass
<1>7. CASE UNCHANGED vars
  BY <1>7 DEF vars
<1> QED
  BY <1>1, <1>2, <1>3, <1>4, <1>5, <1>6, <1>7 DEF Next, Program

\* A save without a network, a failed attempt and a power cut keep what is
\* stored.
THEOREM CredentialsKept == Spec => KeepsCredentials
<1>1. [Next]_vars =>
        [stored' # stored => \/ pc' = "joinSubmitted" /\ stored' # NoSsid
                             \/ pc' = "restart" /\ stored' = NoSsid]_vars
  BY StepCredentials
<1> QED
  BY <1>1, PTL DEF Spec, KeepsCredentials

---------------------------------------------------------------------------
\* The sensor.  In the driver only a DHT22 is taken for a DHT22.
DriverOK ==
  /\ kind \in Kinds
  /\ driver.type \in Kinds \cup {Unknown}
  /\ kind = 11 => driver.type # 22

SensorInv == DriverOK /\ EnvironmentTold

LEMMA SampledWhole ==
  ASSUME NEW d, NEW type, NEW t
  PROVE  LET e == Sampled(d, type, t, "whole")
         IN  e.type = type /\ e.values.format = type /\ e.values.whole
<1> DEFINE v == [format |-> type, whole |-> TRUE]
<1>1. ("whole" = "whole") = TRUE
  OBVIOUS
<1>2. Sampled(d, type, t, "whole") = [type |-> type, lastRead |-> t, values |-> v]
  BY <1>1 DEF Sampled
<1> QED
  BY <1>2

\* What read() returns as good was decoded in the format of the type that it
\* leaves in the driver, from bits with the right sum.
LEMMA ReadSound ==
  ASSUME NEW d, NEW k \in Kinds, NEW t,
         d.type \in Kinds \cup {Unknown}, k = 11 => d.type # 22,
         NEW r \in read(d, k, t)
  PROVE  /\ r.driver.type \in Kinds \cup {Unknown}
         /\ k = 11 => r.driver.type # 22
         /\ r.result = "ok" => /\ r.driver.values.whole
                               /\ r.driver.values.format = r.driver.type
                               /\ r.driver.type \in Kinds
<1> USE DEF Kinds, Unknown, Samples, Answers, Result, Sampled, NoValues
<1>1. CASE d.type = Unknown
  <2>1. \/ \E s \in Answers(k, 22) \cap {"whole"} :
             r = [driver |-> Sampled(d, 22, t, s), result |-> Result(s)]
        \/ \E s \in Answers(k, 11) :
             r = [driver |-> IF s = "whole" THEN Sampled(d, 11, t, s)
                             ELSE [Sampled(d, 11, t, s) EXCEPT !.type = Unknown],
                  result |-> Result(s)]
    BY <1>1 DEF read, ReadUnknown
  <2>2. CASE \E s \in Answers(k, 22) \cap {"whole"} :
               r = [driver |-> Sampled(d, 22, t, s), result |-> Result(s)]
    <3>1. k = 22 /\ r.driver = Sampled(d, 22, t, "whole")
      BY <2>2
    <3> QED
      BY <3>1, SampledWhole
  <2>3. CASE \E s \in Answers(k, 11) :
               r = [driver |-> IF s = "whole" THEN Sampled(d, 11, t, s)
                               ELSE [Sampled(d, 11, t, s) EXCEPT !.type = Unknown],
                    result |-> Result(s)]
    <3>1. PICK s \in Samples :
            r = [driver |-> IF s = "whole" THEN Sampled(d, 11, t, s)
                            ELSE [Sampled(d, 11, t, s) EXCEPT !.type = Unknown],
                 result |-> Result(s)]
      BY <2>3
    <3>2. CASE s = "whole"
      <4>1. r.driver = Sampled(d, 11, t, "whole")
        BY <3>1, <3>2
      <4> QED
        BY <4>1, SampledWhole
    <3>3. CASE s # "whole"
      BY <3>1, <3>3
    <3> QED
      BY <3>2, <3>3
  <2> QED
    BY <2>1, <2>2, <2>3
<1>2. CASE d.type # Unknown
  <2>1. \/ r = [driver |-> d, result |-> "waiting"]
        \/ \E s \in Answers(k, d.type) :
             r = [driver |-> Sampled(d, d.type, t, s), result |-> Result(s)]
    BY <1>2 DEF read, ReadKnown
  <2>2. CASE r = [driver |-> d, result |-> "waiting"]
    BY <2>2
  <2>3. CASE \E s \in Answers(k, d.type) :
               r = [driver |-> Sampled(d, d.type, t, s), result |-> Result(s)]
    <3>1. PICK s \in Samples :
            r = [driver |-> Sampled(d, d.type, t, s), result |-> Result(s)]
      BY <2>3
    <3> QED
      BY <1>2, <3>1
  <2> QED
    BY <2>1, <2>2, <2>3
<1> QED
  BY <1>1, <1>2

LEMMA SensorLoopKeeps ==
  ASSUME SensorInv, sensorLoop, kind' = kind
  PROVE  SensorInv'
<1>1. CASE UNCHANGED <<driver, sensor>>
  BY <1>1 DEF SensorInv, DriverOK, EnvironmentTold
<1>2. CASE \E r \in read(driver, kind, clock) :
             driver' = r.driver /\ sensor' = Kept(r)
  <2>1. PICK r \in read(driver, kind, clock) :
          driver' = r.driver /\ sensor' = Kept(r)
    BY <1>2
  <2>2. /\ r.driver.type \in Kinds \cup {Unknown}
        /\ kind = 11 => r.driver.type # 22
        /\ r.result = "ok" => /\ r.driver.values.whole
                              /\ r.driver.values.format = r.driver.type
                              /\ r.driver.type \in Kinds
    BY ReadSound DEF SensorInv, DriverOK
  <2>3. sensor'.error = "ok" => r.result = "ok" /\ sensor'.reading = r.driver.values
    BY <2>1 DEF Kept
  <2>4. r.result = "ok" => r.driver.values # NoValues
    BY <2>2 DEF NoValues
  <2> QED
    BY <2>1, <2>2, <2>3, <2>4 DEF SensorInv, DriverOK, EnvironmentTold
<1> QED
  BY <1>1, <1>2 DEF sensorLoop

LEMMA StepSensor ==
  ASSUME SensorInv, [Next]_vars
  PROVE  SensorInv'
<1>1. CASE LoopPass
  BY <1>1, SensorLoopKeeps DEF LoopPass
<1>2. CASE Restarted
  BY <1>2 DEF Restarted, NewDriver, NewSensor, SensorInv, DriverOK, EnvironmentTold,
              Kinds, Unknown
<1>3. CASE UNCHANGED <<kind, driver, sensor>>
  BY <1>3 DEF SensorInv, DriverOK, EnvironmentTold
<1>4. \/ LoopPass \/ Restarted \/ UNCHANGED <<kind, driver, sensor>>
  <2>1. CASE Setup \/ Services \/ Restart \/ Tick \/ LoopPass
    BY <2>1 DEF Setup, Services, Restart, Tick, sensorVars
  <2>2. CASE Connecting \/ Visit \/ Radio \/ Handlers
    BY <2>2 DEF Connecting, Visit, Radio, Handlers, restVars, sensorVars
  <2>3. CASE Meddle
    BY <2>3 DEF Meddle, restVars, sensorVars
  <2>4. CASE UNCHANGED vars
    BY <2>4 DEF vars, sensorVars
  <2> QED
    BY <2>1, <2>2, <2>3, <2>4 DEF Next, Program
<1> QED
  BY <1>1, <1>2, <1>3, <1>4

\* No caller of getJson finds an empty optional, a value with a wrong sum or
\* one in the other sensor's format.
THEOREM SensorCorrect == Spec => []EnvironmentTold
<1>1. Init => SensorInv
  BY DEF Init, NewDriver, NewSensor, SensorInv, DriverOK, EnvironmentTold, Kinds, Unknown
<1>2. Spec => []SensorInv
  BY <1>1, StepSensor, PTL DEF Spec
<1>3. SensorInv => EnvironmentTold
  BY DEF SensorInv
<1> QED
  BY <1>2, <1>3, PTL

---------------------------------------------------------------------------
\* The clock.  elapsed, which does not wrap, says how far clock has gone since
\* lastTime; it stays below Wrap because a pass of loop() comes in time.
Typed ==
  /\ clock \in Ticks
  /\ gap \in 0..MaxGap
  /\ lastTime \in Ticks \cup {Never}
  /\ elapsed \in Nat \cup {Never}

Counted ==
  elapsed # Never =>
    /\ lastTime # Never
    /\ elapsed <= ReadRate + gap
    /\ clock = lastTime + elapsed \/ clock = lastTime + elapsed - Wrap

DriverInStep == driver.type # Unknown => elapsed # Never /\ driver.lastRead = lastTime

TimeInv == Typed /\ Counted /\ DriverInStep /\ NeverWaitsAgain

\* The subtraction that wraps gives the true distance.
LEMMA SinceIsElapsed ==
  ASSUME Typed, Counted, elapsed # Never
  PROVE  Since(clock, lastTime) = elapsed /\ elapsed \in Nat
<1>1. /\ elapsed \in Nat /\ elapsed < Wrap /\ Wrap \in Nat
      /\ clock - lastTime = elapsed \/ clock - lastTime = elapsed - Wrap
  BY ClockAssumption, GapAssumption DEF Typed, Counted, Ticks, Never
<1>2. elapsed % Wrap = elapsed /\ (elapsed - Wrap) % Wrap = elapsed
  BY <1>1
<1> QED
  BY <1>1, <1>2 DEF Since

LEMMA NextTick ==
  ASSUME NEW c \in Ticks
  PROVE  (c + 1) % Wrap = IF c + 1 < Wrap THEN c + 1 ELSE 0
<1>1. c \in Nat /\ Wrap \in Nat /\ c < Wrap
  BY ClockAssumption DEF Ticks
<1>2. CASE c + 1 < Wrap
  BY <1>1, <1>2
<1>3. CASE c + 1 = Wrap
  BY <1>1, <1>3
<1> QED
  BY <1>1, <1>2, <1>3

LEMMA TickTime ==
  ASSUME TimeInv, Tick
  PROVE  TimeInv'
<1>1. clock \in Nat /\ clock < Wrap /\ Wrap \in Nat /\ gap \in Nat /\ ReadRate \in Nat
  BY ClockAssumption, GapAssumption DEF TimeInv, Typed, Ticks
<1>2. clock' = IF clock + 1 < Wrap THEN clock + 1 ELSE 0
  <2>1. (clock + 1) % Wrap = IF clock + 1 < Wrap THEN clock + 1 ELSE 0
    BY NextTick DEF TimeInv, Typed
  <2> QED
    BY <2>1, Zenon DEF Tick
<1>3. gap' = gap + 1 /\ gap + 1 <= MaxGap
  BY <1>1, GapAssumption DEF Tick, TimeInv, Typed
<1>4. Typed'
  BY <1>1, <1>2, <1>3, GapAssumption DEF TimeInv, Typed, Ticks, Tick, Never
<1>5. CASE elapsed = Never
  BY <1>4, <1>5 DEF TimeInv, Counted, DriverInStep, NeverWaitsAgain, Tick
<1>6. CASE elapsed # Never
  <2>1. elapsed \in Nat /\ elapsed < Wrap
    BY <1>1, <1>6, GapAssumption DEF TimeInv, Typed, Counted
  <2>2. elapsed' = elapsed + 1 /\ elapsed' # Never
    BY <1>6, <2>1 DEF Tick, Never
  <2>3. lastTime \in Nat /\ lastTime < Wrap /\ lastTime # Never /\ lastTime' = lastTime
    BY <1>1, <1>6 DEF TimeInv, Typed, Counted, Ticks, Tick
  <2>4. clock' = lastTime + elapsed' \/ clock' = lastTime + elapsed' - Wrap
    <3>1. clock = lastTime + elapsed \/ clock = lastTime + elapsed - Wrap
      BY <1>6 DEF TimeInv, Counted
    <3> QED
      BY <1>1, <1>2, <2>1, <2>2, <2>3, <3>1
  <2>5. elapsed' <= ReadRate + gap'
    BY <1>1, <1>3, <1>6, <2>1, <2>2 DEF TimeInv, Counted
  <2>6. Counted'
    BY <2>2, <2>3, <2>4, <2>5 DEF Counted
  <2> QED
    BY <1>4, <1>6, <2>2, <2>6 DEF TimeInv, DriverInStep, NeverWaitsAgain, Tick
<1> QED
  BY <1>5, <1>6

\* A read() that is due never answers WAITING_FOR_READ.
LEMMA ReadNeverWaits ==
  ASSUME TimeInv, Due(clock, First), NEW r \in read(driver, kind, clock)
  PROVE  /\ r.result # "waiting"
         /\ r.driver.type # Unknown => r.driver.lastRead = clock
         /\ elapsed # Never => elapsed > ReadRate
<1>1. elapsed # Never => elapsed > ReadRate /\ elapsed \in Nat
  <2>1. SUFFICES ASSUME elapsed # Never PROVE elapsed > ReadRate /\ elapsed \in Nat
    OBVIOUS
  <2>2. First = lastTime
    BY <2>1 DEF First, TimeInv, Counted
  <2> QED
    BY <2>1, <2>2, SinceIsElapsed DEF TimeInv, Due
<1>2. \A s \in Samples : Result(s) # "waiting"
  BY DEF Samples, Result
<1>3. CASE driver.type = Unknown
  <2>1. r \in ReadUnknown(driver, kind, clock)
    BY <1>3 DEF read
  <2>2. \/ \E s \in Samples : r = [driver |-> Sampled(driver, 22, clock, s), result |-> Result(s)]
        \/ \E s \in Samples :
             r = [driver |-> IF s = "whole" THEN Sampled(driver, 11, clock, s)
                             ELSE [Sampled(driver, 11, clock, s) EXCEPT !.type = Unknown],
                  result |-> Result(s)]
    BY <2>1 DEF ReadUnknown, Answers, Samples
  <2>3. ASSUME NEW s \in Samples, NEW type
        PROVE  /\ Sampled(driver, type, clock, s).lastRead = clock
               /\ [Sampled(driver, type, clock, s) EXCEPT !.type = Unknown].type = Unknown
    BY DEF Sampled
  <2>4. CASE \E s \in Samples :
               r = [driver |-> Sampled(driver, 22, clock, s), result |-> Result(s)]
    BY <1>1, <1>2, <2>3, <2>4
  <2>5. CASE \E s \in Samples :
             r = [driver |-> IF s = "whole" THEN Sampled(driver, 11, clock, s)
                             ELSE [Sampled(driver, 11, clock, s) EXCEPT !.type = Unknown],
                  result |-> Result(s)]
    BY <1>1, <1>2, <2>3, <2>5
  <2> QED
    BY <2>2, <2>4, <2>5
<1>4. CASE driver.type # Unknown
  <2>1. /\ elapsed \in Nat /\ elapsed > ReadRate
        /\ Since(clock, driver.lastRead) = elapsed
    BY <1>1, <1>4, SinceIsElapsed DEF TimeInv, DriverInStep
  <2>2. ~(Since(clock, driver.lastRead) < ReadDelay)
    BY <2>1, ClockAssumption
  <2>3. \E s \in Samples :
          r = [driver |-> Sampled(driver, driver.type, clock, s), result |-> Result(s)]
    BY <1>4, <2>2 DEF read, ReadKnown, Answers, Samples
  <2> QED
    BY <1>1, <1>2, <2>3 DEF Sampled
<1> QED
  BY <1>3, <1>4

LEMMA LoopPassTime ==
  ASSUME TimeInv, LoopPass
  PROVE  TimeInv'
<1>1. gap' = 0 /\ clock' = clock
  BY DEF LoopPass
<1>2. First \in Ticks /\ clock \in Ticks /\ ReadRate \in Nat
  BY ClockAssumption DEF First, TimeInv, Typed
<1>3. CASE Due(clock, First)
  <2>1. PICK r \in read(driver, kind, clock) : driver' = r.driver /\ sensor' = Kept(r)
    BY <1>3 DEF LoopPass, sensorLoop
  <2>2. lastTime' = clock /\ elapsed' = 0
    BY <1>3 DEF LoopPass, sensorLoop
  <2>3. Typed' /\ Counted'
    BY <1>1, <1>2, <2>2, GapAssumption DEF Typed, Counted, Ticks, Never
  <2>4. sensor'.error # "waiting"
    BY <1>3, <2>1, ReadNeverWaits DEF Kept
  <2>5. driver'.type # Unknown => driver'.lastRead = clock
    BY <1>3, <2>1, ReadNeverWaits
  <2> QED
    BY <2>2, <2>3, <2>4, <2>5 DEF TimeInv, DriverInStep, NeverWaitsAgain, Never
<1>4. CASE ~Due(clock, First)
  <2>1. lastTime' = First /\ UNCHANGED <<driver, sensor, elapsed>>
    BY <1>4 DEF LoopPass, sensorLoop
  <2>2. elapsed # Never => lastTime' = lastTime /\ elapsed <= ReadRate
    <3>1. SUFFICES ASSUME elapsed # Never PROVE lastTime' = lastTime /\ elapsed <= ReadRate
      OBVIOUS
    <3>2. First = lastTime
      BY <3>1 DEF First, TimeInv, Counted
    <3> QED
      BY <1>2, <1>4, <2>1, <3>1, <3>2, SinceIsElapsed DEF TimeInv, Due
  <2>3. Typed' /\ Counted'
    BY <1>1, <1>2, <2>1, <2>2, GapAssumption DEF TimeInv, Typed, Counted
  <2> QED
    BY <2>1, <2>2, <2>3 DEF TimeInv, DriverInStep, NeverWaitsAgain
<1> QED
  BY <1>3, <1>4

LEMMA RestartedTime ==
  ASSUME Restarted
  PROVE  TimeInv'
<1>1. 0 \in Ticks /\ 0 \in 0..MaxGap
  BY ClockAssumption, GapAssumption DEF Ticks
<1> QED
  BY <1>1 DEF Restarted, NewDriver, NewSensor, TimeInv, Typed, Counted, DriverInStep,
              NeverWaitsAgain

LEMMA InitTime == Init => TimeInv
<1>1. 0 \in Ticks /\ 0 \in 0..MaxGap
  BY ClockAssumption, GapAssumption DEF Ticks
<1> QED
  BY <1>1 DEF Init, NewDriver, NewSensor, TimeInv, Typed, Counted, DriverInStep,
              NeverWaitsAgain

\* The clock is read for the first time when setup() ends.
BeforeLoop == pc \notin {"loop", "restart"} => elapsed = Never

LEMMA KeptTime ==
  ASSUME TimeInv, UNCHANGED sensorVars
  PROVE  TimeInv'
  BY DEF TimeInv, Typed, Counted, DriverInStep, NeverWaitsAgain, sensorVars

LEMMA StepTime ==
  ASSUME TimeInv, BeforeLoop, [Next]_vars
  PROVE  TimeInv' /\ BeforeLoop'
<1> USE DEF BeforeLoop
<1>1. CASE Tick
  BY <1>1, TickTime DEF Tick
<1>2. CASE LoopPass
  BY <1>2, LoopPassTime DEF LoopPass
<1>3. CASE Restarted
  BY <1>3, RestartedTime DEF Restarted
<1>4. CASE Services
  <2>1. elapsed = Never /\ clock' \in Ticks
    BY <1>4 DEF Services, TimeInv, Typed
  <2>2. UNCHANGED <<driver, sensor, lastTime, elapsed, gap>>
    BY <1>4 DEF Services
  <2> QED
    BY <2>1, <2>2 DEF TimeInv, Typed, Counted, DriverInStep, NeverWaitsAgain
<1>5. CASE Setup
  BY <1>5, KeptTime DEF Setup, sensorVars
<1>6. CASE Connecting
  <2>1. pc \notin {"loop", "restart"}
    BY <1>6 DEF Connecting, AutoConnect, StoredJoins, StoredFails, StartPortal,
                SubmittedJoins, SubmittedFails, ClosePortal, Closing
  <2>2. UNCHANGED sensorVars
    BY <1>6 DEF Connecting, restVars
  <2> QED
    BY <2>1, <2>2, KeptTime DEF sensorVars
<1>7. CASE Visit
  <2>1. pc = "portal" /\ UNCHANGED sensorVars
    BY <1>7 DEF Visit, SaveWifi, restVars
  <2> QED
    BY <2>1, KeptTime DEF sensorVars
<1>8. CASE Meddle /\ ~Restarted
  <2>1. UNCHANGED sensorVars
    BY <1>8 DEF Meddle, restVars
  <2>2. pc' \notin {"loop", "restart"} => pc \notin {"loop", "restart"}
    BY <1>8 DEF Meddle, SaveWifi, SaveNothing, Exit, AskRestart, Erase, LastRequest, ResetToDefault
  <2> QED
    BY <2>1, <2>2, KeptTime DEF sensorVars
<1>9. CASE Radio \/ Handlers
  <2>1. UNCHANGED <<pc, sensorVars>>
    BY <1>9 DEF Radio, Join, JoinFails, Drop, NetworkTurns, Handlers, onWifiConnect,
                onWifiDisconnect, restVars
  <2> QED
    BY <2>1, KeptTime DEF sensorVars
<1>10. CASE UNCHANGED vars
  <2>1. UNCHANGED <<pc, sensorVars>>
    BY <1>10 DEF vars
  <2> QED
    BY <2>1, KeptTime DEF sensorVars
<1> QED
  BY <1>1, <1>2, <1>3, <1>4, <1>5, <1>6, <1>7, <1>8, <1>9, <1>10
     DEF Next, Program, Restart

LEMMA TimeKept == Spec => [](TimeInv /\ BeforeLoop)
<1>1. Init => BeforeLoop
  BY DEF Init, BeforeLoop
<1> QED
  BY <1>1, InitTime, StepTime, PTL DEF Spec

\* The driver's interval never gets in the way of the firmware's, and reads
\* are spaced, wherever millis() wraps.
THEOREM ReadsInTime == Spec => []NeverWaitsAgain /\ ReadsSpaced
<1>1. Spec => [](TimeInv /\ BeforeLoop)
  BY TimeKept
<1>2. TimeInv /\ BeforeLoop /\ [Next]_vars
        => [elapsed' = 0 /\ elapsed > 0 => elapsed > ReadRate]_vars
  <2>1. SUFFICES ASSUME TimeInv, BeforeLoop, [Next]_vars, elapsed' = 0, elapsed > 0
                 PROVE  elapsed > ReadRate
    OBVIOUS
  <2>2. elapsed # Never /\ elapsed \in Nat /\ elapsed' # elapsed
    BY <2>1 DEF TimeInv, Typed, Never
  <2>3. CASE LoopPass
    <3>1. Due(clock, First)
      BY <2>2, <2>3 DEF LoopPass, sensorLoop
    <3>2. PICK r \in read(driver, kind, clock) : TRUE
      BY <2>3, <3>1 DEF LoopPass, sensorLoop
    <3> QED
      BY <2>1, <2>2, <3>1, <3>2, ReadNeverWaits
  <2>4. CASE Tick
    BY <2>1, <2>2, <2>4 DEF Tick, Never
  <2>5. CASE Restarted
    BY <2>1, <2>5 DEF Restarted, Never
  <2>6. UNCHANGED elapsed \/ LoopPass \/ Tick \/ Restarted
    <3>1. CASE Setup \/ Services \/ Restart \/ UNCHANGED vars
      BY <3>1 DEF Setup, Services, Restart, vars, sensorVars
    <3>2. CASE Connecting \/ Visit \/ Radio \/ Handlers \/ Meddle
      BY <3>2 DEF Connecting, Visit, Radio, Handlers, Meddle, restVars, sensorVars
    <3> QED
      BY <2>1, <3>1, <3>2 DEF Next, Program
  <2> QED
    BY <2>2, <2>3, <2>4, <2>5, <2>6
<1>3. TimeInv => NeverWaitsAgain
  BY DEF TimeInv
<1> QED
  BY <1>1, <1>2, <1>3, PTL DEF Spec, ReadsSpaced

\* In particular the driver refuses no read after the first.
THEOREM NeverTooSoon == Spec => []NeverWaitsAgain
BY ReadsInTime, PTL

---------------------------------------------------------------------------
\* Types.  Those of the sensor's variables follow from what read() may
\* return, the bound on elapsed from TimeInv, the queue's from WifiInv.
StationTypes ==
  /\ pc \in {"mount", "autoConnect", "joinStored", "startPortal", "portal",
             "joinSubmitted", "closeJoined", "closeAborted", "services",
             "loop", "restart"}
  /\ network \in BOOLEAN /\ stored \in Ssids \cup {NoSsid}
  /\ mode \subseteq {"station", "ap"}
  /\ link \in {"idle", "joining", "failed", "joined"}
  /\ config \in Configs
  /\ meddling \in 0..MaxMeddling

SensorTypes ==
  /\ kind \in Kinds
  /\ driver \in [type : Kinds \cup {Unknown}, lastRead : Ticks,
                 values : Decoded \cup {NoValues}]
  /\ sensor \in [reading : Decoded \cup {NoValues}, error : Errors]

LEMMA StartTypes == Init => StationTypes /\ SensorTypes
<1>1. 0 \in Ticks /\ 0 \in 0..MaxMeddling
  BY ClockAssumption, GapAssumption DEF Ticks
<1> QED
  <2>1. Init => StationTypes
    BY <1>1 DEF Init, StationTypes, Ssids
  <2>2. Init => SensorTypes
    BY <1>1 DEF Init, SensorTypes, NewDriver, NewSensor, Errors
  <2> QED
    BY <2>1, <2>2

LEMMA StepStation ==
  ASSUME StationTypes, [Next]_vars
  PROVE  StationTypes'
<1> USE DEF StationTypes, Ssids, wifiVars
<1>1. CASE Setup \/ Services \/ Tick \/ LoopPass
  BY <1>1 DEF Setup, Services, Tick, LoopPass
<1>2. CASE Restart
  BY <1>2 DEF Restart, Restarted
<1>3. CASE Connecting
  BY <1>3 DEF Connecting, restVars, AutoConnect, StoredJoins, StoredFails, StartPortal,
              StationOff, SubmittedJoins, SubmittedFails, ClosePortal
<1>4. CASE Visit
  BY <1>4 DEF Visit, SaveWifi, ConnectNew, restVars
<1>5. CASE Meddle
  <2>1. meddling' \in 0..MaxMeddling
    BY <1>5, GapAssumption DEF Meddle
  <2>2. CASE Restarted
    BY <2>1, <2>2 DEF Restarted
  <2>3. CASE (\E s \in Mistyped : SaveWifi(s)) /\ UNCHANGED restVars
    BY <2>1, <2>3 DEF SaveWifi, ConnectNew, restVars
  <2>4. CASE /\ SaveNothing \/ Exit \/ AskRestart \/ Erase \/ LastRequest \/ ResetToDefault
             /\ UNCHANGED restVars
    BY <2>1, <2>4 DEF SaveNothing, StationOff, Exit, AskRestart, Erase, LastRequest,
                      ResetToDefault, restVars
  <2> QED
    BY <1>5, <2>2, <2>3, <2>4 DEF Meddle
<1>6. CASE Radio
  BY <1>6 DEF Radio, Join, JoinFails, Drop, NetworkTurns, restVars
<1>7. CASE Handlers
  BY <1>7 DEF Handlers, onWifiConnect, onWifiDisconnect, restVars
<1>8. CASE UNCHANGED vars
  BY <1>8 DEF vars
<1> QED
  BY <1>1, <1>2, <1>3, <1>4, <1>5, <1>6, <1>7, <1>8 DEF Next, Program

LEMMA ReadTyped ==
  ASSUME SensorTypes, clock \in Ticks, NEW r \in read(driver, kind, clock)
  PROVE  /\ r.driver \in [type : Kinds \cup {Unknown}, lastRead : Ticks,
                          values : Decoded \cup {NoValues}]
         /\ Kept(r) \in [reading : Decoded \cup {NoValues}, error : Errors]
<1> DEFINE Driver == [type : Kinds \cup {Unknown}, lastRead : Ticks,
                      values : Decoded \cup {NoValues}]
<1>1. ASSUME NEW type \in Kinds, NEW s \in Samples
      PROVE  /\ Sampled(driver, type, clock, s) \in Driver
             /\ [Sampled(driver, type, clock, s) EXCEPT !.type = Unknown] \in Driver
             /\ Result(s) \in Errors
  BY <1>1 DEF Sampled, Decoded, Result, Errors, Samples
<1> HIDE DEF Driver
<1>2. r.driver \in Driver /\ r.result \in Errors
  <2>1. CASE driver.type = Unknown
    <3>1. \E s \in Samples :
            /\ r.result = Result(s)
            /\ \/ r.driver = Sampled(driver, 22, clock, s)
               \/ r.driver = Sampled(driver, 11, clock, s)
               \/ r.driver = [Sampled(driver, 11, clock, s) EXCEPT !.type = Unknown]
      BY <2>1 DEF read, ReadUnknown, Answers, Samples
    <3>2. 11 \in Kinds /\ 22 \in Kinds
      BY DEF Kinds
    <3> QED
      BY <1>1, <3>1, <3>2, Zenon
  <2>2. CASE driver.type # Unknown
    <3>1. \/ r.driver = driver /\ r.result = "waiting"
          \/ \E s \in Samples : /\ r.driver = Sampled(driver, driver.type, clock, s)
                                /\ r.result = Result(s)
      BY <2>2 DEF read, ReadKnown, Answers, Samples
    <3>2. driver \in Driver /\ driver.type \in Kinds /\ "waiting" \in Errors
      BY <2>2 DEF SensorTypes, Errors, Driver
    <3> QED
      BY <1>1, <3>1, <3>2
  <2> QED
    BY <2>1, <2>2
<1>3. r.driver.values \in Decoded \cup {NoValues}
  BY <1>2 DEF Driver
<1> QED
  BY <1>2, <1>3 DEF Driver, Kept, Errors

LEMMA StepSensorTypes ==
  ASSUME SensorTypes, clock \in Ticks, [Next]_vars
  PROVE  SensorTypes'
<1>1. CASE LoopPass
  <2>1. kind' = kind
    BY <1>1 DEF LoopPass
  <2>2. CASE UNCHANGED <<driver, sensor>>
    BY <2>1, <2>2 DEF SensorTypes
  <2>3. CASE \E r \in read(driver, kind, clock) : driver' = r.driver /\ sensor' = Kept(r)
    BY <2>1, <2>3, ReadTyped DEF SensorTypes
  <2> QED
    BY <1>1, <2>2, <2>3 DEF LoopPass, sensorLoop
<1>2. CASE Restarted
  <2>1. 0 \in Ticks
    BY ClockAssumption DEF Ticks
  <2> QED
    BY <1>2, <2>1 DEF Restarted, NewDriver, NewSensor, SensorTypes, Errors
<1>3. CASE UNCHANGED <<kind, driver, sensor>>
  BY <1>3 DEF SensorTypes
<1>4. \/ LoopPass \/ Restarted \/ UNCHANGED <<kind, driver, sensor>>
  <2>1. CASE Setup \/ Services \/ Restart \/ Tick \/ LoopPass
    BY <2>1 DEF Setup, Services, Restart, Tick, sensorVars
  <2>2. CASE Connecting \/ Visit \/ Radio \/ Handlers
    BY <2>2 DEF Connecting, Visit, Radio, Handlers, restVars, sensorVars
  <2>3. CASE Meddle
    BY <2>3 DEF Meddle, restVars, sensorVars
  <2>4. CASE UNCHANGED vars
    BY <2>4 DEF vars, sensorVars
  <2> QED
    BY <2>1, <2>2, <2>3, <2>4 DEF Next, Program
<1> QED
  BY <1>1, <1>2, <1>3, <1>4

\* Every variable keeps its type, the ticks since a read included, which would
\* reach Wrap if loop() came too late.
THEOREM TypeCorrect == Spec => []TypeOK
<1>1. StationTypes /\ SensorTypes /\ TimeInv /\ [Next]_vars => StationTypes' /\ SensorTypes'
  BY StepStation, StepSensorTypes DEF TimeInv, Typed
<1>2. StationTypes /\ SensorTypes /\ TimeInv /\ WifiInv => TypeOK
  <2>1. TimeInv => elapsed \in 0..Wrap \cup {Never}
    BY ClockAssumption, GapAssumption DEF TimeInv, Typed, Counted
  <2> QED
    BY <2>1 DEF StationTypes, SensorTypes, TimeInv, Typed, WifiInv, TypeOK
<1> QED
  BY <1>1, <1>2, StartTypes, TimeKept, WifiKept, PTL DEF Spec
=============================================================================
