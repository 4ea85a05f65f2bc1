------------------------------ MODULE Firmware ------------------------------
(***************************************************************************)
(* setup() and loop() of src/src/main.cpp around the Wi-Fi manager and the *)
(* environment sensor: the order in which the parts start, what a restart  *)
(* at any moment loses and keeps, and the passes of loop().  Of MQTT there *)
(* is only what the Wi-Fi handlers last told it (MqttSupervisor has the    *)
(* rest).                                                                  *)
(***************************************************************************)
EXTENDS WiFiManager, EnvironmentSensor

CONSTANTS
  MaxGap,       \* ticks that may pass between two passes of loop()
  MaxMeddling   \* power cuts and requests that do not help, altogether

ASSUME GapAssumption == /\ MaxGap \in Nat \ {0}
                        /\ ReadRate + MaxGap < Wrap
                        /\ MaxMeddling \in Nat

VARIABLES
  config,     \* what /config.json holds
  kind,       \* the sensor that is connected
  driver,     \* dhtSensor.m_sensor
  sensor,     \* dhtSensor: the reading and the error
  lastTime,   \* the static variable of DHTSensor::loop, or Never
  clock,      \* millis()
  elapsed,    \* ticks since the last read() of this boot, or Never
  gap,        \* ticks since the last pass of loop()
  meddling    \* counts up to MaxMeddling

sensorVars == <<driver, sensor, lastTime, clock, elapsed, gap>>
vars == <<pc, wifiVars, config, kind, sensorVars, meddling>>

Never == -1

\* "usable" is also a missing file, which leaves the defaults; std::stoi
\* throws on the two ports.
Configs == {"usable", "corrupt", "portless", "syslogPortless"}

Init ==
  /\ pc = "mount"
  /\ network \in BOOLEAN /\ stored \in {NoSsid, Home}
  /\ mode = {} /\ link = "idle" /\ events = <<>> /\ told = FALSE
  /\ config \in Configs /\ kind \in Kinds
  /\ driver = NewDriver /\ sensor = NewSensor /\ lastTime = Never
  /\ clock = 0 /\ elapsed = Never /\ gap = 0
  /\ meddling = 0

---------------------------------------------------------------------------
\* setup() up to setupWifi.  A file that does not parse ends in hang(), a bad
\* port in an exception that nobody catches: both restart the chip.
Setup ==
  /\ pc = "mount"
  /\ pc' = IF config \in {"corrupt", "portless"} THEN "restart" ELSE "autoConnect"
  /\ UNCHANGED <<wifiVars, config, kind, sensorVars, meddling>>

\* setup() after setupWifi: syslog, the infrared sender, the REST server.
Services ==
  /\ pc = "services"
  /\ \/ /\ config = "syslogPortless"
        /\ pc' = "restart"
        /\ UNCHANGED clock
     \/ /\ config # "syslogPortless"
        /\ clock' \in Ticks        \* the portal may have taken any time
        /\ pc' = "loop"
  /\ UNCHANGED <<wifiVars, config, kind, driver, sensor, lastTime, elapsed,
                 gap, meddling>>

\* ESP.reset, a crash and a power cut forget what is not in flash.
Restarted ==
  /\ pc' = "mount"
  /\ mode' = {} /\ link' = "idle" /\ events' = <<>> /\ told' = FALSE
  /\ driver' = NewDriver /\ sensor' = NewSensor /\ lastTime' = Never
  /\ clock' = 0 /\ elapsed' = Never /\ gap' = 0
  /\ UNCHANGED <<network, stored, config, kind>>

Restart == pc = "restart" /\ Restarted /\ UNCHANGED meddling

---------------------------------------------------------------------------
TickNoWrap ==
  /\ pc = "loop" /\ gap < MaxGap
  /\ clock' = clock + 1
  /\ gap' = gap + 1
  /\ elapsed' = IF elapsed \in {Never, Wrap} THEN elapsed ELSE elapsed + 1
  /\ UNCHANGED <<pc, wifiVars, config, kind, driver, sensor,
                 lastTime, meddling>>

Tick ==
  /\ pc = "loop" /\ gap < MaxGap
  /\ clock' = (clock + 1) % Wrap
  /\ gap' = gap + 1
  /\ elapsed' = IF elapsed \in {Never, Wrap} THEN elapsed ELSE elapsed + 1
  /\ UNCHANGED <<pc, wifiVars, config, kind, driver, sensor,
                 lastTime, meddling>>

\* DHTSensor::loop.  The first call initialises lastTime.
First == IF lastTime = Never THEN clock ELSE lastTime

sensorLoop ==
  \/ /\ Due(clock, First)
     /\ \E r \in read(driver, kind, clock) :
          driver' = r.driver /\ sensor' = Kept(r)
     /\ lastTime' = clock
     /\ elapsed' = 0
  \/ /\ ~Due(clock, First)
     /\ lastTime' = First
     /\ UNCHANGED <<driver, sensor, elapsed>>

LoopPass ==
  /\ pc = "loop"
  /\ sensorLoop
  /\ gap' = 0
  /\ UNCHANGED <<pc, wifiVars, config, kind, clock, meddling>>

\* The serial command 'r': resetSettings, then ESP.reset.
ResetToDefault ==
  /\ pc = "loop"
  /\ stored' = NoSsid
  /\ pc' = "restart"
  /\ UNCHANGED <<network, mode, link, events, told>>

---------------------------------------------------------------------------
restVars == <<config, kind, sensorVars>>

Connecting ==
  /\ \/ AutoConnect \/ StoredJoins \/ StoredFails \/ StartPortal
     \/ SubmittedJoins \/ SubmittedFails \/ ClosePortal
  /\ UNCHANGED <<restVars, meddling>>

Visit == SaveWifi(Home) /\ UNCHANGED <<restVars, meddling>>

Meddle ==
  /\ meddling < MaxMeddling
  /\ meddling' = meddling + 1
  /\ \/ /\ \/ \E s \in Mistyped : SaveWifi(s)
           \/ SaveNothing \/ Exit \/ AskRestart \/ Erase \/ LastRequest
           \/ ResetToDefault
        /\ UNCHANGED restVars
     \/ Restarted          \* a power cut, a failed mount, an OTA update

Radio ==
  /\ Join \/ JoinFails \/ Drop \/ NetworkTurns
  /\ UNCHANGED <<restVars, meddling>>

Handlers ==
  /\ onWifiConnect \/ onWifiDisconnect
  /\ UNCHANGED <<restVars, meddling>>

Program == Setup \/ Services \/ Restart \/ Connecting

Next == Program \/ Visit \/ Meddle \/ Radio \/ Handlers \/ Tick \/ LoopPass

Spec == Init /\ [][Next]_vars

\* The program, its handlers and the stack keep running; a station that can
\* join again and again joins in the end; and a visitor who finds the portal
\* open names the household network.
Fairness ==
  /\ WF_vars(Program) /\ WF_vars(Handlers) /\ WF_vars(Tick) /\ WF_vars(LoopPass)
  /\ SF_vars(Join /\ UNCHANGED <<restVars, meddling>>)
  /\ WF_vars(Visit)

FairSpec == Spec /\ Fairness

---------------------------------------------------------------------------
TypeOK ==
  /\ pc \in {"mount", "autoConnect", "joinStored", "startPortal", "portal",
             "joinSubmitted", "closeJoined", "closeAborted", "services",
             "loop", "restart"}
  /\ network \in BOOLEAN /\ stored \in Ssids \cup {NoSsid}
  /\ mode \subseteq {"station", "ap"}
  /\ link \in {"idle", "joining", "failed", "joined"}
  /\ events \in Seq(Event) /\ told \in BOOLEAN
  /\ config \in Configs /\ kind \in Kinds
  /\ driver \in [type : Kinds \cup {Unknown}, lastRead : Ticks,
                 values : Decoded \cup {NoValues}]
  /\ sensor \in [reading : Decoded \cup {NoValues}, error : Errors]
  /\ lastTime \in Ticks \cup {Never} /\ clock \in Ticks
  /\ elapsed \in 0..Wrap \cup {Never} /\ gap \in 0..MaxGap
  /\ meddling \in 0..MaxMeddling

\* Whenever getJson can be called and no error is kept, both optionals hold a
\* value, whose sum was right and which is in the format of the driver's type;
\* a DHT11 is never taken for a DHT22 (DHTSensor.cpp:29-44).
EnvironmentTold ==
  /\ sensor.error = "ok" => /\ sensor.reading # NoValues
                            /\ sensor.reading.whole
                            /\ sensor.reading.format = driver.type
  /\ kind = 11 => driver.type # 22

\* The two intervals agree, across the wrap of millis() too: once the sensor
\* has been read, the driver never again refuses with WAITING_FOR_READ.
NeverWaitsAgain == sensor.error = "waiting" <=> elapsed = Never

\* Two reads are more than ReadRate apart, although their distance is computed
\* from a counter that wraps (DHTSensor.cpp:12).
ReadsSpaced == [][elapsed' = 0 /\ elapsed > 0 => elapsed > ReadRate]_vars

\* While loop() runs the sensor is read again and again (DHTSensor.cpp:10-26).
KeepsReading == []<>(pc # "loop" \/ elapsed = 0)

\* loop() never runs with the portal's access point still open, or with the
\* station switched off by an attempt that failed before.
LoopIsStation == pc \in {"services", "loop"} => mode = {"station"}

\* What MQTT will have been told when the events that wait have been handled.
LastWord == IF events = <<>> THEN told ELSE events[Len(events)] = "GotIP"

\* No change of the station escapes MQTT: whatever autoConnect and the portal
\* do to the station, from the moment it first joins, and however late the
\* handlers run, the last word is the truth about the link, so that MQTT is
\* neither left idle beside a working link nor left connecting without one
\* (main.cpp:88-109; the portal's switching at WiFiManager.cpp:709 and 902).
MqttKnowsLink == LastWord = (link = "joined")

\* The stored network is lost only to a visitor's request: to another one
\* that was named, or to an erasure, which is followed by a restart.  A save
\* without a network, a failed attempt and a power cut keep it.
KeepsCredentials ==
  [][stored' # stored => \/ pc' = "joinSubmitted" /\ stored' # NoSsid
                         \/ pc' = "restart" /\ stored' = NoSsid]_vars

\* With a configuration that can be read and a network that stays, the device
\* comes back to loop() from whatever failed attempts, exits, erasures and
\* power cuts left behind, and MQTT is told to connect and stays so.
ReachesLoop == <>[](network /\ config = "usable") => <>[](pc = "loop" /\ told)
=============================================================================
