------------------------- MODULE MqttCommandsProofs -------------------------
(* The interpreter, for every set of messages, every way to cut them into   *)
(* fragments and all times: the retained topics follow the object, and the  *)
(* receiver reads from a frame what the object holds.                       *)
EXTENDS MqttCommands, MqttClientForIRProofs, WhirlpoolYJ1BProofs

---------------------------------------------------------------------------
(* What Published leaves on a topic.                                       *)

LEMMA LastPublished ==
  ASSUME NEW pubs, Len(pubs) \in Nat, NEW t \in Topics,
         NEW k \in 1..Len(pubs), pubs[k].topic = t,
         \A j \in k + 1..Len(pubs) : pubs[j].topic # t
  PROVE  Published(pubs)[t] = pubs[k].payload
<1> DEFINE last == {i \in 1..Len(pubs) : /\ pubs[i].topic = t
                                         /\ \A j \in i + 1..Len(pubs) : pubs[j].topic # t}
<1>1. Published(pubs)[t] = IF last = {} THEN shown[t] ELSE pubs[CHOOSE i \in last : TRUE].payload
  BY Zenon DEF Published
<1>2. last = {k}
  <2>1. \A i \in 1..Len(pubs) : i # k => i \in k + 1..Len(pubs) \/ k \in i + 1..Len(pubs)
    OBVIOUS
  <2>2. k \in last
    OBVIOUS
  <2>3. \A i \in last : i = k
    BY <2>1
  <2> QED
    BY <2>2, <2>3
<1> HIDE DEF last
<1> QED
  BY <1>1, <1>2

LEMMA NotPublished ==
  ASSUME NEW pubs, NEW t \in Topics, \A j \in 1..Len(pubs) : pubs[j].topic # t
  PROVE  Published(pubs)[t] = shown[t]
<1> DEFINE last == {i \in 1..Len(pubs) : /\ pubs[i].topic = t
                                         /\ \A j \in i + 1..Len(pubs) : pubs[j].topic # t}
<1>1. Published(pubs)[t] = IF last = {} THEN shown[t] ELSE pubs[CHOOSE i \in last : TRUE].payload
  BY Zenon DEF Published
<1>2. last = {}
  OBVIOUS
<1> QED
  BY <1>1, <1>2

LEMMA OnePublished ==
  ASSUME NEW pubs, NEW x, NEW d, pubs = Publications(<<x>>, d), NEW t \in Topics, t # x
  PROVE  Published(pubs)[t] = shown[t]
<1>1. pubs = <<Publication(x, d)>>
  BY DEF Publications
<1>2. Len(pubs) = 1 /\ pubs[1].topic = x
  BY <1>1 DEF Publication
<1> QED
  BY <1>2, NotPublished

LEMMA TwoPublished ==
  ASSUME NEW pubs, NEW x, NEW d, pubs = Publications(<<x, "status">>, d), NEW t \in Topics
  PROVE  Published(pubs)[t] = IF t \in {x, "status"} THEN Text(t, d) ELSE shown[t]
<1>1. pubs = <<Publication(x, d), Publication("status", d)>>
  BY DEF Publications
<1>2. /\ Len(pubs) = 2
      /\ pubs[1].topic = x /\ pubs[1].payload = Text(x, d)
      /\ pubs[2].topic = "status" /\ pubs[2].payload = Text("status", d)
  BY <1>1 DEF Publication
<1>3. CASE t = "status"
  <2>1. /\ Len(pubs) \in Nat /\ 2 \in 1..Len(pubs) /\ pubs[2].topic = t
        /\ \A j \in 2 + 1..Len(pubs) : pubs[j].topic # t
    BY <1>2, <1>3
  <2>2. Published(pubs)[t] = pubs[2].payload
    BY <2>1, LastPublished, Zenon
  <2> QED
    BY <1>2, <1>3, <2>2
<1>4. CASE t = x /\ t # "status"
  <2>1. /\ Len(pubs) \in Nat /\ 1 \in 1..Len(pubs) /\ pubs[1].topic = t
        /\ \A j \in 1 + 1..Len(pubs) : pubs[j].topic # t
    BY <1>2, <1>4
  <2>2. Published(pubs)[t] = pubs[1].payload
    BY <2>1, LastPublished, Zenon
  <2> QED
    BY <1>2, <1>4, <2>2
<1>5. CASE t # x /\ t # "status"
  <2>1. \A j \in 1..Len(pubs) : pubs[j].topic # t
    BY <1>2, <1>5
  <2> QED
    BY <1>5, <2>1, NotPublished
<1> QED
  BY <1>3, <1>4, <1>5

\* As TopicsTellData, with the mode topic, which shows whatever text the
\* object gives for its mode.
Mirrored == \A t \in Topics \ {"fan"} : shown[t] = Text(t, data)

\* The publications of a handler bring every topic but that of the fan up to
\* the new object.
LEMMA ShownFollows ==
  ASSUME Mirrored, NEW e, Effect(e, data)
  PROVE  \A t \in Topics \ {"fan"} : Published(e.pubs)[t] = Text(t, e.data)
<1> SUFFICES ASSUME NEW t \in Topics \ {"fan"}
             PROVE  Published(e.pubs)[t] = Text(t, e.data)
  OBVIOUS
<1>1. shown[t] = Text(t, data)
  BY DEF Mirrored
<1>2. CASE e.pubs = <<>> /\ e.data = data
  <2>1. Published(e.pubs)[t] = shown[t]
    BY <1>2, NotPublished
  <2> QED
    BY <1>1, <1>2, <2>1
<1>3. CASE /\ e.pubs = Publications(<<"commited">>, e.data)
           /\ \A y \in Topics : Text(y, e.data) = Text(y, data)
  <2>1. t # "commited"
    BY TopicsAre
  <2>2. Published(e.pubs)[t] = shown[t]
    BY <1>3, <2>1, OnePublished, ZenonT(40)
  <2> QED
    BY <1>1, <1>3, <2>2
<1>4. ASSUME NEW x \in Topics, e.pubs = Publications(<<x, "status">>, e.data),
             \A y \in Topics \ {x, "status", "fan"} : Text(y, e.data) = Text(y, data)
      PROVE  Published(e.pubs)[t] = Text(t, e.data)
  <2>1. Published(e.pubs)[t] = IF t \in {x, "status"} THEN Text(t, e.data) ELSE shown[t]
    BY <1>4, TwoPublished, ZenonT(40)
  <2>2. CASE t \in {x, "status"}
    BY <2>1, <2>2, Zenon
  <2>3. CASE t \notin {x, "status"}
    <3>1. Text(t, e.data) = Text(t, data)
      BY <1>4, <2>3
    <3>2. Published(e.pubs)[t] = shown[t]
      BY <2>1, <2>3, Zenon
    <3> QED
      BY <1>1, <3>1, <3>2, Zenon
  <2> QED
    BY <2>2, <2>3
<1> QED
  BY <1>2, <1>3, <1>4 DEF Effect

---------------------------------------------------------------------------
\* A frame on the air is the one of the object as it is, with the clock of
\* the time it was sent for.
AirTells ==
  /\ air.at \in TimeOfDay
  /\ Sent => /\ air.bits = Frame(data)
             /\ data.clock_Hours = air.at.hour % 12
             /\ data.clock_Minutes = air.at.min

IInv ==
  /\ InRange(data)
  /\ DOMAIN meant = Settings
  /\ DOMAIN shown = Topics
  /\ message \in Messages \cup {NoMessage}
  /\ Mirrored
  /\ AirTells

LEMMA SilenceTells ==
  ASSUME air' = Silence
  PROVE  AirTells'
  BY DEF AirTells, Sent, Silence, TimeOfDay

LEMMA FrameTells ==
  ASSUME InRange(data), NEW t \in TimeOfDay,
         data' = setClock(data, t), air' = SentFor(data', t)
  PROVE  AirTells'
<1>1. /\ data'.clock_Hours = t.hour % 12 /\ data'.clock_Minutes = t.min
  BY ClockKeepsSettings
<1>2. air'.at = t /\ air'.bits = Frame(data')
  BY DEF SentFor
<1> QED
  BY <1>1, <1>2 DEF AirTells

LEMMA RestartKeeps ==
  ASSUME Restart
  PROVE  IInv' /\ data' = PowerOnData
<1>1. /\ data' = PowerOnData /\ air' = Silence /\ message' = NoMessage
      /\ shown' = [t \in Topics |-> Text(t, PowerOnData)]
      /\ meant' = SettingsOf(PowerOnData)
  BY DEF Restart
<1>2. AirTells'
  BY <1>1, SilenceTells
<1>3. InRange(data') /\ DOMAIN meant' = Settings
  BY <1>1, PowerOnInRange DEF SettingsOf
<1> QED
  BY <1>1, <1>2, <1>3 DEF IInv, Mirrored

LEMMA Start == Init => IInv
<1> SUFFICES ASSUME Init
             PROVE  IInv
  OBVIOUS
<1>1. /\ data = PowerOnData /\ meant = SettingsOf(data) /\ message = NoMessage
      /\ shown = [t \in Topics |-> Text(t, PowerOnData)] /\ air = Silence
  BY DEF Init
<1>2. AirTells
  BY <1>1 DEF AirTells, Sent, Silence, TimeOfDay
<1> QED
  BY <1>1, <1>2, PowerOnInRange DEF IInv, Mirrored, SettingsOf

\* One fragment, accepted, ignored or too much for the program.
LEMMA FragmentKeeps ==
  ASSUME IInv, onMessage
  PROVE  /\ IInv'
         /\ data' = PowerOnData \/ OneSetting(data, data')
<1>1. PICK t \in Times :
        LET e == parseMessage(message.levels, Head(fragments), data, t)
        IN  \/ Restart
            \/ /\ data' = e.data
               /\ air' = IF e.commit THEN SentFor(e.data, t) ELSE Silence
               /\ shown' = Published(e.pubs)
               /\ message' = IF Len(fragments) = 1 THEN NoMessage ELSE message
               /\ UNCHANGED meant
  BY Zenon DEF onMessage
<1> DEFINE e == parseMessage(message.levels, Head(fragments), data, t)
<1>2. t \in TimeOfDay /\ InRange(data)
  BY TimesAssumption DEF IInv
<1>3. CASE Restart
  BY <1>3, RestartKeeps
<1>4. CASE ~Restart
  <2>1. /\ data' = e.data /\ shown' = Published(e.pubs) /\ meant' = meant
        /\ air' = IF e.commit THEN SentFor(e.data, t) ELSE Silence
        /\ message' \in {NoMessage, message}
    BY <1>1, <1>4
  <2>2. Effect(e, data)
    BY <1>2, Parsed
  <2>3. e.commit => e.data = setClock(data, t)
    BY CommitSetsClock
  <2> HIDE DEF e
  <2>4. \A x \in Topics \ {"fan"} : Published(e.pubs)[x] = Text(x, e.data)
    BY <2>2, ShownFollows DEF IInv
  <2>5. DOMAIN Published(e.pubs) = Topics
    BY DEF Published
  <2>6. InRange(e.data) /\ OneSetting(data, e.data)
    BY <2>2 DEF Effect
  <2>7. AirTells'
    <3>1. CASE e.commit
      BY <1>2, <2>1, <2>3, <3>1, FrameTells
    <3>2. CASE ~e.commit
      BY <2>1, <3>2, SilenceTells
    <3> QED
      BY <3>1, <3>2
  <2> QED
    BY <2>1, <2>4, <2>5, <2>6, <2>7 DEF IInv, Mirrored
<1> QED
  BY <1>3, <1>4

LEMMA ArriveKeeps ==
  ASSUME IInv, Arrive
  PROVE  IInv' /\ data' = data
<1>1. /\ message' \in Messages /\ DOMAIN meant' = Settings
      /\ data' = data /\ shown' = shown /\ air' = Silence
  BY DEF Arrive, SettingsOf
<1> QED
  BY <1>1, SilenceTells DEF IInv, Mirrored

LEMMA CommitKeeps ==
  ASSUME IInv, LocalCommit
  PROVE  IInv' /\ SameSettings(data, data')
<1>1. PICK t \in Times : data' = setClock(data, t) /\ air' = SentFor(data', t)
  BY DEF LocalCommit
<1>2. InRange(data) /\ t \in TimeOfDay
  BY TimesAssumption DEF IInv
<1>3. InRange(data') /\ SameSettings(data, data')
  BY <1>1, <1>2, ClockKeepsSettings
<1>4. \A y \in Topics : Text(y, data') = Text(y, data)
  BY <1>3, TextsOfSettings
<1>5. AirTells'
  BY <1>1, <1>2, FrameTells
<1> QED
  BY <1>3, <1>4, <1>5 DEF LocalCommit, IInv, Mirrored

LEMMA Step ==
  ASSUME IInv, [Next]_vars
  PROVE  /\ IInv'
         /\ data' = PowerOnData \/ OneSetting(data, data')
<1>1. CASE Arrive
  BY <1>1, ArriveKeeps DEF OneSetting, Settings
<1>2. CASE onMessage
  BY <1>2, FragmentKeeps
<1>3. CASE LocalCommit
  BY <1>3, CommitKeeps DEF SameSettings, OneSetting, Settings
<1>4. CASE Restart
  BY <1>4, RestartKeeps
<1>5. CASE UNCHANGED vars
  BY <1>5 DEF vars, IInv, Mirrored, AirTells, Sent, OneSetting, Settings
<1> QED
  BY <1>1, <1>2, <1>3, <1>4, <1>5 DEF Next

LEMMA Inductive == Spec => []IInv
<1>1. IInv /\ [Next]_vars => IInv'
  BY Step
<1> QED
  BY Start, <1>1, PTL DEF Spec

\* Every bit field of the object keeps within its width, a frame has its 68
\* bits, and the topics stay those that sendInitValues publishes.
THEOREM TypeCorrect == Spec => []TypeOK
<1>1. IInv => TypeOK
  BY FrameIsBits DEF IInv, AirTells, Sent, InRange, TypeOK
<1> QED
  BY <1>1, Inductive, PTL

\* Whatever arrives in whatever fragments, and whoever commits in between,
\* every retained topic but those of fan and mode shows the object's value.
THEOREM TopicsFollow == Spec => []TopicsTellData
<1>1. IInv => TopicsTellData
  BY DEF IInv, Mirrored, TopicsTellData
<1> QED
  BY <1>1, Inductive, PTL

\* No fragment and no commit changes two settings, whatever its text is.
THEOREM OneAtATime == Spec => OneSettingPerFragment
<1>1. IInv /\ [Next]_vars =>
        [\/ data' = PowerOnData
         \/ \E s \in Settings : \A r \in Settings \ {s} : data'[r] = data[r]]_vars
  BY Step DEF OneSetting
<1> QED
  BY <1>1, Inductive, PTL DEF Spec, OneSettingPerFragment

\* No sequence of commands leaves a temperature outside 16..30 or a sixth
\* mode in the object (Whirlpool_YJ1B.cpp:157-165).
THEOREM RangeKept == Spec => []SettingsInRange
<1>1. IInv => SettingsInRange
  BY DEF IInv, InRange, SettingsInRange, getTemperature
<1> QED
  BY <1>1, Inductive, PTL

\* Every frame carries all settings to the receiver, whatever the commit's
\* clock wrote next to them.
THEOREM SettingsArrive == Spec => []FrameTellsSettings
<1>1. IInv => FrameTellsSettings
  <2> SUFFICES ASSUME IInv, Sent
               PROVE  LET heard == printCommon(air.bits)
                      IN  /\ heard.temperature = getTemperature(data)
                          /\ \A f \in Settings \ {"temperature"} : heard[f] = data[f]
    BY DEF FrameTellsSettings
  <2>1. air.bits = Frame(data) /\ data \in WhirlpoolYJ1BData
    BY DEF IInv, AirTells, InRange
  <2> QED
    BY <2>1, FieldsArrive DEF getTemperature, Settings
<1> QED
  BY <1>1, Inductive, PTL

\* The hour on the dial and the minute arrive.
THEOREM DialArrives == Spec => []FrameTellsDial
<1>1. IInv => FrameTellsDial
  BY FieldsArrive DEF IInv, AirTells, InRange, FrameTellsDial
<1> QED
  BY <1>1, Inductive, PTL
=============================================================================
