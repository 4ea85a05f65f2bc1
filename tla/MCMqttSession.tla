--------------------------- MODULE MCMqttSession ---------------------------
(* Instances of MqttSession. *)
EXTENDS MqttSession

MCNumerals == [v \in {} |-> 0]
MCOverlong == {}
MCTimes == {[hour |-> 9, min |-> 30, sec |-> 0]}

One(p) == 1
\* The status document is longer than the TCP buffer's room is granular.
LongStatus(p) ==
  IF p.type = "PUBLISH" /\ p.body.topic = "status" THEN 2 ELSE 1

\* "On" and "Off" differ in length, so either can look like a QoS.
Switches(p) == p.body.topic # "light" \/ p.body.payload[2] # "On"

LightOnOff == { [levels |-> <<"light">>, payload |-> "off"],
                [levels |-> <<"light">>, payload |-> "on"] }
=============================================================================
