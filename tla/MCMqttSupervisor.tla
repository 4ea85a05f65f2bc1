-------------------------- MODULE MCMqttSupervisor --------------------------
(* Instances of MqttSupervisor: six pending Wi-Fi events are enough for two  *)
(* losses and returns of the network to wait behind unhandled events.       *)
EXTENDS MqttSupervisor

NoFailures  == {}
RouteFailure == {"noroute"}
=============================================================================
