--------------------------- MODULE MCMqttCommands ---------------------------
(* Instances of MqttCommands: one or two messages for each handler,         *)
(* messages no handler accepts, and values cut in the middle; temperatures  *)
(* below and above the range, modes and fan speeds that set every bit, and  *)
(* times on both sides of noon.                                             *)
EXTENDS MqttCommands

MCNumerals == [v \in {"-1", "0", "2", "4", "24", "31"} |->
                 CASE v = "-1" -> -1 [] v = "0" -> 0 [] v = "2" -> 2
                   [] v = "4" -> 4 [] v = "24" -> 24 [] v = "31" -> 31]
MCOverlong == {"99999999999"}

MCTimes == { [hour |-> 9,  min |-> 59, sec |-> 3],
             [hour |-> 23, min |-> 7,  sec |-> 59] }

Plain(command, payload) == [levels |-> <<command>>, payload |-> payload]
Deep(command, value) == [levels |-> <<command, value>>, payload |-> ""]

AllHandlers ==
  { Plain("temperature", "24"), Plain("temperature", "-1"),
    Deep("temperature", "UP"), Plain("temperature", ""),
    Plain("temperature", "99999999999"),
    Plain("light", "OFF"), Plain("light", "1"),
    Plain("mode", "2"), Plain("mode", "4"), Plain("mode", "Cool"),
    Plain("state", "On"), Plain("fan", "1"), Plain("fan", "2"), Plain("swing", "true"),
    Plain("jet", "1"), Plain("sleep", "On"), Plain("commit", ""),
    [levels |-> <<"light", "0", "x">>, payload |-> "1"] }

Temperatures == { Plain("temperature", v) : v \in {"-1", "24", "31"} }

Whole(payload) == { <<payload>> }

Cut(payload) ==
  Whole(payload) \cup (IF payload = "24" THEN {<<"2", "4">>}
                       ELSE IF payload = "On" THEN {<<"O", "n">>} ELSE {})
=============================================================================
