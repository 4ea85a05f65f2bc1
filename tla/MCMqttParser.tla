---------------------------- MODULE MCMqttParser ----------------------------
(* Instances of MqttParser: bytes below 8 instead of 256, so that messages   *)
(* of four bytes and more have a remaining length of two bytes and small     *)
(* identifiers fill both of theirs.                                          *)
EXTENDS MqttParser

Publication(topic, q, id, payload) ==
  [type |-> "PUBLISH", topic |-> topic, qos |-> q, id |-> id, payload |-> payload]

MCReplies ==
  { Publication(<<1>>, 0, 0, <<1, 2, 3>>),       \* a command
    Publication(<<2, 3>>, 2, 9, <<4, 5>>),       \* the longest topic
    Publication(<<2>>, 1, 1, <<>>),              \* no payload
    Publication(<<5, 6, 7>>, 2, 2, <<1>>),       \* too long a topic
    [type |-> "SUBACK", id |-> 1], [type |-> "PUBREL", id |-> 9],
    [type |-> "PINGRESP"] }
=============================================================================
