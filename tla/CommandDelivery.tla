--------------------------- MODULE CommandDelivery ---------------------------
(***************************************************************************)
(* What the MQTT conversation promises the home automation about its       *)
(* commands, in the words of MQTT's qualities of service: every one may be *)
(* lost with its connection, but what is handled is handled in order.      *)
(* Module MqttSession implements this specification.                       *)
(***************************************************************************)
EXTENDS Naturals, Sequences

CONSTANT Qos   \* qualities of service in use

VARIABLES
  issued,   \* QoS of the commands issued; a command's number is its place
  applied,  \* numbers of the commands handled, in order
  acked     \* numbers of those whose flow is complete

deliveryVars == <<issued, applied, acked>>

Init == issued = <<>> /\ applied = <<>> /\ acked = {}

Issue(q) ==
  /\ issued' = Append(issued, q)
  /\ UNCHANGED <<applied, acked>>

Handled(n) == \E i \in DOMAIN applied : applied[i] = n

\* A command that was not handled yet comes after all that were; only one of
\* QoS 1 may be handled again.
Apply(n) ==
  /\ \/ \A i \in DOMAIN applied : applied[i] < n
     \/ issued[n] = 1 /\ Handled(n)
  /\ applied' = Append(applied, n)
  /\ UNCHANGED <<issued, acked>>

Complete(n) ==
  /\ Handled(n) /\ issued[n] # 0
  /\ acked' = acked \cup {n}
  /\ UNCHANGED <<issued, applied>>

Next ==
  \/ \E q \in Qos : Issue(q)
  \/ \E n \in DOMAIN issued : Apply(n) \/ Complete(n)

Spec == Init /\ [][Next]_deliveryVars

---------------------------------------------------------------------------
\* Nothing but a QoS 1 command is handled twice.
HandledOnce ==
  \A i, j \in DOMAIN applied :
    applied[i] = applied[j] /\ issued[applied[i]] # 1 => i = j

\* A complete flow is that of a command that was handled.
CompleteWasHandled == \A n \in acked : Handled(n)

\* Of two commands the one issued first is the one handled first, the first
\* time each is handled.
FirstTime(i) == \A j \in DOMAIN applied : applied[j] = applied[i] => i <= j

HandledInOrder ==
  \A i, j \in DOMAIN applied :
    FirstTime(i) /\ FirstTime(j) /\ i < j => applied[i] < applied[j]
=============================================================================
