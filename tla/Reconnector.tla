----------------------------- MODULE Reconnector -----------------------------
(***************************************************************************)
(* What the rest of the firmware is promised about its link to the broker: *)
(* there is at most one, it is made in steps that may each fail, and as    *)
(* long as there is a network a lost one is tried again.  Who asks for it, *)
(* and in which order, is left open.  Module MqttSupervisor implements     *)
(* this specification.                                                     *)
(***************************************************************************)

VARIABLES
  network,  \* there is a Wi-Fi network
  link      \* how far the link to the broker has come

linkVars == <<network, link>>

Stages == {"none", "lookup", "request", "open", "session"}

Init == network = FALSE /\ link = "none"

NetworkChanges == network' = ~network /\ UNCHANGED link

Become(stage) == link' = stage /\ UNCHANGED network

\* Somebody asks for a connection, to a name or to an address.
Begin     == link = "none" /\ (Become("lookup") \/ Become("request"))
Resolve   == link = "lookup" /\ Become("request")
Establish == link = "request" /\ Become("open")
Accept    == link = "open" /\ Become("session")
Fail      == link # "none" /\ Become("none")

Restart == network' = FALSE /\ link' = "none"

Next ==
  NetworkChanges \/ Begin \/ Resolve \/ Establish \/ Accept \/ Fail \/ Restart

Spec == Init /\ [][Next]_linkVars

\* While there is a network an attempt is made, every attempt is answered,
\* and one that is made again and again comes a step further.
Fairness ==
  /\ WF_linkVars(network /\ Begin)
  /\ WF_linkVars(link = "lookup" /\ (Resolve \/ Fail))
  /\ WF_linkVars(link = "request" /\ (Establish \/ Fail))
  /\ SF_linkVars(Resolve) /\ SF_linkVars(Establish) /\ SF_linkVars(Accept)

FairSpec == Spec /\ Fairness
=============================================================================
