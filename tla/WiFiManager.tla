----------------------------- MODULE WiFiManager -----------------------------
(***************************************************************************)
(* WiFiManager::autoConnect as setupWifi (src/src/main.cpp) calls it: it   *)
(* joins the stored network, or opens an access point with a web page, the *)
(* configuration portal, and blocks there until a visitor has named a      *)
(* network that can be joined.  The portal has no time limit, because the  *)
(* firmware never sets one.  The Wi-Fi stack of the chip runs beside it    *)
(* and queues an event for each change of the station; the two handlers of *)
(* main.cpp, which start and stop MQTT, run some time later.               *)
(***************************************************************************)
EXTENDS Integers, Sequences

CONSTANTS
  Home,      \* the ssid, with its password, of the household network
  Mistyped,  \* ssids that a visitor may submit and that nothing answers to
  NoSsid,    \* the empty ssid
  MaxEvents  \* bound: station events that wait for their handler

ASSUME SsidAssumption == /\ Home \notin Mistyped
                         /\ NoSsid \notin Mistyped \cup {Home}
                         /\ MaxEvents \in Nat

VARIABLES
  pc,       \* where setup() or loop() is
  network,  \* the household network can be reached
  stored,   \* the station configuration in flash
  mode,     \* the Wi-Fi mode: subset of station and access point
  link,     \* the station: "idle", "joining", "failed" or "joined"
  events,   \* station events whose handler has not run yet
  told      \* the last handler that ran called mqtt.connect, not mqtt.detach

wifiVars == <<network, stored, mode, link, events, told>>

Event == {"GotIP", "Disconnected"}

Ssids == Mistyped \cup {Home}
CanJoin == network /\ stored = Home

\* As it would be with the handlers installed after autoConnect.
InstalledLast == pc \in {"services", "loop"}

\* setupWifi installs the handlers before it calls autoConnect.
Installed == pc # "mount"

\* The stack queues an event for the handler of main.cpp, if there is one.
Report(e) == events' = IF Installed THEN Append(events, e) ELSE events

\* A station that had joined reports that it has left.
Left == IF link = "joined" THEN Report("Disconnected") ELSE UNCHANGED events

---------------------------------------------------------------------------
\* The first half of autoConnect.  connectWifi("", "") calls
\* wifiConnectDefault and waits for the result.
AutoConnect ==
  /\ pc = "autoConnect"
  /\ \/ /\ stored # NoSsid
        /\ mode' = {"station"}
        /\ link' = "joining"
        /\ pc' = "joinStored"
     \/ /\ stored = NoSsid
        /\ pc' = "startPortal"
        /\ UNCHANGED <<mode, link>>
  /\ UNCHANGED <<network, stored, events, told>>

StoredJoins ==
  /\ pc = "joinStored" /\ link = "joined"
  /\ pc' = "services"
  /\ UNCHANGED wifiVars

\* waitForConnectResult reports a failure, or its time is up while the stack
\* is still trying.
StoredFails ==
  /\ pc = "joinStored" /\ link # "joined"
  /\ pc' = "startPortal"
  /\ UNCHANGED wifiVars

\* A station that is not connected is switched off; one that joined since the
\* wait gave up stays, and nothing in the portal looks at it again.
StationOff(m) ==
  /\ mode' = m \ {"station"}
  /\ link' = "idle"
  /\ Left

StartPortal ==
  /\ pc = "startPortal"
  /\ pc' = "portal"
  /\ \/ /\ link = "joined"
        /\ mode' = mode \cup {"station", "ap"}
        /\ UNCHANGED <<link, events>>
     \/ /\ link # "joined"
        /\ StationOff({"ap"})
  /\ UNCHANGED <<network, stored, told>>

---------------------------------------------------------------------------
\* Requests of a visitor, each with the rest of its pass of the portal loop.

\* connectWifi for a submitted network: wifiConnectNew writes it to flash and
\* switches the station on, whether or not it can be joined.  A station that
\* had joined the same network may keep its connection.
ConnectNew(s) ==
  /\ stored' = s
  /\ mode' = mode \cup {"station"}
  /\ link' \in {"joining"} \cup (IF s = stored THEN {link} \ {"idle"} ELSE {})
  /\ IF link' = "joined" THEN UNCHANGED events ELSE Left

\* /wifisave: handleWifiSave sets connect, and processConfigPortal sees it in
\* the same pass.
SaveWifi(s) ==
  /\ pc = "portal"
  /\ s # NoSsid
  /\ ConnectNew(s)
  /\ pc' = "joinSubmitted"
  /\ UNCHANGED <<network, told>>

\* As it would be without the test for an empty ssid.
SaveNoSsid ==
  /\ pc = "portal"
  /\ stored' = NoSsid
  /\ StationOff(mode)
  /\ UNCHANGED <<pc, network, told>>

\* /wifisave without an ssid, to save the parameters only: handled like an
\* attempt that failed.
SaveNothing ==
  /\ pc = "portal"
  /\ StationOff(mode)
  /\ UNCHANGED <<pc, network, stored, told>>

\* /exit sets abort, which ends the loop and makes autoConnect return false.
Exit == pc = "portal" /\ pc' = "closeAborted" /\ UNCHANGED wifiVars

\* /restart
AskRestart == pc = "portal" /\ pc' = "restart" /\ UNCHANGED wifiVars

\* /erase
Erase ==
  /\ pc = "portal"
  /\ stored' = NoSsid
  /\ pc' = "restart"
  /\ UNCHANGED <<network, mode, link, events, told>>

SubmittedJoins ==
  /\ pc = "joinSubmitted" /\ link = "joined"
  /\ pc' = "closeJoined"
  /\ UNCHANGED wifiVars

\* As it would be if the portal stayed in the state of an attempt.
SubmittedHangs ==
  /\ pc = "joinSubmitted" /\ link = "failed"
  /\ UNCHANGED <<pc, wifiVars>>

\* The portal stays open, with the station off again.
SubmittedFails ==
  /\ pc = "joinSubmitted" /\ link # "joined"
  /\ pc' = "portal"
  /\ StationOff(mode)
  /\ UNCHANGED <<network, stored, told>>

Closing == pc \in {"closeJoined", "closeAborted"}

\* shutdownConfigPortal serves one more request.  /restart and /erase act at
\* once; a network saved there is answered and forgotten, like /exit.
LastRequest ==
  /\ Closing
  /\ stored' \in {stored, NoSsid}
  /\ pc' = "restart"
  /\ UNCHANGED <<network, mode, link, events, told>>

\* As it would be with _disableConfigPortal off.
ClosePortalNot ==
  /\ Closing
  /\ pc' = IF pc = "closeJoined" THEN "services" ELSE "restart"
  /\ UNCHANGED wifiVars

\* The rest of shutdownConfigPortal, and what autoConnect makes of its end.
ClosePortal ==
  /\ Closing
  /\ mode' = {"station"}
  /\ link' = IF link = "idle" THEN "joining" ELSE link
  /\ pc' = IF pc = "closeJoined" THEN "services" ELSE "restart"
  /\ UNCHANGED <<network, stored, events, told>>

---------------------------------------------------------------------------
\* The Wi-Fi stack, with automatic reconnection on, and the radio.

\* There is room in the queue for this event and for the one that ends the
\* link.
Join ==
  /\ "station" \in mode /\ link \in {"joining", "failed"}
  /\ CanJoin
  /\ Len(events) + 2 <= MaxEvents
  /\ link' = "joined"
  /\ Report("GotIP")
  /\ UNCHANGED <<pc, network, stored, mode, told>>

\* Every failed attempt to associate is reported once more.
JoinFails ==
  /\ link \in {"joining", "failed"} /\ ~CanJoin
  /\ Len(events) < MaxEvents
  /\ link' = "failed"
  /\ Report("Disconnected")
  /\ UNCHANGED <<pc, network, stored, mode, told>>

Drop ==
  /\ link = "joined" /\ ~CanJoin
  /\ link' = "failed"
  /\ Report("Disconnected")
  /\ UNCHANGED <<pc, network, stored, mode, told>>

NetworkTurns == network' = ~network /\ UNCHANGED <<pc, stored, mode, link, events, told>>

---------------------------------------------------------------------------
\* The handlers of main.cpp.
Handle(e) == events # <<>> /\ Head(events) = e /\ events' = Tail(events)

onWifiConnect ==
  /\ Handle("GotIP") /\ told' = TRUE
  /\ UNCHANGED <<pc, network, stored, mode, link>>

onWifiDisconnect ==
  /\ Handle("Disconnected") /\ told' = FALSE
  /\ UNCHANGED <<pc, network, stored, mode, link>>
=============================================================================
