------------------------ MODULE MqttSupervisorProofs ------------------------
(***************************************************************************)
(* The safety of the reconnect supervision, for every bound on the pending *)
(* Wi-Fi events and every set of synchronous failures (the last theorem    *)
(* needs their absence).                                                   *)
(***************************************************************************)
EXTENDS MqttSupervisor, SequenceTheorems, TLAPS

\* The events at start-up.
LEMMA NoEvents == <<>> \in Seq(Event)
  BY EmptySeq

\* Appending an event keeps the sequence one of events, and it is the last.
LEMMA QueueLemma ==
  ASSUME events \in Seq(Event), NEW e \in Event, Queue(e)
  PROVE  /\ events' \in Seq(Event)
         /\ events' # <<>>
         /\ events'[Len(events')] = e
  BY DEF Queue

\* Removing the head leaves the last event where it was, if any is left.
LEMMA HandleLemma ==
  ASSUME events \in Seq(Event), NEW e, Handle(e)
  PROVE  /\ events' \in Seq(Event)
         /\ events # <<>>
         /\ Head(events) = e
         /\ events' # <<>> => events'[Len(events')] = events[Len(events)]
         /\ events' = <<>> => events[Len(events)] = e
<1>1. /\ events # <<>> /\ Head(events) = e /\ events' = Tail(events)
  BY DEF Handle
<1>2. /\ Len(events) \in Nat /\ Len(events) >= 1
      /\ Tail(events) \in Seq(Event)
      /\ Len(Tail(events)) = Len(events) - 1
      /\ Head(events) = events[1]
  BY <1>1
<1>3. ASSUME events' # <<>>
      PROVE  events'[Len(events')] = events[Len(events)]
  <2>1. Len(events') \in Nat /\ Len(events') >= 1
    BY <1>1, <1>2, <1>3
  <2>2. \A i \in 1..Len(Tail(events)) : Tail(events)[i] = events[i + 1]
    BY <1>2
  <2> QED BY <1>1, <1>2, <2>1, <2>2
<1>4. ASSUME events' = <<>>
      PROVE  events[Len(events)] = e
  <2>1. Len(Tail(events)) = 0
    BY <1>1, <1>4, EmptySeq
  <2>2. \A n \in Nat : n - 1 = 0 => n = 1
    OBVIOUS
  <2>3. Len(events) - 1 = 0
    BY <1>2, <2>1
  <2>4. Len(events) = 1
    BY <1>2, <2>2, <2>3
  <2> QED BY <1>1, <1>2, <2>4
<1> QED BY <1>1, <1>2, <1>3, <1>4

USE SupervisorAssumption

---------------------------------------------------------------------------
\* Every variable keeps its type.
THEOREM TypeCorrect == Spec => []TypeOK
<1>1. Init => TypeOK
  <2> SUFFICES ASSUME Init PROVE TypeOK
    OBVIOUS
  <2>1. events \in Seq(Event)
    BY NoEvents, Zenon DEF Init
  <2> QED BY <2>1 DEF Init, TypeOK, State
<1>2. TypeOK /\ [Next]_vars => TypeOK'
  <2> SUFFICES ASSUME TypeOK, [Next]_vars PROVE TypeOK'
    OBVIOUS
  <2> USE DEF TypeOK, State, Event, tcp
  <2>1. CASE WifiUp
    BY <2>1, QueueLemma DEF WifiUp
  <2>2. CASE WifiDown
    BY <2>2, QueueLemma DEF WifiDown
  <2>3. CASE WifiRetryFails
    BY <2>3, QueueLemma DEF WifiRetryFails
  <2>4. CASE onWifiConnect
    BY <2>4, HandleLemma DEF onWifiConnect, connect, connectHost, connectIP
  <2>5. CASE onWifiDisconnect
    BY <2>5, HandleLemma DEF onWifiDisconnect
  <2>6. CASE TimerFires
    <3>1. timer' = FALSE /\ wifi' = wifi /\ events' = events
      BY <2>6 DEF TimerFires
    <3>2. mqtt' \in State /\ dns' \in Nat /\ syn' \in Nat /\ pcb' \in BOOLEAN
      BY <2>6 DEF TimerFires, connect, connectHost, connectIP
    <3> QED BY <3>1, <3>2
  <2>7. CASE DnsFound
    BY <2>7 DEF DnsFound, connectIP
  <2>8. CASE DnsFails
    BY <2>8 DEF DnsFails, onDisconnect, rearm
  <2>9. CASE TcpConnected
    BY <2>9 DEF TcpConnected
  <2>10. CASE TcpRefused
    BY <2>10 DEF TcpRefused, onDisconnect, rearm
  <2>11. CASE TcpLost
    BY <2>11 DEF TcpLost, onDisconnect, rearm
  <2>12. CASE ConnAck
    BY <2>12 DEF ConnAck
  <2>13. CASE Reset
    BY <2>13, NoEvents DEF Reset
  <2>14. CASE UNCHANGED vars
    BY <2>14 DEF vars
  <2> QED
    BY <2>1, <2>2, <2>3, <2>4, <2>5, <2>6, <2>7, <2>8, <2>9, <2>10, <2>11,
       <2>12, <2>13, <2>14 DEF Next
<1> QED BY <1>1, <1>2, PTL DEF Spec

---------------------------------------------------------------------------
(* NoOrphan and NoStrayTimer are inductive together with the fact that the *)
(* last queued event is true: when a Disconnected handler detaches the     *)
(* timer while there is a network again, a GotIP event is still queued.    *)

\* The last event queued says what the station's status is.
LastEventIsTrue ==
  events # <<>> =>
    events[Len(events)] = (IF wifi THEN "GotIP" ELSE "Disconnected")

Supervised == LastEventIsTrue /\ NoOrphan /\ NoStrayTimer

\* Changes of the station: the event that reports them is queued last.
LEMMA StationKeepsSupervised ==
  ASSUME TypeOK, Supervised, WifiUp \/ WifiDown \/ WifiRetryFails
  PROVE  Supervised'
<1> USE DEF Supervised, LastEventIsTrue, NoOrphan, NoStrayTimer,
            LastWaiting, TypeOK, Event
<1>1. CASE WifiUp
  BY <1>1, QueueLemma DEF WifiUp
<1>2. CASE WifiDown
  BY <1>2, QueueLemma DEF WifiDown
<1>3. CASE WifiRetryFails
  BY <1>3, QueueLemma DEF WifiRetryFails
<1> QED BY <1>1, <1>2, <1>3

\* The event handlers.
LEMMA HandlersKeepSupervised ==
  ASSUME TypeOK, Supervised, onWifiConnect \/ onWifiDisconnect
  PROVE  Supervised'
<1> USE DEF Supervised, LastEventIsTrue, NoOrphan, NoStrayTimer,
            LastWaiting, TypeOK
<1>1. CASE onWifiConnect
  <2>1. /\ wifi' = wifi /\ timer' = timer /\ mqtt' # "DISCONNECTED"
    BY <1>1 DEF onWifiConnect, connect, tcp
  <2>2. events' # <<>> => events'[Len(events')] = events[Len(events)]
    BY <1>1, HandleLemma DEF onWifiConnect
  <2>3. events' = <<>> => events[Len(events)] = "GotIP"
    BY <1>1, HandleLemma DEF onWifiConnect
  <2>4. events # <<>>
    BY <1>1, HandleLemma DEF onWifiConnect
  <2> QED BY <2>1, <2>2, <2>3, <2>4
<1>2. CASE onWifiDisconnect
  <2>1. /\ wifi' = wifi /\ timer' = FALSE /\ mqtt' = mqtt
    BY <1>2 DEF onWifiDisconnect
  <2>2. /\ events # <<>>
        /\ events' # <<>> => events'[Len(events')] = events[Len(events)]
        /\ events' = <<>> => events[Len(events)] = "Disconnected"
    BY <1>2, HandleLemma DEF onWifiDisconnect
  <2> QED BY <2>1, <2>2
<1> QED BY <1>1, <1>2

\* The rest of the steps leave the station and its events alone, or reset.
LEMMA OthersKeepSupervised ==
  ASSUME TypeOK, Supervised,
         \/ TimerFires \/ DnsFound \/ DnsFails \/ TcpConnected
         \/ TcpRefused \/ TcpLost \/ ConnAck \/ Reset \/ UNCHANGED vars
  PROVE  Supervised'
<1> USE DEF Supervised, LastEventIsTrue, NoOrphan, NoStrayTimer,
            LastWaiting, TypeOK, tcp
<1>1. CASE TimerFires
  BY <1>1 DEF TimerFires, connect
<1>2. CASE DnsFound
  BY <1>2 DEF DnsFound
<1>3. CASE DnsFails \/ TcpRefused \/ TcpLost
  BY <1>3 DEF DnsFails, TcpRefused, TcpLost, onDisconnect, rearm
<1>4. CASE TcpConnected
  BY <1>4 DEF TcpConnected
<1>5. CASE ConnAck
  BY <1>5 DEF ConnAck
<1>6. CASE Reset
  BY <1>6 DEF Reset
<1>7. CASE UNCHANGED vars
  BY <1>7 DEF vars
<1> QED BY <1>1, <1>2, <1>3, <1>4, <1>5, <1>6, <1>7

\* However Wi-Fi events, the timer and the TCP callbacks interleave, a
\* disconnected client with a network has a timer or a GotIP event that will
\* connect it, and a timer without a network has a Disconnected event that
\* will stop it.
THEOREM Supervision == Spec => [](NoOrphan /\ NoStrayTimer)
<1>1. Init => Supervised
  BY DEF Init, Supervised, LastEventIsTrue, NoOrphan, NoStrayTimer
<1>2. TypeOK /\ Supervised /\ [Next]_vars => Supervised'
  BY StationKeepsSupervised, HandlersKeepSupervised, OthersKeepSupervised
     DEF Next
<1>3. Supervised => NoOrphan /\ NoStrayTimer
  BY DEF Supervised
<1> QED BY TypeCorrect, <1>1, <1>2, <1>3, PTL DEF Spec

\* In particular a timer that runs without a network is about to be stopped.
THEOREM TimerHasReason == Spec => []NoStrayTimer
BY Supervision, PTL

---------------------------------------------------------------------------
(* One connection at a time.                                               *)

Connections == OneConnection /\ StateMatchesSocket

\* connect() starts a connection only from DISCONNECTED, where there is none.
LEMMA ConnectKeepsConnections ==
  ASSUME TypeOK, Connections, connect
  PROVE  Connections'
<1> USE DEF Connections, OneConnection, StateMatchesSocket, Sockets, TypeOK,
            State, tcp
<1>1. CASE mqtt = "DISCONNECTED"
  <2>1. dns = 0 /\ syn = 0 /\ pcb = FALSE
    BY <1>1
  <2>2. mqtt' = "CONNECTING" /\ connectHost
    BY <1>1 DEF connect
  <2> QED BY <2>1, <2>2 DEF connectHost, connectIP
<1>2. CASE mqtt # "DISCONNECTED"
  BY <1>2 DEF connect
<1> QED BY <1>1, <1>2

\* The network's answers turn one connection into another or end it.
LEMMA AnswersKeepConnections ==
  ASSUME TypeOK, Connections,
         \/ DnsFound \/ DnsFails \/ TcpConnected \/ TcpRefused \/ TcpLost
         \/ ConnAck
  PROVE  Connections'
<1> USE DEF Connections, OneConnection, StateMatchesSocket, Sockets, TypeOK,
            State, tcp
<1>1. CASE DnsFound
  BY <1>1 DEF DnsFound, connectIP
<1>2. CASE DnsFails
  BY <1>2 DEF DnsFails, onDisconnect
<1>3. CASE TcpConnected
  BY <1>3 DEF TcpConnected
<1>4. CASE TcpRefused
  BY <1>4 DEF TcpRefused, onDisconnect
<1>5. CASE TcpLost
  BY <1>5 DEF TcpLost, onDisconnect
<1>6. CASE ConnAck
  BY <1>6 DEF ConnAck
<1> QED BY <1>1, <1>2, <1>3, <1>4, <1>5, <1>6

LEMMA NextKeepsConnections ==
  ASSUME TypeOK, Connections, [Next]_vars
  PROVE  Connections'
<1>1. CASE onWifiConnect \/ TimerFires
  BY <1>1, ConnectKeepsConnections DEF onWifiConnect, TimerFires
<1>2. CASE \/ DnsFound \/ DnsFails \/ TcpConnected \/ TcpRefused \/ TcpLost
           \/ ConnAck
  BY <1>2, AnswersKeepConnections
<1>3. CASE \/ WifiUp \/ WifiDown \/ WifiRetryFails \/ onWifiDisconnect
           \/ UNCHANGED vars
  BY <1>3 DEF WifiUp, WifiDown, WifiRetryFails, onWifiDisconnect, vars, tcp,
              Connections, OneConnection, StateMatchesSocket, Sockets
<1>4. CASE Reset
  BY <1>4 DEF Reset, Connections, OneConnection, StateMatchesSocket, Sockets
<1> QED BY <1>1, <1>2, <1>3, <1>4 DEF Next

\* GotIP and the timer never produce two connections, and the state of the
\* client never claims more than its TCP connection gives.
THEOREM SingleConnection == Spec => [](OneConnection /\ StateMatchesSocket)
<1>1. Init => Connections
  BY DEF Init, Connections, OneConnection, StateMatchesSocket, Sockets
<1>2. TypeOK /\ Connections /\ [Next]_vars => Connections'
  BY NextKeepsConnections
<1>3. Connections => OneConnection /\ StateMatchesSocket
  BY DEF Connections
<1> QED BY TypeCorrect, <1>1, <1>2, <1>3, PTL DEF Spec

\* In particular CONNECTED, CONNECTING and DISCONNECTING each come with what
\* they claim.
THEOREM StateIsTrue == Spec => []StateMatchesSocket
BY SingleConnection, PTL

---------------------------------------------------------------------------
\* If connect() could not fail synchronously, a client that is CONNECTING
\* would always have a lookup or a connection that ends in a callback.
THEOREM AttemptUnderWay ==
  ASSUME Failures = {}
  PROVE  Spec => []ConnectingHasAttempt
<1> DEFINE Inv == Connections /\ ConnectingHasAttempt
<1>1. Init => Inv
  BY DEF Init, Connections, OneConnection, StateMatchesSocket, Sockets,
         ConnectingHasAttempt
<1>2. TypeOK /\ Inv /\ [Next]_vars => Inv'
  <2> SUFFICES ASSUME TypeOK, Inv, [Next]_vars PROVE ConnectingHasAttempt'
    BY NextKeepsConnections
  <2> USE DEF ConnectingHasAttempt, Connections, OneConnection,
              StateMatchesSocket, Sockets, TypeOK, State, tcp
  <2>1. ~CannotStart
    BY DEF CannotStart
  <2>2. ASSUME connect PROVE ConnectingHasAttempt'
    <3>1. CASE mqtt = "DISCONNECTED"
      <4>1. dns = 0 /\ syn = 0 /\ pcb = FALSE
        BY <3>1
      <4> QED BY <2>1, <2>2, <3>1, <4>1 DEF connect, connectHost, connectIP
    <3>2. CASE mqtt # "DISCONNECTED"
      BY <2>2, <3>2 DEF connect
    <3> QED BY <3>1, <3>2
  <2>3. CASE onWifiConnect \/ TimerFires
    BY <2>2, <2>3 DEF onWifiConnect, TimerFires
  <2>4. CASE DnsFound
    <3>1. pcb = FALSE
      BY <2>4 DEF DnsFound
    <3> QED BY <2>1, <2>4, <3>1 DEF DnsFound, connectIP
  <2>5. CASE DnsFails \/ TcpRefused \/ TcpLost
    BY <2>5 DEF DnsFails, TcpRefused, TcpLost, onDisconnect
  <2>6. CASE TcpConnected
    BY <2>6 DEF TcpConnected
  <2>7. CASE ConnAck
    BY <2>7 DEF ConnAck
  <2>8. CASE \/ WifiUp \/ WifiDown \/ WifiRetryFails \/ onWifiDisconnect
             \/ UNCHANGED vars
    BY <2>8 DEF WifiUp, WifiDown, WifiRetryFails, onWifiDisconnect, vars
  <2>9. CASE Reset
    BY <2>9 DEF Reset
  <2> QED BY <2>3, <2>4, <2>5, <2>6, <2>7, <2>8, <2>9 DEF Next
<1> QED BY TypeCorrect, <1>1, <1>2, PTL DEF Spec

---------------------------------------------------------------------------
(* The supervision implements the steps of Reconnector, whatever fails     *)
(* synchronously: a call that cannot start leaves the link as it is.       *)

\* connect() begins an attempt or changes nothing.
LEMMA ConnectBegins ==
  ASSUME TypeOK, Connections, connect
  PROVE  \/ Stage' = Stage
         \/ Stage = "none" /\ Stage' \in {"lookup", "request"}
<1> USE DEF Connections, OneConnection, StateMatchesSocket, Sockets, TypeOK,
            State, tcp, Stage
<1>1. CASE mqtt = "DISCONNECTED"
  <2>1. dns = 0 /\ syn = 0 /\ pcb = FALSE
    BY <1>1
  <2>2. mqtt' = "CONNECTING" /\ connectHost
    BY <1>1 DEF connect
  <2> QED BY <1>1, <2>1, <2>2 DEF connectHost, connectIP
<1>2. CASE mqtt # "DISCONNECTED"
  BY <1>2 DEF connect
<1> QED BY <1>1, <1>2

LEMMA StepsOfLink ==
  ASSUME TypeOK, Connections, [Next]_vars
  PROVE  [Link!Next]_(Link!linkVars)
<1> USE DEF Link!linkVars, Link!Next, Link!Become
<1>1. CASE onWifiConnect \/ TimerFires
  <2>1. wifi' = wifi /\ connect
    BY <1>1 DEF onWifiConnect, TimerFires
  <2>2. Stage' = Stage \/ Link!Begin
    BY <2>1, ConnectBegins DEF Link!Begin
  <2> QED BY <2>1, <2>2
<1>2. CASE DnsFound
  <2>1. wifi' = wifi /\ mqtt' = mqtt /\ mqtt # "CONNECTED"
        /\ dns = 1 /\ dns' = 0 /\ syn = 0 /\ pcb = FALSE /\ pcb' = FALSE
        /\ syn' \in {0, 1}
    BY <1>2 DEF DnsFound, connectIP, Connections, OneConnection,
                StateMatchesSocket, Sockets, TypeOK
  <2>2. Link!Resolve \/ Link!Fail
    BY <2>1 DEF Link!Resolve, Link!Fail, Stage
  <2> QED BY <2>2
<1>3. CASE DnsFails \/ TcpRefused
  <2>1. wifi' = wifi /\ mqtt' = "DISCONNECTED"
        /\ dns' = 0 /\ syn' = 0 /\ pcb' = FALSE
        /\ mqtt # "CONNECTED" /\ (dns > 0 \/ syn > 0)
    BY <1>3 DEF DnsFails, TcpRefused, onDisconnect, Connections, OneConnection,
                StateMatchesSocket, Sockets, TypeOK
  <2>2. Stage # "none" /\ Stage' = "none"
    BY <2>1 DEF Stage
  <2> QED BY <2>1, <2>2 DEF Link!Fail
<1>4. CASE TcpConnected
  <2>1. wifi' = wifi /\ mqtt' = mqtt /\ mqtt # "CONNECTED"
        /\ syn > 0 /\ pcb = FALSE /\ pcb' = TRUE
    BY <1>4 DEF TcpConnected, Connections, OneConnection, StateMatchesSocket,
                Sockets, TypeOK
  <2> QED BY <2>1 DEF Link!Establish, Stage
<1>5. CASE TcpLost
  <2>1. wifi' = wifi /\ mqtt' = "DISCONNECTED"
        /\ dns' = 0 /\ syn' = 0 /\ pcb' = FALSE /\ pcb
    BY <1>5 DEF TcpLost, onDisconnect, Connections, OneConnection, Sockets, TypeOK
  <2> QED BY <2>1 DEF Link!Fail, Stage
<1>6. CASE ConnAck
  BY <1>6 DEF ConnAck, tcp, Link!Accept, Stage
<1>7. CASE WifiUp \/ WifiDown
  <2>1. wifi' = ~wifi
    BY <1>7 DEF WifiUp, WifiDown, TypeOK
  <2>2. Stage' = Stage
    BY <1>7 DEF WifiUp, WifiDown, tcp, Stage
  <2> QED BY <2>1, <2>2 DEF Link!NetworkChanges
<1>8. CASE WifiRetryFails \/ onWifiDisconnect \/ UNCHANGED vars
  BY <1>8 DEF WifiRetryFails, onWifiDisconnect, vars, tcp, Stage
<1>9. CASE Reset
  BY <1>9 DEF Reset, Link!Restart, Stage
<1> QED
  BY <1>1, <1>2, <1>3, <1>4, <1>5, <1>6, <1>7, <1>8, <1>9 DEF Next

\* Every behaviour of the handlers, the timer and the two clients is one of
\* Reconnector: one link at a time, made step by step.
THEOREM ImplementsReconnector == Spec => Link!Spec
<1>1. Init => Link!Init
  BY DEF Init, Link!Init, Stage
<1>2. Connections <=> OneConnection /\ StateMatchesSocket
  BY DEF Connections
<1> QED
  BY TypeCorrect, SingleConnection, <1>1, <1>2, StepsOfLink, PTL DEF Spec, Link!Spec
=============================================================================
