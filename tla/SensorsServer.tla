---------------------------- MODULE SensorsServer ----------------------------
(***************************************************************************)
(* samples/20_sensors_server: the main thread, which starts the parts and  *)
(* then publishes, beside the thread of the JSON endpoint (JsonEndpoint)   *)
(* and the thread of the sensor service.  The kernel starts all three; the *)
(* order in which main() sets the globals is all that keeps them apart.    *)
(* The device may be restarted at any point.                               *)
(*                                                                         *)
(* A pc names the call a thread is in.  What the calls do is the matter of *)
(* the other modules; here it is who uses what, and when.                  *)
(***************************************************************************)
EXTENDS JsonEndpoint

VARIABLES
  main,         \* where the main thread is
  uidSet,       \* uid_text holds the identity of the device
  bmeReady,     \* the kernel's bme688_init has succeeded
  bmeHandler,   \* m_bme688_server_handler is set
  started,      \* started in bme688_server.cpp
  service       \* where the thread of the sensor service is

serverVars == <<main, uidSet, bmeReady, bmeHandler, started, service>>
vars == <<endpointVars, serverVars>>

\* main() and start_bme688, call by call; then the loop.
Starting == {"initUid", "initDevices", "setEndpoint", "testReady", "initBme",
             "startLibrary", "setBmeHandler", "setStarted"}
Looping  == {"state", "light"}

\* bme688_service_bsec2: waiting for started, then the loop.
Serving == {"load", "configure", "measure", "deliver", "publish", "save"}

TypeOK ==
  /\ EndpointTypeOK
  /\ main \in Starting \union Looping
  /\ uidSet \in BOOLEAN /\ bmeReady \in BOOLEAN
  /\ bmeHandler \in BOOLEAN /\ started \in BOOLEAN
  /\ service \in Serving \union {"wait"}

Init ==
  /\ EndpointInit
  /\ main = "initUid" /\ uidSet = FALSE
  /\ bmeReady \in BOOLEAN
  /\ bmeHandler = FALSE /\ started = FALSE
  /\ service = "wait"

-----------------------------------------------------------------------------
(* The main thread                                                         *)

MainGoesTo(there) == main' = there

InitUid ==
  /\ main = "initUid" /\ MainGoesTo("initDevices")
  /\ uidSet' = TRUE
  /\ UNCHANGED <<endpointVars, bmeReady, bmeHandler, started, service>>

\* app_ot_init, app_led_init, app_battery_init, app_bh1749_init.
InitDevices ==
  /\ main = "initDevices" /\ MainGoesTo("setEndpoint")
  /\ UNCHANGED <<endpointVars, uidSet, bmeReady, bmeHandler, started, service>>

SetEndpoint ==
  /\ main = "setEndpoint" /\ MainGoesTo("testReady")
  /\ SetEndpointHandler
  /\ UNCHANGED <<uidSet, bmeReady, bmeHandler, started, service>>

\* start_bme688 gives up if the device is not ready.
TestReady ==
  /\ main = "testReady"
  /\ MainGoesTo(IF bmeReady THEN "initBme" ELSE "state")
  /\ UNCHANGED <<endpointVars, uidSet, bmeReady, bmeHandler, started, service>>

InitBme ==
  /\ main = "initBme" /\ MainGoesTo("startLibrary")
  /\ UNCHANGED <<endpointVars, uidSet, bmeReady, bmeHandler, started, service>>

\* MUTANT of StartLibrary: the thread is let go before the library is started.
StartedFirst ==
  /\ main = "startLibrary" /\ MainGoesTo("setBmeHandler")
  /\ started' = TRUE
  /\ UNCHANGED <<endpointVars, uidSet, bmeReady, bmeHandler, service>>

StartLibrary ==
  /\ main = "startLibrary" /\ MainGoesTo("setBmeHandler")
  /\ UNCHANGED <<endpointVars, uidSet, bmeReady, bmeHandler, started, service>>

SetBmeHandler ==
  /\ main = "setBmeHandler" /\ MainGoesTo("setStarted")
  /\ bmeHandler' = TRUE
  /\ UNCHANGED <<endpointVars, uidSet, bmeReady, started, service>>

SetStarted ==
  /\ main = "setStarted" /\ MainGoesTo("state")
  /\ started' = TRUE
  /\ UNCHANGED <<endpointVars, uidSet, bmeReady, bmeHandler, service>>

\* The loop: battery and charging state; five seconds later the light, which
\* is published whether it could be read or not, and the role on the LED.
PublishState ==
  /\ main = "state" /\ MainGoesTo("light")
  /\ UNCHANGED <<endpointVars, uidSet, bmeReady, bmeHandler, started, service>>

PublishLight ==
  /\ main = "light" /\ MainGoesTo("state")
  /\ UNCHANGED <<endpointVars, uidSet, bmeReady, bmeHandler, started, service>>

MainProceeds ==
  \/ InitUid \/ InitDevices \/ SetEndpoint
  \/ TestReady \/ InitBme \/ StartLibrary \/ SetBmeHandler \/ SetStarted
  \/ PublishState \/ PublishLight

-----------------------------------------------------------------------------
(* The thread of the sensor service                                        *)

ServiceGoesTo(there) ==
  /\ service' = there
  /\ UNCHANGED <<endpointVars, main, uidSet, bmeReady, bmeHandler, started>>

\* It looks every 100 ms.
FindStarted == service = "wait" /\ started /\ ServiceGoesTo("load")

LoadState == service = "load" /\ ServiceGoesTo("configure")

\* A pass of the loop configures, measures or does neither.
Configure == service = "configure" /\ \E next \in {"measure", "save"} : ServiceGoesTo(next)

\* The fields of a pass may end a group; without a handler it is dropped.
Measure ==
  /\ service = "measure"
  /\ \E next \in {"deliver", "save"} : ServiceGoesTo(next)

\* bme688_handler publishes every tenth group under the identity.
Deliver ==
  /\ service = "deliver"
  /\ \E next \in (IF bmeHandler THEN {"publish", "measure"} ELSE {"measure"}) :
       ServiceGoesTo(next)

PublishEnv == service = "publish" /\ ServiceGoesTo("measure")

SaveState == service = "save" /\ ServiceGoesTo("configure")

ServiceProceeds ==
  \/ FindStarted \/ LoadState \/ Configure \/ Measure
  \/ Deliver \/ PublishEnv \/ SaveState

-----------------------------------------------------------------------------
(* A click, a long press, a fatal error or the power.                      *)

Restart ==
  /\ EndpointRestarts
  /\ main' = "initUid" /\ uidSet' = FALSE
  /\ bmeReady' \in BOOLEAN
  /\ bmeHandler' = FALSE /\ started' = FALSE
  /\ service' = "wait"

EndpointMoves ==
  /\ EndpointProceeds \/ ReceiveFails \/ \E d \in Datagrams : Arrive(d)
  /\ UNCHANGED serverVars

Next == EndpointMoves \/ MainProceeds \/ ServiceProceeds \/ Restart

Spec == Init /\ [][Next]_vars

\* The endpoint has a lower priority than the main thread, which sleeps or blocks
\* between its steps.  Nobody has to send a datagram.
FairSpec == Spec /\ WF_vars(EndpointProceeds /\ UNCHANGED serverVars)

-----------------------------------------------------------------------------
(* Properties.                                                             *)

\* The driver and the library have no locks: as long as the main thread is in
\* bme688_init or bsec2_start, the service is not let in; when it is, it finds
\* the handler for its groups and the identity that they are published under.
\* The endpoint's handler is called only after the devices are initialised.
StartedInOrder ==
  /\ service \in Serving => main \in Looping /\ bmeHandler /\ uidSet
  /\ pc \in {"parse", "handle"} => main \notin {"initUid", "initDevices"}

\* How far the main thread is when a global is set.
StartInv ==
  /\ service \in Serving => started
  /\ started => main \in Looping /\ bmeHandler /\ uidSet
  /\ main = "setStarted" => bmeHandler
  /\ main # "initUid" => uidSet
  /\ handler => main \notin {"initUid", "initDevices", "setEndpoint"}
  /\ pc \in {"parse", "handle"} => handler
=============================================================================
