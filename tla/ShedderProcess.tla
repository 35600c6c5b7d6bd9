---------------------------- MODULE ShedderProcess ----------------------------
(***************************************************************************)
(* The life of the shedder's process (shedder/shedder.py, __main__): its   *)
(* start, the checks of the Tesla login, the ways it ends, and the         *)
(* supervisor that starts it again (deploy/docker-compose.yml), composed   *)
(* with the settings and the MQTT client.  What one iteration of the       *)
(* control loop does with the cars is module Shedder.                      *)
(*                                                                         *)
(* Two threads: the main thread, which is where `phase` says, and paho's,  *)
(* which is in a callback, in input, or waiting.  Whatever goes wrong from *)
(* outside uses up one of MaxFaults.                                       *)
(***************************************************************************)
EXTENDS ControlSettings, ShedderMqtt

CONSTANTS MeterTopic, ControlTopic,
          MaxFaults,    \* bound on what goes wrong
          MaxMessages   \* bound on the control messages

ASSUME ProcessAssumption ==
  /\ Topics = {MeterTopic, ControlTopic} /\ MeterTopic # ControlTopic
  /\ MaxFaults \in Nat /\ MaxMessages \in Nat

VARIABLES
  phase,    \* where the main thread is
  token,    \* whether Tesla accepts the cached login
  monitor,  \* the state of the check at healthchecks.io
  faults, messages

vars == <<settingsVars, mqttVars, phase, token, monitor, faults, messages>>

TypeInv ==
  /\ SettingsTypeInv /\ MqttTypeInv
  /\ phase \in {"down", "load", "connect", "auth", "loop"}
  /\ token \in {"valid", "expired"}
  /\ monitor \in {"up", "down"}
  /\ faults \in 0..MaxFaults /\ messages \in 0..MaxMessages

Init ==
  /\ SettingsInit /\ MqttInit
  /\ phase = "down" /\ token = "valid" /\ monitor = "up"
  /\ faults = 0 /\ messages = 0

Fault == faults < MaxFaults /\ faults' = faults + 1

-----------------------------------------------------------------------------
(* The process ends: sys.exit, an exception, or a signal. *)
End ==
  /\ phase' = "down"
  /\ AbandonStore /\ MqttEnds

Supervise ==
  /\ phase = "down" /\ phase' = "load"
  /\ UNCHANGED <<settingsVars, mqttVars, token, monitor, faults, messages>>

LoadSettings ==
  /\ phase = "load"
  /\ IF Loadable(file)
     THEN phase' = "connect" /\ StartWith(file) /\ UNCHANGED mqttVars
     ELSE End
  /\ UNCHANGED <<token, monitor, faults, messages>>

ConnectBroker ==
  /\ phase = "connect"
  /\ phase' = "auth" /\ MqttStart
  /\ UNCHANGED <<settingsVars, token, monitor, faults, messages>>

(* mqtt_client.start raises when the broker cannot be reached. *)
BrokerUnreachable ==
  /\ phase = "connect" /\ Fault /\ End
  /\ UNCHANGED <<token, monitor, messages>>

(* Mutant: a failed login is not reported before the exit. *)
ExitUnreported(ok) == IF ok THEN "up" ELSE monitor

Ping(ok) == IF ok THEN "up" ELSE "down"

(* The first call of the Tesla API.  The ping is sent before the exit. *)
Authenticate ==
  /\ phase = "auth"
  /\ monitor' = Ping(token = "valid")
  /\ IF token = "valid"
     THEN phase' = "loop" /\ UNCHANGED <<settingsVars, mqttVars>>
     ELSE End
  /\ UNCHANGED <<token, faults, messages>>

(* Any other error of the API ends the process in the same way. *)
ApiError ==
  /\ phase = "auth" /\ Fault /\ End
  /\ monitor' = Ping(FALSE)
  /\ UNCHANGED <<token, messages>>

(* The periodic check in the loop; an API error passes for a lost login. *)
HealthCheck ==
  /\ phase = "loop"
  /\ monitor' = Ping(token = "valid")
  /\ UNCHANGED <<settingsVars, mqttVars, phase, token, faults, messages>>

HealthCheckApiError ==
  /\ phase = "loop" /\ Fault
  /\ monitor' = Ping(FALSE)
  /\ UNCHANGED <<settingsVars, mqttVars, phase, token, messages>>

(* The check goes down by itself when no ping has come for too long. *)
PingOverdue ==
  /\ phase # "loop" /\ monitor' = "down"
  /\ UNCHANGED <<settingsVars, mqttVars, phase, token, faults, messages>>

(* An iteration calculates with a useless setting: the exception ends it. *)
Usable(c) == \A k \in Keys : c[k] # "useless"

LoopRaises ==
  /\ phase = "loop" /\ ~Usable(control) /\ End
  /\ UNCHANGED <<token, monitor, faults, messages>>

(* A ping is lost: before the exit, or before the loop; it is not repeated. *)
(* (In the loop, one is lost when no HealthCheck is taken for a while.)     *)
ExitWithLostPing ==
  /\ phase = "auth" /\ token = "expired" /\ Fault /\ End
  /\ UNCHANGED <<token, monitor, messages>>

StartWithLostPing ==
  /\ phase = "auth" /\ token = "valid" /\ Fault
  /\ phase' = "loop"
  /\ UNCHANGED <<settingsVars, mqttVars, token, monitor, messages>>

(* Killed, or the host is rebooted. *)
Kill ==
  /\ phase # "down" /\ Fault /\ End
  /\ UNCHANGED <<token, monitor, messages>>

MainStep ==
  LoadSettings \/ ConnectBroker \/ Authenticate \/ HealthCheck \/ LoopRaises

-----------------------------------------------------------------------------
(* paho's thread; input runs as soon as there is a subscription. *)
ControlMessage(change) ==
  /\ messages < MaxMessages /\ messages' = messages + 1
  /\ Hears(ControlTopic)
  /\ Update(change)
  /\ UNCHANGED <<mqttVars, phase, token, monitor, faults>>

StoreStep ==
  /\ StoreOpen \/ StoreWrite
  /\ UNCHANGED <<mqttVars, phase, token, monitor, faults, messages>>

StoreFault ==
  /\ Fault /\ StoreFails
  /\ UNCHANGED <<mqttVars, phase, token, monitor, messages>>

(* A message on either topic whose JSON is not an object. *)
BadMessage ==
  /\ Fault /\ storing = "no" /\ \E t \in Topics : Hears(t)
  /\ PahoDies
  /\ UNCHANGED <<settingsVars, phase, token, monitor, messages>>

PahoStep ==
  /\ storing = "no"
  /\ LinkUp \/ OnConnect \/ Subscribe
  /\ UNCHANGED <<settingsVars, phase, token, monitor, faults, messages>>

Network ==
  /\ \/ Fault /\ LinkDown
     \/ NoticeLoss /\ UNCHANGED faults
  /\ UNCHANGED <<settingsVars, phase, token, monitor, messages>>

TokenExpires ==
  /\ Fault /\ token = "valid" /\ token' = "expired"
  /\ UNCHANGED <<settingsVars, mqttVars, phase, monitor, messages>>

(* The operator puts a new login into the cache. *)
Reseed ==
  /\ token = "expired" /\ token' = "valid"
  /\ UNCHANGED <<settingsVars, mqttVars, phase, monitor, faults, messages>>

Faulty ==
  \/ BrokerUnreachable \/ ApiError \/ HealthCheckApiError \/ ExitWithLostPing
  \/ StartWithLostPing \/ Kill \/ StoreFault \/ BadMessage \/ TokenExpires

Next ==
  \/ Supervise \/ MainStep \/ StoreStep \/ PahoStep \/ Network \/ Faulty
  \/ Reseed \/ PingOverdue
  \/ \E change \in Texts : ControlMessage(change)

Spec == Init /\ [][Next]_vars

(* The supervisor, both threads, the broker and the monitor go on; the loop *)
(* comes to its periodic check again and again, and to using every setting. *)
Fairness ==
  /\ WF_vars(Supervise)
  /\ WF_vars(LoadSettings) /\ WF_vars(ConnectBroker) /\ WF_vars(Authenticate)
  /\ WF_vars(HealthCheck) /\ WF_vars(LoopRaises)
  /\ WF_vars(StoreStep) /\ WF_vars(PahoStep) /\ WF_vars(NoticeLoss /\ Network)
  /\ WF_vars(PingOverdue)

FairSpec == Spec /\ Fairness

-----------------------------------------------------------------------------
(* While the process runs and no message is being stored, the file restores *)
(* the settings in force, so that an orderly or sudden end loses none;      *)
(* unless the latest store failed, which is not reported.                   *)
StoredIsCurrent ==
  phase \in {"connect", "auth", "loop"} /\ storing = "no" /\ ~unsaved =>
    Loadable(file) /\ Loaded(file) = control

(* The retained $connected says whether the client is connected, once the   *)
(* broker has noticed every loss, unless it noticed one after the birth     *)
(* message of the next connection (mqtt.py:31, :110).                       *)
AliveIsCurrent ==
  ghosts = 0 /\ ~outlived =>
    IF link THEN callback # "connack" => alive = "True" ELSE alive # "True"

(* A connected client that is out of on_connect has all its subscriptions,  *)
(* however often it lost them with a connection (mqtt.py:126).              *)
Listens == link /\ callback = "none" => subscribed = Topics

(* The process is running again in the end, "auto-restart on crash, reboot, *)
(* or fatal error" (docker-compose.yml:22), once the login is valid; unless *)
(* the file is empty or holds a useless setting, which no restart mends.    *)
Stuck == file = Empty \/ ~Usable(Loaded(file))

ComesBack == <>[](token = "valid") => <>[](phase = "loop" \/ Stuck)

(* In the end the monitor shows whether the process runs with a valid       *)
(* login, whatever pings were lost, however often the process ended, and    *)
(* although the polling of the cars swallows its errors (shedder.py:533).   *)
MonitorIsRight ==
  /\ <>[](token = "expired" \/ phase # "loop") => <>[](monitor = "down")
  /\ <>[](token = "valid" /\ phase = "loop") => <>[](monitor = "up")

(* A running process hears its meter and its user again in the end, unless  *)
(* a message has ended paho's thread.                                       *)
HearsAgain == <>[](phase = "loop" /\ paho) => <>[](subscribed = Topics)
=============================================================================
