------------------------------ MODULE OcppBridge ------------------------------
(***************************************************************************)
(* The OCPP-MQTT bridge (ocpp/main.py): OcppServer, the MQTT client        *)
(* (ocpp/mqtt_client.py) and what the broker retains.                      *)
(*                                                                         *)
(* Three threads: the server's event loop, paho's network thread (connect, *)
(* disconnect and message callbacks) and the main thread, which stops the  *)
(* two others.  A publication goes out only while the client believes it   *)
(* is connected, and arrives only if it is; it is never repeated.          *)
(*                                                                         *)
(* Client and broker notice a lost connection each in its own time, the    *)
(* broker after one and a half keepalive intervals: then it publishes the  *)
(* last will.  The client's identifier is fixed (config.MQTT_CLIENT_ID),   *)
(* so a new connection makes the broker end the old one, with its will,    *)
(* before it accepts the new one.                                          *)
(***************************************************************************)
EXTENDS OcppServer

VARIABLES
  link,       \* client and broker are connected
  lingering,  \* the broker takes a lost connection for alive; its will is to come
  connected,  \* _connected
  callback,   \* where paho's thread is in _on_connect
  mqttList,   \* cp_list of publish_bridge_status on paho's thread
  reading,    \* the event loop is inside publish_bridge_status
  serverList, \* cp_list there
  main,       \* how far the main thread's shutdown is
  retained,   \* per charge point: its retained status
  gateway,    \* the retained status of the gateway
  missed,     \* history: a status was published while the link was down
  raced,      \* history: the registry changed under a publish_bridge_status
  crossed     \* history: _on_connect published after stop() had, in this run
              \* or in an earlier one, and its is the last word

mqttVars == <<link, lingering, connected, callback, mqttList>>
loopVars == <<reading, serverList>>
brokerVars == <<retained, gateway>>
historyVars == <<missed, raced, crossed>>
vars == <<serverVars, mqttVars, loopVars, main, brokerVars, historyVars>>

GatewayStates == [connected : BOOLEAN, consumers : SUBSET ChargePoints]
Offline == [connected |-> FALSE, consumers |-> {}]

TypeInv ==
  /\ ServerTypeInv
  /\ link \in BOOLEAN /\ lingering \in BOOLEAN /\ connected \in BOOLEAN
  /\ callback \in {"off", "none", "connack", "read", "send"}
  /\ mqttList \in SUBSET ChargePoints
  /\ reading \in BOOLEAN /\ serverList \in SUBSET ChargePoints
  /\ main \in {"running", "publish", "disconnect", "stopped"}
  /\ retained \in [ChargePoints -> StatusPayloads \cup {"nothing"}]
  /\ gateway \in GatewayStates
  /\ missed \in BOOLEAN /\ raced \in BOOLEAN /\ crossed \in BOOLEAN

(* What an earlier run of the bridge leaves at the broker: any status of a  *)
(* charge point, as stop() publishes none; and an offline gateway, unless   *)
(* its will is still to come or _on_connect crossed its stop().             *)
BrokerInit ==
  /\ retained \in [ChargePoints -> StatusPayloads \cup {"nothing"}]
  /\ gateway \in {g \in GatewayStates : ~g.connected => g = Offline}
  /\ crossed \in BOOLEAN
  /\ gateway.connected => lingering \/ crossed

(* The connection is being made when the server starts; if connect raised,  *)
(* main goes on, and paho's thread is never started.                        *)
Init ==
  /\ ServerInit
  /\ \/ link = TRUE /\ lingering = FALSE /\ callback = "connack"
     \/ link = FALSE /\ lingering \in BOOLEAN /\ callback = "off"
  /\ BrokerInit
  /\ connected = FALSE /\ mqttList = {}
  /\ reading = FALSE /\ serverList = {}
  /\ main = "running"
  /\ missed = FALSE /\ raced = FALSE

-----------------------------------------------------------------------------
(* _publish: what becomes of a retained message. *)
Arrives == connected /\ link

(* charge_points *)
Registered == {p \in ChargePoints : registry[p] # NoSession}

(* A later word on the gateway reaches the broker. *)
Supersedes(said) == crossed' = (crossed /\ ~said)

(* The event loop publishes the next message of its coroutine. *)
PublishCpStatus ==
  /\ running /\ toPublish # <<>> /\ Head(toPublish).topic = "status"
  /\ retained' = IF Arrives
                 THEN [retained EXCEPT ![Head(toPublish).cp] = Head(toPublish).payload]
                 ELSE retained
  /\ missed' = (missed \/ ~Arrives)
  /\ toPublish' = Tail(toPublish)
  /\ UNCHANGED <<session, registry, running, order, call, overlapped>>
  /\ UNCHANGED <<mqttVars, loopVars, main, gateway, raced, crossed>>

(* publish_bridge_status on the event loop: the list is read, then sent. *)
ReadConsumers ==
  /\ running /\ toPublish # <<>> /\ Head(toPublish).topic = "gateway" /\ ~reading
  /\ reading' = TRUE /\ serverList' = Registered
  /\ UNCHANGED <<serverVars, mqttVars, main, brokerVars, historyVars>>

PublishGateway ==
  /\ running /\ reading
  /\ reading' = FALSE /\ serverList' = {}
  /\ gateway' = IF Arrives THEN [connected |-> TRUE, consumers |-> serverList] ELSE gateway
  /\ missed' = (missed \/ ~Arrives)
  /\ Supersedes(Arrives)
  /\ toPublish' = Tail(toPublish)
  /\ UNCHANGED <<session, registry, running, order, call, overlapped>>
  /\ UNCHANGED <<mqttVars, main, retained, raced>>

(* A response is a transient message; nothing depends on its arrival. *)
PublishResponse ==
  /\ running /\ toPublish # <<>> /\ Head(toPublish).topic = "response"
  /\ toPublish' = Tail(toPublish)
  /\ UNCHANGED <<session, registry, running, order, call, overlapped>>
  /\ UNCHANGED <<mqttVars, loopVars, main, brokerVars, historyVars>>

-----------------------------------------------------------------------------
(* The connection is lost; the broker notices it now or later. *)
LinkDown ==
  /\ link /\ main # "stopped"
  /\ link' = FALSE
  /\ \/ gateway' = Offline /\ Supersedes(TRUE) /\ UNCHANGED lingering
     \/ lingering' = TRUE /\ UNCHANGED <<gateway, crossed>>
  /\ UNCHANGED <<serverVars, connected, callback, mqttList, loopVars, main,
                 retained, missed, raced>>

(* The broker notices the loss and publishes the last will. *)
NoticeLoss ==
  /\ lingering
  /\ lingering' = FALSE
  /\ gateway' = Offline /\ Supersedes(TRUE)
  /\ UNCHANGED <<serverVars, link, connected, callback, mqttList, loopVars, main,
                 retained, missed, raced>>

(* _on_disconnect: the client notices the loss. *)
OnDisconnect ==
  /\ ~link /\ connected /\ callback = "none" /\ main # "stopped"
  /\ connected' = FALSE
  /\ UNCHANGED <<serverVars, link, lingering, callback, mqttList, loopVars, main,
                 brokerVars, historyVars>>

(* paho's thread makes a new connection, which ends a lingering one. *)
LinkUp ==
  /\ ~link /\ ~connected /\ callback = "none" /\ main # "stopped"
  /\ link' = TRUE /\ callback' = "connack"
  /\ lingering' = FALSE
  /\ gateway' = (IF lingering THEN Offline ELSE gateway) /\ Supersedes(lingering)
  /\ UNCHANGED <<serverVars, connected, mqttList, loopVars, main, retained, missed, raced>>

(* _on_connect: the flag, then publish_bridge_status; it subscribes last. *)
OnConnect ==
  /\ callback = "connack" /\ main # "stopped"
  /\ connected' = TRUE /\ callback' = "read"
  /\ UNCHANGED <<serverVars, link, lingering, mqttList, loopVars, main, brokerVars, historyVars>>

OnConnectRead ==
  /\ callback = "read"
  /\ mqttList' = Registered /\ callback' = "send"
  /\ UNCHANGED <<serverVars, link, lingering, connected, loopVars, main, brokerVars,
                 historyVars>>

OnConnectSend ==
  /\ callback = "send"
  /\ gateway' = IF Arrives THEN [connected |-> TRUE, consumers |-> mqttList] ELSE gateway
  /\ mqttList' = {} /\ callback' = "none"
  /\ crossed' = IF Arrives THEN main = "disconnect" ELSE crossed
  /\ UNCHANGED <<serverVars, link, lingering, connected, loopVars, main, retained, missed,
                 raced>>

(* _on_message *)
OnMessage(k) ==
  /\ Arrives /\ callback = "none" /\ main # "stopped"
  /\ Dispatch(k)
  /\ UNCHANGED <<mqttVars, loopVars, main, brokerVars, historyVars>>

-----------------------------------------------------------------------------
(* main's shutdown: ocpp.stop(), then mqtt.stop(), which publishes, ends    *)
(* paho's thread once it is out of its callbacks, and disconnects, so that  *)
(* the broker drops the last will; that of a lost connection it keeps.      *)
StopServer ==
  /\ main = "running"
  /\ StopLoop
  /\ main' = "publish"
  /\ UNCHANGED <<mqttVars, loopVars, brokerVars, historyVars>>

(* Mutant: a clean disconnect is trusted to drop the last will. *)
LeaveItToTheWill == gateway

LastStatus == IF Arrives THEN Offline ELSE gateway

StopPublish ==
  /\ main = "publish"
  /\ gateway' = LastStatus /\ Supersedes(Arrives)
  /\ main' = "disconnect"
  /\ UNCHANGED <<serverVars, mqttVars, loopVars, retained, missed, raced>>

StopDisconnect ==
  /\ main = "disconnect" /\ callback \in {"off", "none", "connack"}
  /\ link' = FALSE /\ main' = "stopped"
  /\ UNCHANGED <<serverVars, lingering, connected, callback, mqttList, loopVars, brokerVars,
                 historyVars>>

-----------------------------------------------------------------------------
(* The registry changes while paho's thread is between reading and sending. *)
Watch == raced' = (raced \/ (callback = "send" /\ registry' # registry))

Served(action) ==
  action /\ Watch /\ UNCHANGED <<mqttVars, loopVars, main, brokerVars, missed, crossed>>

ServerStep ==
  \/ \E s \in Sessions :
       Served(Connect(s) \/ Break(s) \/ Cleanup(s) \/ StatusNotification(s))
  \/ Served(Calls)

Publish == PublishCpStatus \/ ReadConsumers \/ PublishGateway \/ PublishResponse

PahoStep ==
  \/ OnDisconnect \/ LinkUp \/ OnConnect \/ OnConnectRead \/ OnConnectSend
  \/ \E k \in Commands : OnMessage(k)

MainStep == StopServer \/ StopPublish \/ StopDisconnect

Next == ServerStep \/ Publish \/ LinkDown \/ NoticeLoss \/ PahoStep \/ MainStep

Spec == Init /\ [][Next]_vars

-----------------------------------------------------------------------------
(* Nothing is under way, and the broker is connected. *)
Settled ==
  /\ Free /\ Arrives /\ callback = "none" /\ main = "running"
  /\ \A s \in Sessions : session[s] # "broken"

Online(p) == \E s \in Sessions : Of(s) = p /\ session[s] = "open"
Seen(p) == \E s \in Sessions : Of(s) = p /\ session[s] # "unused"

(* The registry is one "of connected charge points" (ocpp_server.py:26):    *)
(* a charge point with a working connection has its own handler in it, and  *)
(* once settled one without has none.                                       *)
RegistryIsCurrent ==
  \A p \in ChargePoints :
    IF Online(p) THEN registry[p] # NoSession /\ session[registry[p]] = "open"
    ELSE Settled => registry[p] = NoSession

(* It is unless a charge point returned before its loss was noticed.        *)
RegistryIsCurrentUnlessOverlapped == ~overlapped => RegistryIsCurrent

(* Once settled, what the broker retains for a charge point is its latest   *)
(* state (config.py:32): of one that is connected that it is available, of  *)
(* one that went that it is not, whatever an earlier run has left there;    *)
(* unless a publication fell into an outage of the broker, where it is      *)
(* dropped, or a charge point returned too early.  Nothing corrects the     *)
(* status of one that does not come back after the bridge's restart.        *)
StatusIsCurrent ==
  Settled /\ ~missed /\ ~overlapped =>
    \A p \in ChargePoints :
      IF Online(p) THEN retained[p] \in {"available", "notified"}
      ELSE Seen(p) => retained[p] = "unavailable"

(* Once settled, the retained gateway status lists the "consumer IDs of     *)
(* connected charge points" (mqtt_client.py:160), whatever was lost in an   *)
(* outage, unless a charge point came or went while _on_connect was         *)
(* publishing the list it had read.                                         *)
GatewayIsCurrent ==
  Settled /\ ~raced => gateway = [connected |-> TRUE, consumers |-> Registered]

(* A stopped bridge leaves an "offline gateway status" (mqtt_client.py:95): *)
(* published; or said by a last will, where stop() published none or its    *)
(* publication was lost with the connection, and then at the latest when    *)
(* the broker notices the loss.  It is left where this run never connected; *)
(* and nothing takes it back unless _on_connect published after stop() had. *)
OfflineAfterStop == main = "stopped" /\ ~lingering => ~gateway.connected
OfflineAfterStopUnlessCrossed == ~crossed => OfflineAfterStop
=============================================================================
