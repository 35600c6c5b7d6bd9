--------------------------- MODULE OcppBridgeProofs ---------------------------
(***************************************************************************)
(* For every set of charge points, connections and commands: the registry  *)
(* is current until a charge point returns too early, and of a stopped     *)
(* bridge the broker says that it is offline, unless a connect callback    *)
(* crossed stop().                                                         *)
(***************************************************************************)
EXTENDS OcppBridge, SequenceTheorems, TLAPS

(* What the registry knows: every connection that has not been cleaned up  *)
(* is in it, and nothing else is.                                          *)
Kept == {"open", "broken"}

RegistryTypes ==
  /\ session \in [Sessions -> {"unused", "open", "broken", "gone"}]
  /\ registry \in [ChargePoints -> Sessions \cup {NoSession}]
  /\ overlapped \in BOOLEAN

KeptAreRegistered == \A s \in Sessions : session[s] \in Kept => registry[Of(s)] = s

RegisteredAreKept ==
  \A p \in ChargePoints :
    registry[p] # NoSession => session[registry[p]] \in Kept /\ Of(registry[p]) = p

RegistryIInv ==
  RegistryTypes /\ (~overlapped => KeptAreRegistered /\ RegisteredAreKept)

(* A registration without an overlap: no other connection of the charge    *)
(* point is kept, so none loses its place.                                 *)
LEMMA ConnectKeeps ==
  ASSUME RegistryIInv, NEW s \in Sessions, Connect(s)
  PROVE  RegistryIInv'
<1> USE DEF RegistryIInv
<1>of. Of(s) \in ChargePoints /\ s # NoSession
  BY OcppAssumption
<1>1. /\ session' = [session EXCEPT ![s] = "open"]
      /\ registry' = [registry EXCEPT ![Of(s)] = s]
  BY DEF Connect, Register
<1>2. RegistryTypes'
  BY <1>1, <1>of DEF RegistryTypes, Connect
<1>3. ASSUME ~overlapped'
      PROVE  ~overlapped /\ \A o \in Sessions : Of(o) = Of(s) => session[o] \notin Kept
  BY <1>3 DEF Connect, RegistryTypes, Kept
<1>4. ASSUME ~overlapped' PROVE KeptAreRegistered'
  <2> SUFFICES ASSUME NEW o \in Sessions, (session[o] \in Kept)'
               PROVE  (registry[Of(o)] = o)'
    BY DEF KeptAreRegistered
  <2>of. Of(o) \in ChargePoints
    BY OcppAssumption
  <2>1. CASE o = s
    BY <2>1, <1>1, <1>of DEF RegistryTypes
  <2>2. CASE o # s
    <3>1. session[o] \in Kept
      BY <2>2, <1>1 DEF RegistryTypes
    <3>2. Of(o) # Of(s) /\ registry[Of(o)] = o
      BY <3>1, <1>3, <1>4 DEF KeptAreRegistered
    <3> QED BY <3>2, <2>of, <1>1 DEF RegistryTypes
  <2> QED BY <2>1, <2>2
<1>5. ASSUME ~overlapped' PROVE RegisteredAreKept'
  <2> SUFFICES ASSUME NEW p \in ChargePoints, registry'[p] # NoSession
               PROVE  session'[registry'[p]] \in Kept /\ Of(registry'[p]) = p
    BY DEF RegisteredAreKept
  <2>1. CASE p = Of(s)
    BY <2>1, <1>1 DEF RegistryTypes, Kept
  <2>2. CASE p # Of(s)
    <3>1. registry'[p] = registry[p]
      BY <2>2, <1>1 DEF RegistryTypes
    <3>2. session[registry[p]] \in Kept /\ Of(registry[p]) = p /\ registry[p] \in Sessions
      BY <3>1, <1>3, <1>5 DEF RegisteredAreKept, RegistryTypes
    <3> QED BY <3>1, <3>2, <2>2, <1>1 DEF RegistryTypes
  <2> QED BY <2>1, <2>2
<1> QED BY <1>2, <1>4, <1>5

(* A loss keeps the connection in the registry until its cleanup. *)
LEMMA BreakKeeps ==
  ASSUME RegistryIInv, NEW s \in Sessions, Break(s)
  PROVE  RegistryIInv'
<1>1. /\ session' = [session EXCEPT ![s] = "broken"] /\ session[s] = "open"
      /\ registry' = registry /\ overlapped' = overlapped
  BY DEF Break
<1>2. RegistryTypes'
  BY <1>1 DEF RegistryTypes, RegistryIInv
<1>3. \A o \in Sessions : session'[o] \in Kept <=> session[o] \in Kept
  BY <1>1 DEF RegistryIInv, RegistryTypes, Kept
<1>4. ~overlapped => KeptAreRegistered' /\ RegisteredAreKept'
  BY <1>1, <1>3 DEF RegistryIInv, RegistryTypes, KeptAreRegistered, RegisteredAreKept
<1> QED BY <1>1, <1>2, <1>4 DEF RegistryIInv

(* The cleanup removes the connection it is about, not a later one. *)
LEMMA CleanupKeeps ==
  ASSUME RegistryIInv, NEW s \in Sessions, Cleanup(s)
  PROVE  RegistryIInv'
<1>of. Of(s) \in ChargePoints
  BY OcppAssumption
<1>1. /\ session' = [session EXCEPT ![s] = "gone"] /\ session[s] = "broken"
      /\ registry' = [registry EXCEPT ![Of(s)] = NoSession] /\ overlapped' = overlapped
  BY DEF Cleanup, Unregister
<1>2. RegistryTypes'
  BY <1>1, <1>of DEF RegistryTypes, RegistryIInv
<1>3. ASSUME ~overlapped PROVE registry[Of(s)] = s
  BY <1>1, <1>3 DEF RegistryIInv, KeptAreRegistered, Kept
<1>4. ASSUME ~overlapped PROVE KeptAreRegistered'
  <2> SUFFICES ASSUME NEW o \in Sessions, (session[o] \in Kept)'
               PROVE  (registry[Of(o)] = o)'
    BY DEF KeptAreRegistered
  <2>1. o # s /\ session[o] \in Kept
    BY <1>1 DEF RegistryIInv, RegistryTypes, Kept
  <2>2. registry[Of(o)] = o /\ Of(o) # Of(s)
    BY <2>1, <1>3, <1>4 DEF RegistryIInv, KeptAreRegistered
  <2> QED BY <2>2, <1>1, OcppAssumption DEF RegistryIInv, RegistryTypes
<1>5. ASSUME ~overlapped PROVE RegisteredAreKept'
  <2> SUFFICES ASSUME NEW p \in ChargePoints, registry'[p] # NoSession
               PROVE  session'[registry'[p]] \in Kept /\ Of(registry'[p]) = p
    BY DEF RegisteredAreKept
  <2>1. p # Of(s) /\ registry'[p] = registry[p]
    BY <1>1 DEF RegistryIInv, RegistryTypes
  <2>2. session[registry[p]] \in Kept /\ Of(registry[p]) = p /\ registry[p] \in Sessions
    BY <2>1, <1>5 DEF RegistryIInv, RegistryTypes, RegisteredAreKept
  <2> QED BY <2>1, <2>2, <1>1 DEF RegistryIInv, RegistryTypes
<1> QED BY <1>1, <1>2, <1>4, <1>5 DEF RegistryIInv

LEMMA UnchangedRegistryKeeps ==
  ASSUME RegistryIInv, UNCHANGED <<session, registry, overlapped>>
  PROVE  RegistryIInv'
BY DEF RegistryIInv, RegistryTypes, KeptAreRegistered, RegisteredAreKept

LEMMA InitRegistryIInv == Init => RegistryIInv
BY DEF Init, ServerInit, RegistryIInv, RegistryTypes, KeptAreRegistered,
       RegisteredAreKept, Kept

LEMMA NextRegistryIInv == RegistryIInv /\ [Next]_vars => RegistryIInv'
<1> SUFFICES ASSUME RegistryIInv, [Next]_vars PROVE RegistryIInv'
  OBVIOUS
<1>1. CASE ServerStep
  <2>1. ASSUME NEW s \in Sessions,
               Connect(s) \/ Break(s) \/ Cleanup(s) \/ StatusNotification(s)
        PROVE  RegistryIInv'
    <3>1. CASE StatusNotification(s)
      BY <3>1, UnchangedRegistryKeeps DEF StatusNotification
    <3> QED BY <2>1, <3>1, ConnectKeeps, BreakKeeps, CleanupKeeps
  <2>2. ASSUME Calls PROVE RegistryIInv'
    <3>1. UNCHANGED <<session, registry, overlapped>>
      BY <2>2 DEF Calls, SendCall, Answer, Timeout
    <3> QED BY <3>1, UnchangedRegistryKeeps
  <2> QED BY <1>1, <2>1, <2>2 DEF ServerStep, Served
<1>2. CASE Publish
  <2>1. UNCHANGED <<session, registry, overlapped>>
    BY <1>2 DEF Publish, PublishCpStatus, ReadConsumers, PublishGateway,
                PublishResponse, serverVars
  <2> QED BY <2>1, UnchangedRegistryKeeps
<1>3. CASE LinkDown \/ NoticeLoss
  BY <1>3, UnchangedRegistryKeeps DEF LinkDown, NoticeLoss, serverVars
<1>4. CASE PahoStep
  <2>1. UNCHANGED <<session, registry, overlapped>>
    BY <1>4 DEF PahoStep, OnDisconnect, LinkUp, OnConnect, OnConnectRead,
                OnConnectSend, OnMessage, Dispatch, serverVars
  <2> QED BY <2>1, UnchangedRegistryKeeps
<1>5. CASE MainStep
  <2>1. UNCHANGED <<session, registry, overlapped>>
    BY <1>5 DEF MainStep, StopServer, StopLoop, StopPublish, StopDisconnect, serverVars
  <2> QED BY <2>1, UnchangedRegistryKeeps
<1>6. CASE UNCHANGED vars
  BY <1>6, UnchangedRegistryKeeps DEF vars, serverVars
<1> QED BY <1>1, <1>2, <1>3, <1>4, <1>5, <1>6 DEF Next

LEMMA RegistryIInvSuffices == RegistryIInv => RegistryIsCurrentUnlessOverlapped
<1> SUFFICES ASSUME RegistryIInv, ~overlapped, NEW p \in ChargePoints
             PROVE  IF Online(p) THEN registry[p] # NoSession /\ session[registry[p]] = "open"
                    ELSE Settled => registry[p] = NoSession
  BY DEF RegistryIsCurrentUnlessOverlapped, RegistryIsCurrent
<1>1. ASSUME Online(p) PROVE registry[p] # NoSession /\ session[registry[p]] = "open"
  <2>1. PICK s \in Sessions : Of(s) = p /\ session[s] = "open"
    BY <1>1 DEF Online
  <2>2. registry[p] = s
    BY <2>1 DEF RegistryIInv, KeptAreRegistered, Kept
  <2> QED BY <2>1, <2>2, OcppAssumption
<1>2. ASSUME ~Online(p), Settled, registry[p] # NoSession PROVE FALSE
  <2>1. registry[p] \in Sessions /\ session[registry[p]] \in Kept /\ Of(registry[p]) = p
    BY <1>2 DEF RegistryIInv, RegistryTypes, RegisteredAreKept
  <2>2. session[registry[p]] = "open"
    BY <2>1, <1>2 DEF Settled, Kept
  <2> QED BY <2>1, <2>2, <1>2 DEF Online
<1> QED BY <1>1, <1>2

(* The registry of connected charge points (ocpp_server.py:26): as long as  *)
(* no charge point returns before its loss was noticed, each one with a     *)
(* working connection has that connection's handler in it, and, once        *)
(* settled, nobody else has one.                                            *)
THEOREM RegistryStaysCurrent == Spec => []RegistryIsCurrentUnlessOverlapped
BY InitRegistryIInv, NextRegistryIInv, RegistryIInvSuffices, PTL DEF Spec
-----------------------------------------------------------------------------
(* Unless a stop() was crossed: where the gateway is retained as connected, *)
(* the client is, or its last will is to come; from stop()'s publication on *)
(* only the latter; and no publication is under way when the bridge has     *)
(* stopped.                                                                 *)
OnlyIfArrives == gateway.connected => lingering \/ (link /\ connected)

StopIInv ==
  /\ gateway.connected \in BOOLEAN
  /\ link \in BOOLEAN /\ lingering \in BOOLEAN /\ connected \in BOOLEAN /\ crossed \in BOOLEAN
  /\ main # "running" => ~running
  /\ main = "stopped" => callback \notin {"read", "send"}
  /\ ~crossed => /\ OnlyIfArrives
                 /\ main \in {"disconnect", "stopped"} => lingering \/ ~gateway.connected

LEMMA PayloadsAre ==
  /\ Offline.connected = FALSE
  /\ \A C : [connected |-> TRUE, consumers |-> C].connected = TRUE
BY DEF Offline

LEMMA InitStopIInv == Init => StopIInv
BY PayloadsAre DEF Init, BrokerInit, GatewayStates, ServerInit, StopIInv, OnlyIfArrives

LEMMA ServerStepKeepsStopIInv ==
  ASSUME StopIInv, ServerStep
  PROVE  StopIInv'
<1>1. UNCHANGED <<mqttVars, main, gateway, crossed, running>>
  <2>1. UNCHANGED <<mqttVars, main, brokerVars, crossed>>
    BY DEF ServerStep, Served
  <2>2. UNCHANGED running
    BY DEF ServerStep, Served, Connect, Break, Cleanup, StatusNotification, Calls,
           SendCall, Answer, Timeout
  <2> QED BY <2>1, <2>2 DEF brokerVars
<1> QED BY <1>1 DEF StopIInv, OnlyIfArrives, mqttVars

(* The event loop publishes the gateway as connected only while it runs,   *)
(* and that is before stop() publishes.                                    *)
LEMMA PublishKeepsStopIInv ==
  ASSUME StopIInv, Publish
  PROVE  StopIInv'
<1>1. UNCHANGED <<mqttVars, main, running>>
  BY DEF Publish, PublishCpStatus, ReadConsumers, PublishGateway, PublishResponse, serverVars
<1>2. CASE PublishGateway
  <2>1. running /\ main = "running"
    BY <1>2 DEF PublishGateway, StopIInv
  <2>2. /\ gateway'.connected \in BOOLEAN /\ crossed' \in BOOLEAN
        /\ Arrives \/ (UNCHANGED gateway /\ (~crossed' => ~crossed))
    BY <1>2, PayloadsAre DEF PublishGateway, Supersedes, StopIInv
  <2> QED BY <1>1, <2>1, <2>2 DEF StopIInv, OnlyIfArrives, Arrives, mqttVars
<1>3. CASE UNCHANGED <<gateway, crossed>>
  BY <1>1, <1>3 DEF StopIInv, OnlyIfArrives, mqttVars
<1> QED BY <1>2, <1>3 DEF Publish, PublishCpStatus, ReadConsumers, PublishResponse, brokerVars,
                          historyVars

(* A lost connection leaves the last will to come, or it has come.          *)
LEMMA LossKeepsStopIInv ==
  ASSUME StopIInv, LinkDown \/ NoticeLoss
  PROVE  StopIInv'
<1>1. CASE LinkDown
  BY <1>1, PayloadsAre DEF LinkDown, Supersedes, StopIInv, OnlyIfArrives, serverVars
<1>2. CASE NoticeLoss
  BY <1>2, PayloadsAre DEF NoticeLoss, Supersedes, StopIInv, OnlyIfArrives, serverVars
<1> QED BY <1>1, <1>2

LEMMA PahoStepKeepsStopIInv ==
  ASSUME StopIInv, PahoStep
  PROVE  StopIInv'
<1>1. CASE OnDisconnect
  BY <1>1 DEF OnDisconnect, StopIInv, OnlyIfArrives, serverVars, brokerVars, historyVars
<1>2. CASE LinkUp
  <2>1. CASE lingering
    BY <1>2, <2>1, PayloadsAre DEF LinkUp, Supersedes, StopIInv, OnlyIfArrives, serverVars
  <2>2. CASE ~lingering
    BY <1>2, <2>2 DEF LinkUp, Supersedes, StopIInv, OnlyIfArrives, serverVars
  <2> QED BY <2>1, <2>2
<1>3. CASE OnConnect
  BY <1>3 DEF OnConnect, StopIInv, OnlyIfArrives, serverVars, brokerVars, historyVars
<1>4. CASE OnConnectRead
  BY <1>4 DEF OnConnectRead, StopIInv, OnlyIfArrives, serverVars, brokerVars, historyVars
<1>5. CASE OnConnectSend
  <2>1. UNCHANGED <<running, link, lingering, connected, main>> /\ callback' = "none"
        /\ main # "stopped"
    BY <1>5 DEF OnConnectSend, serverVars, StopIInv
  <2>2. CASE Arrives
    <3>1. gateway'.connected = TRUE /\ crossed' \in BOOLEAN
          /\ (~crossed' => main # "disconnect")
      BY <1>5, <2>2, PayloadsAre DEF OnConnectSend
    <3> QED BY <2>1, <2>2, <3>1 DEF StopIInv, OnlyIfArrives, Arrives
  <2>3. CASE ~Arrives
    BY <1>5, <2>1, <2>3 DEF OnConnectSend, StopIInv, OnlyIfArrives
  <2> QED BY <2>2, <2>3
<1>6. ASSUME NEW k \in Commands, OnMessage(k) PROVE StopIInv'
  BY <1>6 DEF OnMessage, Dispatch, StopIInv, OnlyIfArrives, mqttVars, brokerVars, historyVars
<1> QED BY <1>1, <1>2, <1>3, <1>4, <1>5, <1>6 DEF PahoStep

(* stop() publishes offline, or the last will has done so or is to do it;  *)
(* paho's thread is out of its callbacks when the client disconnects.      *)
LEMMA MainStepKeepsStopIInv ==
  ASSUME StopIInv, MainStep
  PROVE  StopIInv'
<1>1. CASE StopServer
  BY <1>1 DEF StopServer, StopLoop, StopIInv, OnlyIfArrives, mqttVars, brokerVars, historyVars
<1>2. CASE StopPublish
  <2>1. UNCHANGED <<running, link, lingering, connected, callback>>
        /\ main = "publish" /\ main' = "disconnect"
    BY <1>2 DEF StopPublish, serverVars, mqttVars
  <2>2. CASE Arrives
    <3>1. gateway'.connected = FALSE /\ crossed' \in BOOLEAN
      BY <1>2, <2>2, PayloadsAre DEF StopPublish, LastStatus, Supersedes
    <3> QED BY <2>1, <3>1 DEF StopIInv, OnlyIfArrives
  <2>3. CASE ~Arrives
    <3>1. UNCHANGED gateway /\ crossed' \in BOOLEAN /\ (~crossed' => ~crossed)
      BY <1>2, <2>3 DEF StopPublish, LastStatus, Supersedes, StopIInv
    <3> QED BY <2>1, <2>3, <3>1 DEF StopIInv, OnlyIfArrives, Arrives
  <2> QED BY <2>2, <2>3
<1>3. CASE StopDisconnect
  BY <1>3 DEF StopDisconnect, StopIInv, OnlyIfArrives, serverVars, brokerVars, historyVars
<1> QED BY <1>1, <1>2, <1>3 DEF MainStep

LEMMA NextStopIInv == StopIInv /\ [Next]_vars => StopIInv'
<1> SUFFICES ASSUME StopIInv, [Next]_vars PROVE StopIInv'
  OBVIOUS
<1>1. CASE UNCHANGED vars
  BY <1>1 DEF vars, serverVars, mqttVars, brokerVars, historyVars, StopIInv, OnlyIfArrives
<1> QED BY <1>1, ServerStepKeepsStopIInv, PublishKeepsStopIInv, LossKeepsStopIInv,
           PahoStepKeepsStopIInv, MainStepKeepsStopIInv DEF Next

(* A stopped bridge leaves an offline gateway (mqtt_client.py:95) as soon   *)
(* as the broker has noticed a loss of its connection, if there was one:    *)
(* also when the loss came in front of stop()'s publication or took it      *)
(* along, and when the broker was away or never there; unless _on_connect   *)
(* published between that publication and the disconnect, in this run or,   *)
(* with nothing said since, in an earlier one.                              *)
THEOREM StoppedIsOffline == Spec => []OfflineAfterStopUnlessCrossed
<1>1. StopIInv => OfflineAfterStopUnlessCrossed
  BY DEF StopIInv, OfflineAfterStopUnlessCrossed, OfflineAfterStop
<1> QED BY <1>1, InitStopIInv, NextStopIInv, PTL DEF Spec

-----------------------------------------------------------------------------
(* What a coroutine has to publish: a status with the gateway's after it,   *)
(* or a response.                                                           *)
GatewayMessage == [topic |-> "gateway"]
StatusMessage(p, payload) == [topic |-> "status", cp |-> p, payload |-> payload]

StatusPending ==
  \E p \in ChargePoints, payload \in StatusPayloads :
    toPublish = <<StatusMessage(p, payload), GatewayMessage>>
GatewayPending == StatusPending \/ toPublish = <<GatewayMessage>>
ResponsePending == toPublish = <<[topic |-> "response"]>>

MessagesInv ==
  /\ GatewayPending \/ ResponsePending \/ toPublish = <<>>
  /\ reading => toPublish = <<GatewayMessage>>

(* Which message comes first tells what is pending.                         *)
LEMMA FirstMessage ==
  ASSUME MessagesInv, toPublish # <<>>
  PROVE  \/ /\ Head(toPublish).topic = "status" /\ StatusPending /\ ~ResponsePending
            /\ Tail(toPublish) = <<GatewayMessage>>
            /\ Head(toPublish).cp \in ChargePoints /\ Head(toPublish).payload \in StatusPayloads
         \/ /\ Head(toPublish).topic = "gateway" /\ toPublish = <<GatewayMessage>>
            /\ Tail(toPublish) = <<>> /\ ~StatusPending /\ ~ResponsePending
         \/ /\ Head(toPublish).topic = "response" /\ ResponsePending
            /\ Tail(toPublish) = <<>> /\ ~GatewayPending
<1>1. CASE StatusPending
  <2>1. PICK p \in ChargePoints, payload \in StatusPayloads :
               toPublish = <<StatusMessage(p, payload), GatewayMessage>>
    BY <1>1 DEF StatusPending
  <2>2. Head(toPublish) = StatusMessage(p, payload) /\ Tail(toPublish) = <<GatewayMessage>>
    BY <2>1
  <2>3. ~ResponsePending
    BY <2>1 DEF ResponsePending
  <2> QED BY <1>1, <2>2, <2>3 DEF StatusMessage
<1>2. CASE toPublish = <<GatewayMessage>>
  <2>1. Head(toPublish).topic = "gateway" /\ Tail(toPublish) = <<>>
    BY <1>2 DEF GatewayMessage
  <2>2. ~StatusPending
    BY <1>2 DEF StatusPending
  <2>3. ~ResponsePending
    BY <1>2 DEF ResponsePending, GatewayMessage
  <2> QED BY <1>2, <2>1, <2>2, <2>3
<1>3. CASE ResponsePending
  <2>1. Head(toPublish).topic = "response" /\ Tail(toPublish) = <<>>
    BY <1>3 DEF ResponsePending
  <2>2. ~StatusPending
    BY <1>3 DEF ResponsePending, StatusPending
  <2>3. toPublish # <<GatewayMessage>>
    BY <1>3 DEF ResponsePending, GatewayMessage
  <2> QED BY <1>3, <2>1, <2>2, <2>3 DEF GatewayPending
<1> QED BY <1>1, <1>2, <1>3 DEF MessagesInv, GatewayPending

(* What the server's steps have to publish.                                 *)
LEMMA ServerPublishes ==
  ASSUME ServerStep
  PROVE  \/ Free /\ StatusPending'
         \/ Free /\ ResponsePending' /\ UNCHANGED registry
         \/ UNCHANGED <<toPublish, registry>>
<1>1. ASSUME NEW s \in Sessions,
             Connect(s) \/ Cleanup(s) \/ StatusNotification(s)
      PROVE  Free /\ StatusPending'
  <2>1. PICK payload \in StatusPayloads : PublishStatus(Of(s), payload)
    BY <1>1 DEF Connect, Cleanup, StatusNotification, StatusPayloads
  <2>2. toPublish' = <<StatusMessage(Of(s), payload), GatewayMessage>>
    BY <2>1 DEF PublishStatus, StatusMessage, GatewayMessage
  <2>3. Of(s) \in ChargePoints
    BY OcppAssumption
  <2>4. Free
    BY <1>1 DEF Connect, Cleanup, StatusNotification
  <2> QED BY <2>2, <2>3, <2>4 DEF StatusPending, StatusMessage, GatewayMessage
<1>2. ASSUME NEW s \in Sessions, Break(s) PROVE UNCHANGED <<toPublish, registry>>
  BY <1>2 DEF Break
<1>3. ASSUME NEW s \in Sessions, NEW k \in Commands,
             SendCall(s, k) \/ Answer(s, k) \/ Timeout(s, k)
      PROVE  /\ UNCHANGED registry
             /\ (Free /\ ResponsePending') \/ UNCHANGED toPublish
  BY <1>3 DEF SendCall, Answer, Timeout, Respond, ResponsePending
<1> QED BY <1>1, <1>2, <1>3 DEF ServerStep, Served, Calls

LEMMA NextMessages ==
  ASSUME MessagesInv, [Next]_vars
  PROVE  MessagesInv'
<1>1. CASE ServerStep
  <2>1. UNCHANGED reading
    BY <1>1 DEF ServerStep, Served, loopVars
  <2>2. Free => ~reading
    BY DEF Free, MessagesInv
  <2> QED BY <1>1, <2>1, <2>2, ServerPublishes
          DEF MessagesInv, GatewayPending, StatusPending, ResponsePending, GatewayMessage,
              StatusMessage
<1>2. CASE PublishCpStatus
  <2>1. toPublish' = <<GatewayMessage>> /\ UNCHANGED reading /\ ~reading
    BY <1>2, FirstMessage DEF PublishCpStatus, loopVars, MessagesInv
  <2> QED BY <2>1 DEF MessagesInv, GatewayPending, GatewayMessage
<1>3. CASE ReadConsumers
  <2>1. toPublish' = <<GatewayMessage>>
    BY <1>3, FirstMessage DEF ReadConsumers, serverVars
  <2> QED BY <2>1 DEF MessagesInv, GatewayPending, GatewayMessage
<1>4. CASE PublishGateway \/ PublishResponse
  <2>1. CASE PublishGateway
    <3>1. toPublish # <<>>
      BY <2>1 DEF PublishGateway, MessagesInv
    <3> QED BY <2>1, <3>1, FirstMessage DEF PublishGateway, MessagesInv, GatewayPending
  <2>2. CASE PublishResponse
    <3>1. toPublish' = <<>> /\ ~GatewayPending /\ UNCHANGED reading
      BY <2>2, FirstMessage DEF PublishResponse, loopVars, GatewayMessage, StatusMessage
    <3> QED BY <3>1 DEF MessagesInv, GatewayPending
  <2> QED BY <1>4, <2>1, <2>2
<1>5. CASE UNCHANGED <<toPublish, reading>>
  BY <1>5 DEF MessagesInv, GatewayPending, StatusPending, ResponsePending, GatewayMessage,
              StatusMessage
<1> QED BY <1>1, <1>2, <1>3, <1>4, <1>5
        DEF Next, Publish, LinkDown, NoticeLoss, PahoStep, OnDisconnect, LinkUp, OnConnect, OnConnectRead,
            OnConnectSend, OnMessage, Dispatch, MainStep, StopServer, StopLoop, StopPublish,
            StopDisconnect, vars, serverVars, loopVars

-----------------------------------------------------------------------------
(* The types.                                                               *)
LEMMA MessageTypes ==
  /\ \A p \in ChargePoints, payload \in StatusPayloads :
       /\ <<[topic |-> "status", cp |-> p, payload |-> payload], [topic |-> "gateway"]>>
            \in Seq(Publications)
       /\ <<[topic |-> "response"]>> \in Seq(Publications)
       /\ <<>> \in Seq(Publications)
  /\ \A m \in Publications :
       m.topic = "status" => m.cp \in ChargePoints /\ m.payload \in StatusPayloads
<1>1. /\ [topic |-> "gateway"] \in Publications /\ [topic |-> "response"] \in Publications
      /\ \A p \in ChargePoints, payload \in StatusPayloads :
           [topic |-> "status", cp |-> p, payload |-> payload] \in Publications
  BY DEF Publications
<1>2. \A m \in Publications :
        m.topic = "status" => m.cp \in ChargePoints /\ m.payload \in StatusPayloads
  BY DEF Publications
<1> QED BY <1>1, <1>2

LEMMA PublishTypes ==
  ASSUME NEW s \in Sessions, NEW payload \in StatusPayloads, PublishStatus(Of(s), payload)
  PROVE  toPublish' \in Seq(Publications)
<1>1. Of(s) \in ChargePoints
  BY OcppAssumption
<1> QED BY <1>1, MessageTypes DEF PublishStatus

LEMMA ServerActionTypes ==
  ASSUME ServerTypeInv, NEW s \in Sessions,
         Connect(s) \/ Break(s) \/ Cleanup(s) \/ StatusNotification(s)
  PROVE  ServerTypeInv'
<1>0. "available" \in StatusPayloads /\ "unavailable" \in StatusPayloads
      /\ "notified" \in StatusPayloads /\ Of(s) \in ChargePoints
  BY OcppAssumption DEF StatusPayloads
<1>1. toPublish' \in Seq(Publications)
  BY <1>0, PublishTypes DEF ServerTypeInv, Connect, Break, Cleanup, StatusNotification
<1>2. overlapped' \in BOOLEAN
  BY DEF ServerTypeInv, Connect, Break, Cleanup, StatusNotification
<1>3. /\ session' \in [Sessions -> {"unused", "open", "broken", "gone"}]
      /\ registry' \in [ChargePoints -> Sessions \cup {NoSession}]
  BY <1>0 DEF ServerTypeInv, Connect, Break, Cleanup, StatusNotification, Register,
              Unregister
<1> QED BY <1>1, <1>2, <1>3 DEF ServerTypeInv, Connect, Break, Cleanup, StatusNotification

LEMMA CallTypes ==
  ASSUME ServerTypeInv, Calls
  PROVE  ServerTypeInv'
<1>1. PICK s \in Sessions, k \in Commands : SendCall(s, k) \/ Answer(s, k) \/ Timeout(s, k)
  BY DEF Calls
<1>2. CASE Respond(s, k) /\ Holds(s, k)
  <2>1. Tail(order[s]) \in Seq(Commands)
    BY <1>2, HeadTailProperties DEF ServerTypeInv, Holds
  <2>2. toPublish' = <<[topic |-> "response"]>> /\ [topic |-> "response"] \in Publications
    BY <1>2 DEF Respond, Publications
  <2>3. toPublish' \in Seq(Publications)
    BY <2>2
  <2>4. /\ order' \in [Sessions -> Seq(Commands)]
        /\ call' \in [Commands -> {"unsent", "ignored", "queued", "calling", "done"}]
    BY <1>2, <2>1 DEF Respond, ServerTypeInv
  <2> QED BY <1>1, <2>3, <2>4 DEF ServerTypeInv, SendCall, Answer, Timeout
<1>3. CASE call' = [call EXCEPT ![k] = "calling"] /\ UNCHANGED <<order, toPublish>>
  <2>1. call' \in [Commands -> {"unsent", "ignored", "queued", "calling", "done"}]
    BY <1>3 DEF ServerTypeInv
  <2> QED BY <1>1, <1>3, <2>1 DEF ServerTypeInv, SendCall, Answer, Timeout
<1> QED BY <1>1, <1>2, <1>3 DEF SendCall, Answer, Timeout

LEMMA DispatchTypes ==
  ASSUME ServerTypeInv, NEW k \in Commands, Dispatch(k)
  PROVE  ServerTypeInv'
<1>1. To(k) \in ChargePoints
  BY OcppAssumption
<1>2. order' \in [Sessions -> Seq(Commands)]
  <2>1. CASE registry[To(k)] = NoSession
    BY <2>1 DEF Dispatch, ServerTypeInv
  <2>2. CASE registry[To(k)] # NoSession
    <3>1. registry[To(k)] \in Sessions
      BY <1>1, <2>2 DEF ServerTypeInv
    <3>2. Append(order[registry[To(k)]], k) \in Seq(Commands)
      BY <3>1, AppendProperties DEF ServerTypeInv
    <3> QED BY <2>2, <3>1, <3>2 DEF Dispatch, ServerTypeInv
  <2> QED BY <2>1, <2>2
<1>3. call' \in [Commands -> {"unsent", "ignored", "queued", "calling", "done"}]
  BY DEF Dispatch, ServerTypeInv
<1> QED BY <1>2, <1>3 DEF Dispatch, ServerTypeInv

(* A publication leaves the rest of the coroutine's to come.                *)
LEMMA TailTypes ==
  ASSUME ServerTypeInv, toPublish # <<>>, toPublish' = Tail(toPublish),
         UNCHANGED <<session, registry, running, order, call, overlapped>>
  PROVE  ServerTypeInv' /\ Head(toPublish) \in Publications
<1>1. Tail(toPublish) \in Seq(Publications) /\ Head(toPublish) \in Publications
  BY HeadTailProperties DEF ServerTypeInv
<1> QED BY <1>1 DEF ServerTypeInv

LEMMA RegisteredTypes ==
  /\ Registered \in SUBSET ChargePoints
  /\ Offline \in GatewayStates
  /\ \A C \in SUBSET ChargePoints : [connected |-> TRUE, consumers |-> C] \in GatewayStates
BY DEF Registered, Offline, GatewayStates

BridgeTypes ==
  /\ link \in BOOLEAN /\ lingering \in BOOLEAN /\ connected \in BOOLEAN
  /\ callback \in {"off", "none", "connack", "read", "send"}
  /\ mqttList \in SUBSET ChargePoints
  /\ reading \in BOOLEAN /\ serverList \in SUBSET ChargePoints
  /\ main \in {"running", "publish", "disconnect", "stopped"}
  /\ retained \in [ChargePoints -> StatusPayloads \cup {"nothing"}]
  /\ gateway \in GatewayStates
  /\ missed \in BOOLEAN /\ raced \in BOOLEAN /\ crossed \in BOOLEAN

LEMMA BridgeTypesAre == TypeInv <=> ServerTypeInv /\ BridgeTypes
BY DEF TypeInv, BridgeTypes

LEMMA NextServerTypes ==
  ASSUME ServerTypeInv, MessagesInv, [Next]_vars
  PROVE  ServerTypeInv'
<1>1. CASE ServerStep
  BY <1>1, ServerActionTypes, CallTypes DEF ServerStep, Served
<1>2. CASE Publish
  <2>1. CASE ReadConsumers
    BY <2>1 DEF ReadConsumers, serverVars, ServerTypeInv
  <2>2. CASE PublishCpStatus \/ PublishGateway \/ PublishResponse
    <3>1. toPublish # <<>>
      BY <2>2 DEF PublishCpStatus, PublishGateway, PublishResponse, MessagesInv
    <3> QED BY <2>2, <3>1, TailTypes DEF PublishCpStatus, PublishGateway, PublishResponse
  <2> QED BY <1>2, <2>1, <2>2 DEF Publish
<1>3. ASSUME NEW k \in Commands, OnMessage(k) PROVE ServerTypeInv'
  BY <1>3, DispatchTypes DEF OnMessage
<1>4. CASE StopServer
  BY <1>4 DEF StopServer, StopLoop, ServerTypeInv
<1>5. CASE UNCHANGED serverVars
  BY <1>5 DEF serverVars, ServerTypeInv
<1> QED BY <1>1, <1>2, <1>3, <1>4, <1>5
        DEF Next, LinkDown, NoticeLoss, PahoStep, OnDisconnect, LinkUp, OnConnect, OnConnectRead,
            OnConnectSend, MainStep, StopPublish, StopDisconnect, vars

LEMMA NextBridgeTypes ==
  ASSUME ServerTypeInv, BridgeTypes, [Next]_vars
  PROVE  BridgeTypes'
<1>1. CASE ServerStep
  <2>1. UNCHANGED <<mqttVars, loopVars, main, brokerVars, missed, crossed>> /\ Watch
    BY <1>1 DEF ServerStep, Served
  <2>2. raced' \in BOOLEAN
    BY <2>1 DEF Watch
  <2> QED BY <2>1, <2>2 DEF BridgeTypes, mqttVars, loopVars, brokerVars
<1>2. CASE PublishCpStatus
  <2>1. toPublish # <<>> /\ Head(toPublish).topic = "status"
    BY <1>2 DEF PublishCpStatus
  <2>2. Head(toPublish) \in Publications
    BY <2>1, HeadTailProperties DEF ServerTypeInv
  <2>3. Head(toPublish).payload \in StatusPayloads
    BY <2>1, <2>2, MessageTypes
  <2>4. retained' \in [ChargePoints -> StatusPayloads \cup {"nothing"}]
    BY <1>2, <2>3 DEF PublishCpStatus, BridgeTypes
  <2>5. missed' \in BOOLEAN
    BY <1>2 DEF PublishCpStatus
  <2> QED BY <1>2, <2>4, <2>5 DEF PublishCpStatus, BridgeTypes, mqttVars, loopVars
<1>3. CASE PublishGateway
  <2>1. /\ missed' \in BOOLEAN /\ crossed' \in BOOLEAN
        /\ gateway' \in GatewayStates /\ {} \in SUBSET ChargePoints
    BY <1>3, RegisteredTypes DEF PublishGateway, Supersedes, BridgeTypes
  <2> QED BY <1>3, <2>1 DEF PublishGateway, BridgeTypes, mqttVars
<1>4. CASE ReadConsumers \/ PublishResponse
  BY <1>4, RegisteredTypes DEF ReadConsumers, PublishResponse, BridgeTypes, mqttVars, loopVars,
                               brokerVars, historyVars
<1>5. CASE LinkDown \/ NoticeLoss \/ LinkUp
  <2>1. crossed' \in BOOLEAN /\ lingering' \in BOOLEAN /\ gateway' \in GatewayStates
    BY <1>5, RegisteredTypes DEF LinkDown, NoticeLoss, LinkUp, Supersedes, BridgeTypes
  <2> QED BY <1>5, <2>1 DEF LinkDown, NoticeLoss, LinkUp, BridgeTypes, loopVars
<1>6. CASE OnDisconnect \/ OnConnect \/ OnConnectRead
  BY <1>6, RegisteredTypes DEF OnDisconnect, OnConnect, OnConnectRead, BridgeTypes,
                               loopVars, brokerVars, historyVars
<1>7. CASE OnConnectSend
  <2>1. crossed' \in BOOLEAN /\ gateway' \in GatewayStates /\ {} \in SUBSET ChargePoints
    BY <1>7, RegisteredTypes DEF OnConnectSend, BridgeTypes
  <2> QED BY <1>7, <2>1 DEF OnConnectSend, BridgeTypes, loopVars
<1>8. ASSUME NEW k \in Commands, OnMessage(k) PROVE BridgeTypes'
  BY <1>8 DEF OnMessage, BridgeTypes, mqttVars, loopVars, brokerVars, historyVars
<1>9. CASE MainStep
  <2>1. crossed' \in BOOLEAN
    BY <1>9 DEF MainStep, StopServer, StopPublish, StopDisconnect, Supersedes, BridgeTypes,
                historyVars
  <2> QED BY <1>9, <2>1, RegisteredTypes
          DEF MainStep, StopServer, StopPublish, StopDisconnect, LastStatus, BridgeTypes,
              mqttVars, loopVars, brokerVars, historyVars
<1>10. CASE UNCHANGED vars
  BY <1>10 DEF vars, mqttVars, loopVars, brokerVars, historyVars, BridgeTypes
<1> QED BY <1>1, <1>2, <1>3, <1>4, <1>5, <1>6, <1>7, <1>8, <1>9, <1>10
        DEF Next, Publish, PahoStep

LEMMA InitBridgeTypes == Init => TypeInv
<1> SUFFICES ASSUME Init PROVE TypeInv
  OBVIOUS
<1>1. ServerTypeInv
  <2>1. <<>> \in Seq(Publications) /\ <<>> \in Seq(Commands)
    OBVIOUS
  <2>2. [s \in Sessions |-> <<>>] \in [Sessions -> Seq(Commands)]
    BY <2>1
  <2> QED BY <2>1, <2>2 DEF Init, ServerInit, ServerTypeInv
<1>2. BridgeTypes
  BY RegisteredTypes DEF Init, BrokerInit, BridgeTypes
<1> QED BY <1>1, <1>2, BridgeTypesAre

LEMMA InitMessages == Init => MessagesInv
BY DEF Init, ServerInit, MessagesInv

(* What the bridge, the MQTT client and the broker hold is of its type, for *)
(* any charge points, connections and commands.                             *)
THEOREM TypeCorrect == Spec => []TypeInv
<1>1. TypeInv /\ MessagesInv /\ [Next]_vars => TypeInv' /\ MessagesInv'
  BY NextServerTypes, NextBridgeTypes, NextMessages DEF TypeInv, BridgeTypes
<1> QED BY <1>1, InitBridgeTypes, InitMessages, PTL DEF Spec

-----------------------------------------------------------------------------
(* What becomes of the list of registered charge points on its way to the   *)
(* broker: the event loop sends the one that is current; so does paho's     *)
(* thread, unless the registry changed under it; and what was lost with a   *)
(* connection is made good by the next _on_connect.                         *)
CurrentGateway == [connected |-> TRUE, consumers |-> Registered]

GatewayIInv ==
  /\ reading => serverList = Registered
  /\ ~raced =>
       /\ callback = "send" => mqttList = Registered
       /\ Arrives /\ callback = "none" /\ main = "running" /\ ~GatewayPending
            => gateway = CurrentGateway

(* The broker ends a lingering connection before it accepts a new one.      *)
OnceLost == lingering => ~link

LEMMA NextOnceLost == OnceLost /\ [Next]_vars => OnceLost'
BY DEF Next, ServerStep, Served, Publish, PublishCpStatus, ReadConsumers, PublishGateway,
       PublishResponse, LinkDown, NoticeLoss, PahoStep, OnDisconnect, LinkUp, OnConnect,
       OnConnectRead, OnConnectSend, OnMessage, MainStep, StopServer, StopPublish,
       StopDisconnect, OnceLost, vars, mqttVars

LEMMA RegisteredKept ==
  UNCHANGED registry => Registered' = Registered /\ CurrentGateway' = CurrentGateway
BY DEF Registered, CurrentGateway

LEMMA PendingKept ==
  UNCHANGED toPublish => (GatewayPending' <=> GatewayPending)
BY DEF GatewayPending, StatusPending, GatewayMessage, StatusMessage

LEMMA NothingPending == toPublish = <<>> => ~GatewayPending
BY DEF GatewayPending, StatusPending

LEMMA NextGateway ==
  ASSUME MessagesInv, OnceLost, GatewayIInv, [Next]_vars
  PROVE  GatewayIInv'
<1>1. CASE ServerStep
  <2>1. UNCHANGED <<link, connected, callback, mqttList, reading, serverList, main, gateway>>
        /\ Watch
    BY <1>1 DEF ServerStep, Served, mqttVars, loopVars, brokerVars
  <2>2. ~raced' => ~raced /\ (callback = "send" => UNCHANGED registry)
    BY <2>1 DEF Watch
  <2>3. Free => ~reading /\ ~GatewayPending
    BY NothingPending DEF Free, MessagesInv
  <2>4. CASE Free /\ StatusPending'
    <3>1. GatewayPending' /\ ~(reading')
      BY <2>1, <2>3, <2>4 DEF GatewayPending
    <3> QED BY <2>1, <2>2, <3>1, RegisteredKept DEF GatewayIInv
  <2>5. CASE Free /\ ResponsePending' /\ UNCHANGED registry
    BY <2>1, <2>2, <2>3, <2>5, RegisteredKept DEF GatewayIInv, Arrives
  <2>6. CASE UNCHANGED <<toPublish, registry>>
    BY <2>1, <2>2, <2>6, RegisteredKept, PendingKept DEF GatewayIInv, Arrives
  <2> QED BY <1>1, <2>4, <2>5, <2>6, ServerPublishes
<1>2. CASE ~ServerStep /\ [Next]_vars
  <2>0. UNCHANGED registry /\ raced' = raced
    BY <1>2 DEF Next, Publish, PublishCpStatus, ReadConsumers, PublishGateway, PublishResponse,
                LinkDown, NoticeLoss, PahoStep, OnDisconnect, LinkUp, OnConnect, OnConnectRead,
                OnConnectSend, OnMessage, Dispatch, MainStep, StopServer, StopLoop,
                StopPublish, StopDisconnect, vars, serverVars, historyVars
  <2>r. Registered' = Registered /\ CurrentGateway' = CurrentGateway
    BY <2>0, RegisteredKept
  <2>1. CASE PublishCpStatus
    <3>1. toPublish' = <<GatewayMessage>> /\ UNCHANGED <<callback, mqttList, reading, serverList>>
      BY <2>1, FirstMessage DEF PublishCpStatus, loopVars, mqttVars
    <3>2. GatewayPending'
      BY <3>1 DEF GatewayPending, GatewayMessage
    <3> QED BY <2>0, <2>r, <3>1, <3>2 DEF GatewayIInv
  <2>2. CASE ReadConsumers
    BY <2>0, <2>2, <2>r, PendingKept
       DEF ReadConsumers, GatewayIInv, Arrives, mqttVars, serverVars, brokerVars
  <2>3. CASE PublishGateway
    <3>1. UNCHANGED <<link, connected, callback, mqttList>> /\ ~(reading')
      BY <2>3 DEF PublishGateway, mqttVars
    <3>2. serverList = Registered
      BY <2>3 DEF PublishGateway, GatewayIInv
    <3>3. Arrives => gateway' = CurrentGateway
      BY <2>3, <3>2 DEF PublishGateway, CurrentGateway
    <3> QED BY <2>0, <2>r, <3>1, <3>3 DEF GatewayIInv, Arrives
  <2>4. CASE PublishResponse
    <3>1. ~GatewayPending
      BY <2>4, FirstMessage DEF PublishResponse, GatewayMessage
    <3> QED BY <2>0, <2>4, <2>r, <3>1
            DEF PublishResponse, GatewayIInv, Arrives, mqttVars, loopVars, brokerVars
  <2>5. CASE LinkDown \/ OnDisconnect
    <3>1. UNCHANGED <<callback, mqttList, reading, serverList>> /\ ~(Arrives')
      BY <2>5 DEF LinkDown, OnDisconnect, Arrives, loopVars
    <3> QED BY <2>0, <2>r, <3>1 DEF GatewayIInv
  <2>l. CASE NoticeLoss
    BY <2>0, <2>l, <2>r DEF NoticeLoss, GatewayIInv, Arrives, loopVars, OnceLost
  <2>6. CASE LinkUp \/ OnConnect \/ OnConnectRead
    BY <2>0, <2>6, <2>r DEF LinkUp, OnConnect, OnConnectRead, GatewayIInv, loopVars
  <2>7. CASE OnConnectSend
    <3>1. /\ callback = "send" /\ callback' = "none"
          /\ UNCHANGED <<link, connected, reading, serverList>>
          /\ gateway' = IF Arrives THEN [connected |-> TRUE, consumers |-> mqttList] ELSE gateway
      BY <2>7 DEF OnConnectSend, loopVars
    <3>2. ~raced /\ Arrives => gateway' = CurrentGateway
      BY <3>1 DEF GatewayIInv, CurrentGateway
    <3> QED BY <2>0, <2>r, <3>1, <3>2 DEF GatewayIInv, Arrives
  <2>8. ASSUME NEW k \in Commands, OnMessage(k) PROVE GatewayIInv'
    BY <2>0, <2>8, <2>r, PendingKept
       DEF OnMessage, Dispatch, GatewayIInv, Arrives, mqttVars, loopVars, brokerVars
  <2>9. CASE MainStep
    BY <2>0, <2>9, <2>r DEF MainStep, StopServer, StopPublish, StopDisconnect, GatewayIInv,
                            mqttVars, loopVars
  <2>10. CASE UNCHANGED vars
    BY <2>0, <2>10, <2>r, PendingKept
       DEF vars, serverVars, mqttVars, loopVars, brokerVars, GatewayIInv, Arrives
  <2> QED BY <1>2, <2>1, <2>2, <2>3, <2>4, <2>5, <2>l, <2>6, <2>7, <2>8, <2>9, <2>10
          DEF Next, Publish, PahoStep
<1> QED BY <1>1, <1>2

(* Once settled, the retained gateway status lists the connected charge     *)
(* points (mqtt_client.py:160), whatever an outage of the broker lost,      *)
(* unless one came or went while _on_connect was publishing its list.       *)
THEOREM GatewayStaysCurrent == Spec => []GatewayIsCurrent
<1>1. Init => MessagesInv /\ OnceLost /\ GatewayIInv
  BY InitMessages DEF Init, OnceLost, GatewayIInv, Arrives
<1>2. MessagesInv /\ OnceLost /\ GatewayIInv /\ [Next]_vars
        => MessagesInv' /\ OnceLost' /\ GatewayIInv'
  BY NextMessages, NextOnceLost, NextGateway
<1>3. GatewayIInv => GatewayIsCurrent
  BY NothingPending DEF GatewayIInv, GatewayIsCurrent, Settled, Free, CurrentGateway
<1> QED BY <1>1, <1>2, <1>3, PTL DEF Spec

-----------------------------------------------------------------------------
(* The latest status of a charge point, on its way or retained, agrees with *)
(* the registry once this run has seen it, until a publication is dropped   *)
(* or a charge point returns too early.                                     *)
Latest(p) ==
  IF StatusPending /\ Head(toPublish).cp = p THEN Head(toPublish).payload ELSE retained[p]

Agrees(p) ==
  IF registry[p] # NoSession THEN Latest(p) \in {"available", "notified"}
  ELSE Seen(p) => Latest(p) = "unavailable"

StatusIInv == ~missed /\ ~overlapped => \A p \in ChargePoints : Agrees(p)

LEMMA NotPending == \A p : ~StatusPending => Latest(p) = retained[p]
BY DEF Latest

LEMMA PendingStatus ==
  ASSUME NEW c \in ChargePoints, NEW payload \in StatusPayloads, PublishStatus(c, payload),
         UNCHANGED retained, ~StatusPending
  PROVE  /\ Latest(c)' = payload
         /\ \A p : p # c => Latest(p)' = Latest(p)
<1>1. toPublish' = <<StatusMessage(c, payload), GatewayMessage>>
  BY DEF PublishStatus, StatusMessage, GatewayMessage
<1>2. StatusPending'
  BY <1>1 DEF StatusPending, StatusMessage, GatewayMessage
<1>3. Head(toPublish').cp = c /\ Head(toPublish').payload = payload
  BY <1>1 DEF StatusMessage
<1> QED BY <1>2, <1>3, NotPending DEF Latest

(* A charge point is seen with its first connection. *)
LEMMA SeenBefore ==
  ASSUME RegistryTypes, NEW s \in Sessions, NEW stage,
         session' = [session EXCEPT ![s] = stage],
         NEW p, p # Of(s) \/ session[s] # "unused"
  PROVE  Seen(p)' => Seen(p)
BY DEF Seen, RegistryTypes

LEMMA SeenKept == UNCHANGED session => \A p : Seen(p)' => Seen(p)
BY DEF Seen

(* Each of the server's three publications says what the registry says.     *)
LEMMA ServerAgrees ==
  ASSUME TypeInv, RegistryIInv, StatusIInv, ~missed, ~StatusPending, UNCHANGED retained,
         NEW s \in Sessions, Connect(s) \/ Cleanup(s) \/ StatusNotification(s), ~overlapped',
         NEW p \in ChargePoints
  PROVE  Agrees(p)'
<1>ty. /\ registry \in [ChargePoints -> Sessions \cup {NoSession}]
       /\ Of(s) \in ChargePoints /\ s # NoSession
       /\ "available" \in StatusPayloads /\ "unavailable" \in StatusPayloads
       /\ "notified" \in StatusPayloads
  BY OcppAssumption DEF TypeInv, ServerTypeInv, StatusPayloads
<1>1. ~overlapped
  BY DEF Connect, Cleanup, StatusNotification
<1>2. Agrees(p)
  BY <1>1 DEF StatusIInv
<1>3. ASSUME NEW payload \in StatusPayloads, PublishStatus(Of(s), payload),
             registry'[p] = registry[p], p # Of(s), Seen(p)' => Seen(p)
      PROVE  Agrees(p)'
  <2>1. Latest(p)' = Latest(p)
    BY <1>ty, <1>3, PendingStatus
  <2> QED BY <1>2, <1>3, <2>1 DEF Agrees
<1>4. CASE Connect(s)
  <2>1. registry' = [registry EXCEPT ![Of(s)] = s] /\ PublishStatus(Of(s), "available")
        /\ session' = [session EXCEPT ![s] = "open"]
    BY <1>4 DEF Connect, Register
  <2>2. CASE p = Of(s)
    <3>1. Latest(p)' = "available" /\ registry'[p] # NoSession
      BY <1>ty, <2>1, <2>2, PendingStatus
    <3> QED BY <3>1 DEF Agrees
  <2>3. CASE p # Of(s)
    <3>1. Seen(p)' => Seen(p)
      BY <2>1, <2>3, SeenBefore DEF RegistryIInv
    <3> QED BY <1>ty, <1>3, <2>1, <2>3, <3>1
  <2> QED BY <2>2, <2>3
<1>5. CASE Cleanup(s)
  <2>1. registry' = [registry EXCEPT ![Of(s)] = NoSession] /\ PublishStatus(Of(s), "unavailable")
        /\ session' = [session EXCEPT ![s] = "gone"]
    BY <1>5 DEF Cleanup, Unregister
  <2>2. CASE p = Of(s)
    <3>1. Latest(p)' = "unavailable" /\ registry'[p] = NoSession
      BY <1>ty, <2>1, <2>2, PendingStatus
    <3> QED BY <3>1 DEF Agrees
  <2>3. CASE p # Of(s)
    <3>1. Seen(p)' => Seen(p)
      BY <2>1, <2>3, SeenBefore DEF RegistryIInv
    <3> QED BY <1>ty, <1>3, <2>1, <2>3, <3>1
  <2> QED BY <2>2, <2>3
<1>6. CASE StatusNotification(s)
  <2>1. registry' = registry /\ PublishStatus(Of(s), "notified") /\ session[s] \in Kept
        /\ session' = session
    BY <1>6 DEF StatusNotification, Kept
  <2>2. CASE p = Of(s)
    <3>1. registry[p] = s
      BY <1>1, <2>1, <2>2 DEF RegistryIInv, KeptAreRegistered
    <3>2. Latest(p)' = "notified" /\ registry'[p] # NoSession
      BY <1>ty, <2>1, <2>2, <3>1, PendingStatus
    <3> QED BY <3>2 DEF Agrees
  <2>3. CASE p # Of(s)
    <3>1. Seen(p)' => Seen(p)
      BY <2>1, SeenKept
    <3> QED BY <1>ty, <1>3, <2>1, <2>3, <3>1
  <2> QED BY <2>2, <2>3
<1> QED BY <1>4, <1>5, <1>6

(* All else leaves it agreeing.                                             *)
LEMMA LatestKept ==
  ASSUME UNCHANGED <<registry, overlapped, missed>>,
         \A p \in ChargePoints : Latest(p)' = Latest(p) /\ (Seen(p)' => Seen(p)),
         StatusIInv
  PROVE  StatusIInv'
BY DEF StatusIInv, Agrees

LEMMA SameLatest ==
  ASSUME UNCHANGED <<toPublish, retained>>
  PROVE  \A p \in ChargePoints : Latest(p)' = Latest(p)
<1>1. StatusPending' <=> StatusPending
  BY DEF StatusPending, StatusMessage, GatewayMessage
<1> QED BY <1>1 DEF Latest

LEMMA NextStatus ==
  ASSUME TypeInv, MessagesInv, RegistryIInv, StatusIInv, [Next]_vars
  PROVE  StatusIInv'
<1>1. CASE ServerStep
  <2>1. UNCHANGED <<retained, missed>>
    BY <1>1 DEF ServerStep, Served, brokerVars
  <2>2. Free => ~StatusPending
    BY NothingPending DEF Free, GatewayPending
  <2>3. ASSUME NEW s \in Sessions, Connect(s) \/ Cleanup(s) \/ StatusNotification(s)
        PROVE  StatusIInv'
    <3>1. Free
      BY <2>3 DEF Connect, Cleanup, StatusNotification
    <3> QED BY <2>1, <2>2, <2>3, <3>1, ServerAgrees DEF StatusIInv
  <2>4. ASSUME NEW s \in Sessions, Break(s) PROVE StatusIInv'
    <3>1. UNCHANGED <<toPublish, registry, overlapped>>
          /\ session' = [session EXCEPT ![s] = "broken"] /\ session[s] # "unused"
      BY <2>4 DEF Break
    <3>2. \A p \in ChargePoints : Seen(p)' => Seen(p)
      BY <3>1, SeenBefore DEF RegistryIInv
    <3> QED BY <2>1, <3>1, <3>2, SameLatest, LatestKept
  <2>5. ASSUME NEW s \in Sessions, NEW k \in Commands,
               SendCall(s, k) \/ Answer(s, k) \/ Timeout(s, k)
        PROVE  StatusIInv'
    <3>1. UNCHANGED <<session, registry, overlapped>>
      BY <2>5 DEF SendCall, Answer, Timeout
    <3>2. (Free /\ ResponsePending') \/ UNCHANGED toPublish
      BY <2>5 DEF SendCall, Answer, Timeout, Respond, ResponsePending
    <3>3. ResponsePending' => ~(StatusPending')
      BY DEF ResponsePending, StatusPending
    <3>4. Free /\ ResponsePending' => \A p \in ChargePoints : Latest(p)' = Latest(p)
      BY <2>1, <2>2, <3>3 DEF Latest
    <3> QED BY <2>1, <3>1, <3>2, <3>4, SameLatest, LatestKept, SeenKept
  <2> QED BY <1>1, <2>3, <2>4, <2>5 DEF ServerStep, Served, Calls
<1>2. CASE PublishCpStatus
  <2>1. /\ StatusPending /\ toPublish' = <<GatewayMessage>>
        /\ Head(toPublish).cp \in ChargePoints
        /\ UNCHANGED <<session, registry, overlapped>>
    BY <1>2, FirstMessage DEF PublishCpStatus
  <2>2. ~(StatusPending')
    BY <2>1 DEF StatusPending
  <2>3. ~missed' => ~missed /\ Arrives
    BY <1>2 DEF PublishCpStatus
  <2>4. Arrives => retained' = [retained EXCEPT ![Head(toPublish).cp] = Head(toPublish).payload]
    BY <1>2 DEF PublishCpStatus
  <2>5. DOMAIN retained = ChargePoints
    BY DEF TypeInv
  <2>6. ASSUME Arrives, NEW p \in ChargePoints PROVE Latest(p)' = Latest(p)
    BY <2>1, <2>2, <2>4, <2>5, <2>6 DEF Latest
  <2> QED BY <2>1, <2>3, <2>6, SeenKept DEF StatusIInv, Agrees
<1>3. CASE PublishGateway \/ PublishResponse
  <2>1. ~StatusPending /\ toPublish' = <<>> /\ UNCHANGED <<session, registry, overlapped, retained>>
    <3>1. CASE PublishGateway
      <4>1. toPublish = <<GatewayMessage>> /\ toPublish # <<>>
        BY <3>1 DEF PublishGateway, MessagesInv
      <4> QED BY <3>1, <4>1, FirstMessage DEF PublishGateway, GatewayMessage, ResponsePending
    <3>2. CASE PublishResponse
      BY <3>2, FirstMessage DEF PublishResponse, brokerVars, GatewayPending
    <3> QED BY <1>3, <3>1, <3>2
  <2>2. ~(StatusPending')
    BY <2>1 DEF StatusPending
  <2>3. \A p \in ChargePoints : Latest(p)' = Latest(p)
    BY <2>1, <2>2 DEF Latest
  <2>4. ~missed' => ~missed
    BY <1>3 DEF PublishGateway, PublishResponse, historyVars
  <2> QED BY <2>1, <2>3, <2>4, SeenKept DEF StatusIInv, Agrees
<1>4. CASE UNCHANGED <<toPublish, retained, session, registry, overlapped, missed>>
  BY <1>4, SameLatest, LatestKept, SeenKept
<1> QED BY <1>1, <1>2, <1>3, <1>4
        DEF Next, Publish, ReadConsumers, LinkDown, NoticeLoss, PahoStep, OnDisconnect, LinkUp, OnConnect,
            OnConnectRead, OnConnectSend, OnMessage, Dispatch, MainStep, StopServer, StopLoop,
            StopPublish, StopDisconnect, vars, serverVars, brokerVars, historyVars

(* Once settled, what the broker retains for a charge point is its latest   *)
(* state (config.py:32), whatever an earlier run of the bridge left there:  *)
(* available or notified while it has a working connection, unavailable     *)
(* when it has lost the one it had in this run; unless a publication fell   *)
(* into an outage or a charge point returned before its loss was noticed.   *)
THEOREM StatusStaysCurrent == Spec => []StatusIsCurrent
<1> DEFINE J == TypeInv /\ MessagesInv /\ RegistryIInv /\ StatusIInv
<1>1. Init => J
  <2> SUFFICES ASSUME Init PROVE StatusIInv
    BY InitBridgeTypes, InitMessages, InitRegistryIInv
  <2>1. \A p \in ChargePoints : registry[p] = NoSession /\ ~Seen(p)
    BY DEF Init, ServerInit, Seen
  <2> QED BY <2>1 DEF StatusIInv, Agrees
<1>2. J /\ [Next]_vars => J'
  <2>1. TypeInv /\ MessagesInv /\ [Next]_vars => TypeInv'
    BY NextServerTypes, NextBridgeTypes, BridgeTypesAre DEF TypeInv, BridgeTypes
  <2> QED BY <2>1, NextMessages, NextRegistryIInv, NextStatus
<1>3. J => StatusIsCurrent
  <2> SUFFICES ASSUME J, Settled, ~missed, ~overlapped, NEW p \in ChargePoints
               PROVE  IF Online(p) THEN retained[p] \in {"available", "notified"}
                      ELSE Seen(p) => retained[p] = "unavailable"
    BY DEF StatusIsCurrent
  <2>1. ~StatusPending /\ Agrees(p)
    BY NothingPending DEF Settled, Free, GatewayPending, StatusIInv
  <2>2. IF Online(p) THEN registry[p] # NoSession ELSE registry[p] = NoSession
    BY RegistryIInvSuffices DEF RegistryIsCurrentUnlessOverlapped, RegistryIsCurrent
  <2> QED BY <2>1, <2>2, NotPending DEF Agrees
<1> QED BY <1>1, <1>2, <1>3, PTL DEF Spec
=============================================================================
