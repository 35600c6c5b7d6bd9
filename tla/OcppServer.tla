------------------------------ MODULE OcppServer ------------------------------
(***************************************************************************)
(* Class OcppServer (ocpp/ocpp_server.py) with its ChargePointHandlers     *)
(* (ocpp/ocpp_handler.py): the connections of charge points, the registry  *)
(* of handlers, and the commands sent to them.                             *)
(*                                                                         *)
(* One thread runs the server's event loop, so a step here is what a       *)
(* coroutine does between two awaits.  Its publications are part of that:  *)
(* no other coroutine runs before they are done.  They call into the MQTT  *)
(* client, so they are carried out step by step in OcppBridge, where the   *)
(* MQTT client's own thread may come between.                              *)
(*                                                                         *)
(* Boot, heartbeat, diagnostics and meter values change no state and       *)
(* publish transient events; they are left out.  Transactions, and what a  *)
(* command says, are in module Transactions.                               *)
(***************************************************************************)
EXTENDS Integers, Sequences, FiniteSets

CONSTANTS ChargePoints,
          Sessions,   \* the websocket connections that will ever be made
          Of(_),      \* whose connection it is
          NoSession,
          Commands,   \* the commands that will ever be received
          To(_)       \* the charge point a command is for

ASSUME OcppAssumption ==
  /\ \A s \in Sessions : Of(s) \in ChargePoints
  /\ \A k \in Commands : To(k) \in ChargePoints
  /\ NoSession \notin Sessions

VARIABLES
  session,    \* per connection: how far it is
  registry,   \* _charge_points
  toPublish,  \* what the running coroutine has still to publish
  running,    \* the event loop runs
  order,      \* per handler: commands waiting for, or holding, its call lock
  call,       \* per command: how far it is
  overlapped  \* history: a charge point returned before its loss was noticed

serverVars == <<session, registry, toPublish, running, order, call, overlapped>>

(* available, unavailable: from _on_connect; notified: a StatusNotification. *)
StatusPayloads == {"available", "notified", "unavailable"}

Publications ==
  [topic : {"status"}, cp : ChargePoints, payload : StatusPayloads]
    \cup [topic : {"gateway"}]
    \cup [topic : {"response"}]

ServerTypeInv ==
  /\ session \in [Sessions -> {"unused", "open", "broken", "gone"}]
  /\ registry \in [ChargePoints -> Sessions \cup {NoSession}]
  /\ toPublish \in Seq(Publications)
  /\ running \in BOOLEAN
  /\ order \in [Sessions -> Seq(Commands)]
  /\ call \in [Commands -> {"unsent", "ignored", "queued", "calling", "done"}]
  /\ overlapped \in BOOLEAN

ServerInit ==
  /\ session = [s \in Sessions |-> "unused"]
  /\ registry = [p \in ChargePoints |-> NoSession]
  /\ toPublish = <<>>
  /\ running = TRUE
  /\ order = [s \in Sessions |-> <<>>]
  /\ call = [k \in Commands |-> "unsent"]
  /\ overlapped = FALSE

-----------------------------------------------------------------------------
(* The event loop is free to run a coroutine. *)
Free == running /\ toPublish = <<>>

(* on_ocpp_callback publishes the gateway's status after every status. *)
(* Mutants: one of the two publications is forgotten. *)
PublishNoStatus(p, payload) == toPublish' = <<[topic |-> "gateway"]>>
PublishNoGateway(p, payload) ==
  toPublish' = <<[topic |-> "status", cp |-> p, payload |-> payload]>>

PublishStatus(p, payload) ==
  toPublish' = <<[topic |-> "status", cp |-> p, payload |-> payload], [topic |-> "gateway"]>>

(* Mutants: the identifier is kept instead of the handler; nothing is       *)
(* removed.                                                                 *)
RegisterId(s) == [registry EXCEPT ![Of(s)] = Of(s)]
KeepRegistered(s) == registry

Register(s) == [registry EXCEPT ![Of(s)] = s]
Unregister(s) == [registry EXCEPT ![Of(s)] = NoSession]

(* _on_connect, up to cp.start(), of a connection with the right            *)
(* subprotocol: another is closed at once, and nothing has changed.  A      *)
(* charge point makes a new connection when it has lost the old one, which  *)
(* the server may not know yet.                                             *)
Connect(s) ==
  /\ Free /\ session[s] = "unused"
  /\ \A o \in Sessions : Of(o) = Of(s) => session[o] # "open"
  /\ overlapped' = (overlapped \/ \E o \in Sessions : Of(o) = Of(s) /\ session[o] = "broken")
  /\ session' = [session EXCEPT ![s] = "open"]
  /\ registry' = Register(s)
  /\ PublishStatus(Of(s), "available")
  /\ UNCHANGED <<running, order, call>>

(* The connection ends; the server does not know yet. *)
Break(s) ==
  /\ session[s] = "open"
  /\ session' = [session EXCEPT ![s] = "broken"]
  /\ UNCHANGED <<registry, toPublish, running, order, call, overlapped>>

(* cp.start() returns or raises: the finally block of _on_connect. *)
Cleanup(s) ==
  /\ Free /\ session[s] = "broken"
  /\ session' = [session EXCEPT ![s] = "gone"]
  /\ registry' = Unregister(s)
  /\ PublishStatus(Of(s), "unavailable")
  /\ UNCHANGED <<running, order, call, overlapped>>

(* on_status_notification, also of a message that came in before the        *)
(* connection ended.                                                        *)
StatusNotification(s) ==
  /\ Free /\ session[s] \in {"open", "broken"}
  /\ PublishStatus(Of(s), "notified")
  /\ UNCHANGED <<session, registry, running, order, call, overlapped>>

-----------------------------------------------------------------------------
(* dispatch_command, on the MQTT client's thread: the handler is looked up  *)
(* now, its coroutine runs later.  That tasks get the handler's call lock   *)
(* in the order in which they were scheduled is taken from the library: it  *)
(* must not await anything in front of that lock.                           *)
Dispatch(k) ==
  /\ call[k] = "unsent"
  /\ LET s == registry[To(k)]
     IN  IF s = NoSession
         THEN call' = [call EXCEPT ![k] = "ignored"] /\ UNCHANGED order
         ELSE /\ call' = [call EXCEPT ![k] = "queued"]
              /\ order' = [order EXCEPT ![s] = Append(@, k)]
  /\ UNCHANGED <<session, registry, toPublish, running, overlapped>>

(* Mutant: the call lock keeps nobody out. *)
WaitsOrHolds(s, k) == \E i \in DOMAIN order[s] : order[s][i] = k

Holds(s, k) == order[s] # <<>> /\ Head(order[s]) = k

(* The command's response is published and the lock is free. *)
Respond(s, k) ==
  /\ call' = [call EXCEPT ![k] = "done"]
  /\ order' = [order EXCEPT ![s] = Tail(@)]
  /\ toPublish' = <<[topic |-> "response"]>>

(* The call is sent; into a connection that has ended it may raise. *)
SendCall(s, k) ==
  /\ Free /\ Holds(s, k) /\ call[k] = "queued"
  /\ \/ session[s] \in {"broken", "gone"} /\ Respond(s, k)
     \/ /\ session[s] # "gone"
        /\ call' = [call EXCEPT ![k] = "calling"]
        /\ UNCHANGED <<order, toPublish>>
  /\ UNCHANGED <<session, registry, running, overlapped>>

(* The charge point answers, accepting the command or not. *)
Answer(s, k) ==
  /\ Free /\ Holds(s, k) /\ call[k] = "calling" /\ session[s] = "open"
  /\ Respond(s, k)
  /\ UNCHANGED <<session, registry, running, overlapped>>

(* No answer within the library's response timeout. *)
Timeout(s, k) ==
  /\ Free /\ Holds(s, k) /\ call[k] = "calling"
  /\ Respond(s, k)
  /\ UNCHANGED <<session, registry, running, overlapped>>

Calls == \E s \in Sessions, k \in Commands :
           SendCall(s, k) \/ Answer(s, k) \/ Timeout(s, k)

(* stop(): the loop stops where it stands; no finally block runs. *)
StopLoop ==
  /\ Free
  /\ running' = FALSE
  /\ UNCHANGED <<session, registry, toPublish, order, call, overlapped>>
=============================================================================
