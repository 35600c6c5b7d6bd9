----------------------------- MODULE ShedderMqtt -----------------------------
(***************************************************************************)
(* Class MQTTClient (shedder/integration/mqtt.py), paho's thread that runs *)
(* its callbacks, and the broker.                                          *)
(*                                                                         *)
(* The client gives paho no client id, so that to the broker every         *)
(* connection is a new client's: it learns of the loss of an old one, and  *)
(* publishes its last will, at any time, perhaps after the birth message   *)
(* of the next.  Sessions are clean: subscriptions go with the connection. *)
(***************************************************************************)
EXTENDS Integers, FiniteSets

CONSTANTS Topics,     \* what the client subscribes to (set_input)
          MaxGhosts   \* bound on the losses the broker has not noticed

ASSUME MqttAssumption == MaxGhosts \in Nat

VARIABLES
  paho,       \* paho's network thread runs
  link,       \* there is a connection
  ghosts,     \* lost connections whose loss the broker has not noticed
  connected,  \* self.connected, which is never reset
  callback,   \* where paho's thread is in on_connect
  subscribed, \* the broker's subscriptions for the connection
  alive,      \* the retained $connected
  outlived    \* history: a last will came after the birth that followed

mqttVars == <<paho, link, ghosts, connected, callback, subscribed, alive, outlived>>

MqttTypeInv ==
  /\ paho \in BOOLEAN /\ link \in BOOLEAN /\ connected \in BOOLEAN
  /\ ghosts \in 0..MaxGhosts
  /\ callback \in {"none", "connack", "subscribe"}
  /\ subscribed \subseteq Topics
  /\ alive \in {"nothing", "True", "False"}
  /\ outlived \in BOOLEAN

MqttInit ==
  /\ paho = FALSE /\ link = FALSE /\ ghosts = 0
  /\ connected = FALSE /\ callback = "none"
  /\ subscribed = {} /\ alive = "nothing" /\ outlived = FALSE

-----------------------------------------------------------------------------
(* start: connect, and loop_start. *)
MqttStart ==
  /\ paho' = TRUE /\ link' = TRUE /\ callback' = "connack"
  /\ connected' = FALSE
  /\ UNCHANGED <<ghosts, subscribed, alive, outlived>>

(* A connection ends; the broker notices at once or later. *)
(* Mutant: no last will is set. *)
NoWill == alive

Will == "False"

LoseLink ==
  /\ link' = FALSE /\ subscribed' = {}
  /\ \/ ~link /\ UNCHANGED <<ghosts, alive>>
     \/ link /\ alive' = Will /\ UNCHANGED ghosts
     \/ link /\ ghosts < MaxGhosts /\ ghosts' = ghosts + 1 /\ UNCHANGED alive

LinkDown ==
  /\ link /\ LoseLink
  /\ UNCHANGED <<paho, connected, callback, outlived>>

NoticeLoss ==
  /\ ghosts > 0
  /\ ghosts' = ghosts - 1 /\ alive' = Will
  /\ outlived' = (outlived \/ (link /\ callback # "connack"))
  /\ UNCHANGED <<paho, link, connected, callback, subscribed>>

(* paho connects again by itself. *)
LinkUp ==
  /\ paho /\ ~link /\ callback = "none"
  /\ link' = TRUE /\ callback' = "connack"
  /\ UNCHANGED <<paho, ghosts, connected, subscribed, alive, outlived>>

(* Mutant: the client subscribes when it first connects, and never again. *)
SubscribeOnce == IF connected THEN "none" ELSE "subscribe"

AfterBirth == "subscribe"

(* on_connect: the flag and the birth message ... *)
OnConnect ==
  /\ paho /\ callback = "connack"
  /\ connected' = TRUE
  /\ alive' = IF link THEN "True" ELSE alive
  /\ outlived' = (outlived /\ ~link)
  /\ callback' = AfterBirth
  /\ UNCHANGED <<paho, link, ghosts, subscribed>>

(* ... and the subscriptions, one by one; a refused connection is dropped. *)
Subscribe ==
  /\ paho /\ callback = "subscribe"
  /\ IF link /\ subscribed # Topics
     THEN /\ \E t \in Topics \ subscribed : subscribed' = subscribed \cup {t}
          /\ UNCHANGED callback
     ELSE callback' = "none" /\ UNCHANGED subscribed
  /\ UNCHANGED <<paho, link, ghosts, connected, alive, outlived>>

(* on_message can be called with a message on the topic. *)
Hears(t) == paho /\ link /\ callback = "none" /\ t \in subscribed

(* An exception of input ends paho's thread; the connection stays for now. *)
PahoDies ==
  /\ paho' = FALSE
  /\ UNCHANGED <<link, ghosts, connected, callback, subscribed, alive, outlived>>

(* The process ends without disconnecting. *)
MqttEnds ==
  /\ LoseLink
  /\ paho' = FALSE /\ connected' = FALSE /\ callback' = "none"
  /\ UNCHANGED outlived
=============================================================================
