------------------------- MODULE ShedderProcessProofs -------------------------
(***************************************************************************)
(* For any settings, any number of faults, messages and unnoticed losses:  *)
(* what the control file restores, what the broker retains of the client   *)
(* and what the client is subscribed to.                                   *)
(***************************************************************************)
EXTENDS ShedderProcess, TLAPS

(* A process that is not past its start has neither paho's thread nor a    *)
(* store under way.                                                        *)
Running == {"auth", "loop"}

StoredIInv ==
  /\ paho \in BOOLEAN
  /\ control = [k \in Keys |-> control[k]]
  /\ paho => phase \in Running
  /\ storing # "no" => phase \in Running
  /\ StoredIsCurrent

(* merge_dicts into settings that are complete changes nothing. *)
LEMMA MergeIntoAll ==
  ASSUME NEW c, c = [k \in Keys |-> c[k]], NEW d
  PROVE  Merge(c, d) = c
BY DEF Merge

LEMMA MergeIsFunction ==
  ASSUME NEW c, NEW d
  PROVE  Merge(c, d) = [k \in Keys |-> Merge(c, d)[k]]
BY DEF Merge

LEMMA InitStored == Init => StoredIInv
BY DEF Init, SettingsInit, MqttInit, StoredIInv, StoredIsCurrent, Defaults

LEMMA EndKeepsStored ==
  ASSUME StoredIInv, End
  PROVE  StoredIInv'
BY DEF End, AbandonStore, MqttEnds, StoredIInv, StoredIsCurrent

(* Steps that leave the settings and the phase alone. *)
LEMMA ElsewhereKeepsStored ==
  ASSUME StoredIInv, UNCHANGED <<settingsVars, phase>>, paho' = paho \/ paho' = FALSE
  PROVE  StoredIInv'
<1>1. UNCHANGED <<control, file, storing, unsaved, phase>>
  BY DEF settingsVars
<1>2. paho' \in BOOLEAN /\ (paho' => phase' \in Running)
  <2>1. paho \in BOOLEAN /\ (paho => phase' \in Running)
    BY <1>1 DEF StoredIInv
  <2>2. CASE paho' = paho
    BY <2>1, <2>2
  <2>3. CASE paho' = FALSE
    BY <2>3
  <2> QED BY <2>2, <2>3
<1>3. StoredIsCurrent'
  BY <1>1 DEF StoredIInv, StoredIsCurrent, Loadable, Loaded
<1> QED BY <1>1, <1>2, <1>3 DEF StoredIInv

LEMMA MainStepKeepsStored ==
  ASSUME StoredIInv, Supervise \/ MainStep
  PROVE  StoredIInv'
<1>1. CASE Supervise
  BY <1>1 DEF Supervise, StoredIInv, StoredIsCurrent, settingsVars, mqttVars, Running
<1>2. CASE LoadSettings
  <2>1. CASE Loadable(file)
    <3>1. /\ phase = "load" /\ phase' = "connect" /\ file' = file /\ storing' = storing
          /\ control' = Loaded(file) /\ paho' = paho
      BY <1>2, <2>1 DEF LoadSettings, StartWith, mqttVars
    <3>2. paho = FALSE /\ storing = "no"
      BY <3>1 DEF StoredIInv, Running
    <3>3. control' = [k \in Keys |-> control'[k]]
      BY <3>1, MergeIsFunction DEF Loaded
    <3> QED BY <2>1, <3>1, <3>2, <3>3 DEF StoredIInv, StoredIsCurrent, Loadable, Loaded
  <2>2. CASE ~Loadable(file)
    BY <1>2, <2>2, EndKeepsStored DEF LoadSettings
  <2> QED BY <2>1, <2>2
<1>3. CASE ConnectBroker
  BY <1>3 DEF ConnectBroker, MqttStart, StoredIInv, StoredIsCurrent, settingsVars,
              Running, Loadable, Loaded
<1>4. CASE Authenticate
  <2>1. CASE token = "valid"
    BY <1>4, <2>1 DEF Authenticate, StoredIInv, StoredIsCurrent, settingsVars, mqttVars,
                      Running, Loadable, Loaded
  <2>2. CASE token # "valid"
    BY <1>4, <2>2, EndKeepsStored DEF Authenticate
  <2> QED BY <2>1, <2>2
<1>5. CASE HealthCheck
  BY <1>5, ElsewhereKeepsStored DEF HealthCheck, mqttVars
<1>6. CASE LoopRaises
  BY <1>6, EndKeepsStored DEF LoopRaises
<1> QED BY <1>1, <1>2, <1>3, <1>4, <1>5, <1>6 DEF MainStep

(* paho's thread: an update is in force before it is stored, and only a    *)
(* store that is complete and has not failed counts.                       *)
LEMMA StoreKeepsStored ==
  ASSUME StoredIInv,
         (\E change \in Texts : ControlMessage(change)) \/ StoreStep \/ StoreFault
  PROVE  StoredIInv'
<1>1. ASSUME NEW change \in Texts, ControlMessage(change) PROVE StoredIInv'
  <2>1. /\ paho = TRUE /\ UNCHANGED <<mqttVars, phase>>
        /\ control' = Merge(change, control) /\ storing' = "open"
    BY <1>1 DEF ControlMessage, Hears, Update, StoredIInv
  <2>2. control' = [k \in Keys |-> control'[k]]
    BY <2>1, MergeIsFunction
  <2> QED BY <2>1, <2>2 DEF StoredIInv, StoredIsCurrent, mqttVars
<1>2. CASE StoreStep /\ StoreOpen
  BY <1>2 DEF StoreStep, StoreOpen, StoredIInv, StoredIsCurrent, mqttVars
<1>3. CASE StoreStep /\ StoreWrite
  <2>1. /\ UNCHANGED <<paho, phase, control>> /\ storing' = "no" /\ phase \in Running
        /\ file' = Holding(control)
    BY <1>3 DEF StoreStep, StoreWrite, mqttVars, StoredIInv
  <2>2. Loadable(file)' /\ Loaded(file)' = control'
    BY <2>1, MergeIntoAll DEF Loadable, Loaded, Holding, StoredIInv
  <2> QED BY <2>1, <2>2 DEF StoredIInv, StoredIsCurrent
<1>4. CASE StoreFault
  BY <1>4 DEF StoreFault, StoreFails, StoredIInv, StoredIsCurrent, mqttVars
<1> QED BY <1>1, <1>2, <1>3, <1>4 DEF StoreStep

LEMMA NextStored == StoredIInv /\ [Next]_vars => StoredIInv'
<1> SUFFICES ASSUME StoredIInv, [Next]_vars PROVE StoredIInv'
  OBVIOUS
<1>1. CASE PahoStep
  <2>1. UNCHANGED <<settingsVars, phase, paho>>
    BY <1>1 DEF PahoStep, LinkUp, OnConnect, Subscribe
  <2> QED BY <2>1, ElsewhereKeepsStored
<1>2. CASE Network
  <2>1. UNCHANGED <<settingsVars, phase, paho>>
    BY <1>2 DEF Network, LinkDown, NoticeLoss
  <2> QED BY <2>1, ElsewhereKeepsStored
<1>3. CASE BrokerUnreachable \/ ApiError \/ ExitWithLostPing \/ Kill
  BY <1>3, EndKeepsStored DEF BrokerUnreachable, ApiError, ExitWithLostPing, Kill
<1>4. CASE BadMessage
  BY <1>4, ElsewhereKeepsStored DEF BadMessage, PahoDies
<1>5. CASE HealthCheckApiError \/ TokenExpires \/ Reseed \/ PingOverdue \/ UNCHANGED vars
  <2>1. UNCHANGED <<settingsVars, phase, paho>>
    BY <1>5 DEF HealthCheckApiError, TokenExpires, Reseed, PingOverdue, vars, mqttVars
  <2> QED BY <2>1, ElsewhereKeepsStored
<1>6. CASE StartWithLostPing
  BY <1>6 DEF StartWithLostPing, StoredIInv, StoredIsCurrent, settingsVars, mqttVars,
              Running, Loadable, Loaded
<1> QED BY <1>1, <1>2, <1>3, <1>4, <1>5, <1>6, MainStepKeepsStored, StoreKeepsStored
        DEF Next, Faulty

(* The file restores the settings in force (shedder.py:107, :270) whenever  *)
(* no store is under way and the latest one has not failed, whatever was    *)
(* sent, lost, killed or restarted before.                                  *)
THEOREM FileIsCurrent == Spec => []StoredIsCurrent
<1>1. StoredIInv => StoredIsCurrent
  BY DEF StoredIInv
<1> QED BY <1>1, InitStored, NextStored, PTL DEF Spec

-----------------------------------------------------------------------------
(* What the process may do to its MQTT client. *)
MqttStep ==
  \/ MqttStart \/ LinkDown \/ MqttEnds \/ NoticeLoss
  \/ LinkUp \/ OnConnect \/ Subscribe \/ PahoDies

LEMMA ProcessStepIsMqttStep == [Next]_vars => MqttStep \/ UNCHANGED mqttVars
<1>1. MainStep \/ Supervise => MqttStep \/ UNCHANGED mqttVars
  BY DEF MqttStep, MainStep, Supervise, LoadSettings, ConnectBroker, Authenticate,
         HealthCheck, LoopRaises, End
<1>2. StoreStep \/ PahoStep \/ Network => MqttStep \/ UNCHANGED mqttVars
  BY DEF MqttStep, StoreStep, PahoStep, Network
<1>3. Faulty => MqttStep \/ UNCHANGED mqttVars
  BY DEF MqttStep, Faulty, BrokerUnreachable, ApiError, HealthCheckApiError,
         ExitWithLostPing, StartWithLostPing, Kill, StoreFault, BadMessage, TokenExpires, End
<1>4. ASSUME NEW change \in Texts, ControlMessage(change) PROVE UNCHANGED mqttVars
  BY <1>4 DEF ControlMessage
<1>5. Reseed \/ PingOverdue \/ UNCHANGED vars => UNCHANGED mqttVars
  BY DEF Reseed, PingOverdue, vars
<1> QED BY <1>1, <1>2, <1>3, <1>4, <1>5 DEF Next

(* Every connection goes through on_connect, which ends with all            *)
(* subscriptions made or the connection lost (mqtt.py:126).                 *)
THEOREM ClientListens == Spec => []Listens
<1>1. Init => Listens
  BY DEF Init, MqttInit, Listens
<1>2. Listens /\ [Next]_vars => Listens'
  <2> SUFFICES ASSUME Listens, MqttStep \/ UNCHANGED mqttVars PROVE Listens'
    BY ProcessStepIsMqttStep
  <2>1. CASE MqttStart
    BY <2>1 DEF MqttStart, Listens
  <2>2. CASE LinkDown \/ MqttEnds
    BY <2>2 DEF LinkDown, MqttEnds, LoseLink, Listens
  <2>3. CASE NoticeLoss \/ PahoDies \/ UNCHANGED mqttVars
    BY <2>3 DEF NoticeLoss, PahoDies, mqttVars, Listens
  <2>4. CASE LinkUp \/ OnConnect
    BY <2>4 DEF LinkUp, OnConnect, AfterBirth, Listens
  <2>5. CASE Subscribe
    BY <2>5 DEF Subscribe, Listens
  <2> QED BY <2>1, <2>2, <2>3, <2>4, <2>5 DEF MqttStep
<1> QED BY <1>1, <1>2, PTL DEF Spec

(* A last will that is still to come counts as unnoticed, also when it is   *)
(* that of an earlier connection or of an earlier process.                  *)
AliveIInv ==
  /\ ghosts \in Nat /\ outlived \in BOOLEAN /\ link \in BOOLEAN
  /\ AliveIsCurrent

(* The retained $connected tells whether the client is connected (mqtt.py:31, *)
(* :110), through any number of losses and restarts, unless a last will came  *)
(* after the birth message of a later connection.                             *)
THEOREM RetainedIsAlive == Spec => []AliveIsCurrent
<1>1. ASSUME Init PROVE AliveIInv
  <2>1. ghosts = 0 /\ outlived = FALSE /\ link = FALSE /\ alive # "True"
    BY <1>1 DEF Init, MqttInit
  <2> QED BY <2>1 DEF AliveIInv, AliveIsCurrent
<1>2. AliveIInv /\ [Next]_vars => AliveIInv'
  <2> SUFFICES ASSUME AliveIInv, MqttStep \/ UNCHANGED mqttVars PROVE AliveIInv'
    BY ProcessStepIsMqttStep
  <2>1. CASE MqttStart
    BY <2>1 DEF MqttStart, AliveIInv, AliveIsCurrent
  <2>2. CASE LinkDown \/ MqttEnds
    <3>1. LoseLink /\ UNCHANGED outlived
      BY <2>2 DEF LinkDown, MqttEnds
    <3>2. link' = FALSE /\ ghosts' \in Nat
      BY <3>1 DEF LoseLink, AliveIInv
    <3>3. ASSUME ghosts' = 0, ~outlived' PROVE alive' # "True"
      <4>1. ~outlived
        BY <3>1, <3>3
      <4>2. CASE ~link /\ UNCHANGED <<ghosts, alive>>
        BY <4>1, <4>2, <3>3 DEF AliveIInv, AliveIsCurrent
      <4>3. CASE alive' = Will
        BY <4>3 DEF Will
      <4>4. CASE ghosts' = ghosts + 1
        BY <4>4, <3>3 DEF AliveIInv
      <4> QED BY <3>1, <4>2, <4>3, <4>4 DEF LoseLink
    <3> QED BY <3>1, <3>2, <3>3 DEF AliveIInv, AliveIsCurrent
  <2>3. CASE NoticeLoss
    BY <2>3 DEF NoticeLoss, Will, AliveIInv, AliveIsCurrent
  <2>4. CASE LinkUp
    BY <2>4 DEF LinkUp, AliveIInv, AliveIsCurrent
  <2>5. CASE OnConnect
    BY <2>5 DEF OnConnect, AfterBirth, AliveIInv, AliveIsCurrent
  <2>6. CASE Subscribe
    BY <2>6 DEF Subscribe, AliveIInv, AliveIsCurrent
  <2>7. CASE PahoDies \/ UNCHANGED mqttVars
    BY <2>7 DEF PahoDies, mqttVars, AliveIInv, AliveIsCurrent
  <2> QED BY <2>1, <2>2, <2>3, <2>4, <2>5, <2>6, <2>7 DEF MqttStep
<1>3. AliveIInv => AliveIsCurrent
  BY DEF AliveIInv
<1> QED BY <1>1, <1>2, <1>3, PTL DEF Spec
-----------------------------------------------------------------------------
(* What the process may do to its settings. *)
SettingsStep ==
  \/ \E change \in Texts : Update(change)
  \/ StoreOpen \/ StoreWrite \/ StoreFails \/ AbandonStore
  \/ Loadable(file) /\ StartWith(file)

LEMMA ProcessStepIsSettingsStep == [Next]_vars => SettingsStep \/ UNCHANGED settingsVars
<1>1. MainStep \/ Supervise => SettingsStep \/ UNCHANGED settingsVars
  BY DEF SettingsStep, MainStep, Supervise, LoadSettings, ConnectBroker, Authenticate,
         HealthCheck, LoopRaises, End
<1>2. StoreStep \/ PahoStep \/ Network => SettingsStep \/ UNCHANGED settingsVars
  BY DEF SettingsStep, StoreStep, PahoStep, Network
<1>3. Faulty => SettingsStep \/ UNCHANGED settingsVars
  BY DEF SettingsStep, Faulty, BrokerUnreachable, ApiError, HealthCheckApiError,
         ExitWithLostPing, StartWithLostPing, Kill, StoreFault, BadMessage, TokenExpires, End
<1>4. ASSUME NEW change \in Texts, ControlMessage(change) PROVE SettingsStep
  BY <1>4 DEF ControlMessage, SettingsStep
<1>5. Reseed \/ PingOverdue \/ UNCHANGED vars => UNCHANGED settingsVars
  BY DEF Reseed, PingOverdue, vars
<1> QED BY <1>1, <1>2, <1>3, <1>4, <1>5 DEF Next

(* Whatever is merged into settings, or they into it, makes settings; and   *)
(* settings may be stored.                                                  *)
LEMMA MergeTypes ==
  /\ \A text \in Texts, c \in Settings : Merge(text, c) \in Settings
  /\ \A f \in Files : Loadable(f) => Loaded(f) \in Settings
  /\ \A c \in Settings : Holding(c) \in Files
<1>1. \A text \in Texts : \A k \in DOMAIN text : text[k] \in Values
  BY DEF Texts
<1>2. Defaults \in Settings
  BY DEF Defaults, Settings, Values
<1>3. ASSUME NEW text, \A k \in DOMAIN text : text[k] \in Values, NEW c \in Settings
      PROVE  Merge(text, c) \in Settings
  <2>1. \A k \in Keys : c[k] \in Values
    BY DEF Settings
  <2> QED BY <1>3, <2>1 DEF Merge, Settings
<1>4. ASSUME NEW f \in Files, Loadable(f) PROVE Loaded(f) \in Settings
  <2>1. CASE f = Absent
    <3>1. f.text = <<>> /\ DOMAIN <<>> = {}
      BY <2>1 DEF Absent
    <3> QED BY <1>2, <1>3, <3>1 DEF Loaded
  <2>2. CASE \E text \in Texts : f = Holding(text)
    <3>1. f.text \in Texts
      BY <2>2 DEF Holding
    <3> QED BY <1>1, <1>2, <1>3, <3>1 DEF Loaded
  <2>3. f # Empty
    BY <1>4 DEF Loadable, Empty
  <2> QED BY <2>1, <2>2, <2>3 DEF Files
<1>5. ASSUME NEW c \in Settings PROVE Holding(c) \in Files
  <2>1. c \in Texts
    <3>1. Keys \in (SUBSET Keys) \ {{}}
      BY SettingsAssumption
    <3> QED BY <3>1 DEF Settings, Texts
  <2> QED BY <2>1 DEF Files
<1> QED BY <1>1, <1>3, <1>4, <1>5

LEMMA SettingsTypes ==
  ASSUME SettingsTypeInv, SettingsStep \/ UNCHANGED settingsVars
  PROVE  SettingsTypeInv'
<1>1. CASE \E change \in Texts : Update(change)
  BY <1>1, MergeTypes DEF Update, SettingsTypeInv
<1>2. CASE StoreOpen
  BY <1>2 DEF StoreOpen, SettingsTypeInv, Files
<1>3. CASE StoreWrite
  BY <1>3, MergeTypes DEF StoreWrite, SettingsTypeInv
<1>4. CASE StoreFails \/ AbandonStore \/ UNCHANGED settingsVars
  BY <1>4 DEF StoreFails, AbandonStore, settingsVars, SettingsTypeInv
<1>5. CASE Loadable(file) /\ StartWith(file)
  BY <1>5, MergeTypes DEF StartWith, SettingsTypeInv
<1> QED BY <1>1, <1>2, <1>3, <1>4, <1>5 DEF SettingsStep

LEMMA MqttTypes ==
  ASSUME MqttTypeInv, MqttStep \/ UNCHANGED mqttVars
  PROVE  MqttTypeInv'
<1>1. CASE MqttStart \/ PahoDies \/ LinkUp \/ UNCHANGED mqttVars
  BY <1>1 DEF MqttStart, PahoDies, LinkUp, mqttVars, MqttTypeInv
<1>2. CASE LinkDown \/ MqttEnds
  <2>1. ghosts' \in 0..MaxGhosts /\ alive' \in {"nothing", "True", "False"}
        /\ link' = FALSE /\ subscribed' = {}
    BY <1>2, MqttAssumption DEF LinkDown, MqttEnds, LoseLink, Will, MqttTypeInv
  <2> QED BY <1>2, <2>1 DEF LinkDown, MqttEnds, MqttTypeInv
<1>3. CASE NoticeLoss
  <2>1. ghosts' \in 0..MaxGhosts
    BY <1>3, MqttAssumption DEF NoticeLoss, MqttTypeInv
  <2>2. outlived' \in BOOLEAN
    BY <1>3 DEF NoticeLoss
  <2> QED BY <1>3, <2>1, <2>2 DEF NoticeLoss, Will, MqttTypeInv
<1>4. CASE OnConnect
  <2>1. outlived' \in BOOLEAN /\ alive' \in {"nothing", "True", "False"}
    BY <1>4 DEF OnConnect, MqttTypeInv
  <2> QED BY <1>4, <2>1 DEF OnConnect, AfterBirth, MqttTypeInv
<1>5. CASE Subscribe
  <2>1. subscribed' \subseteq Topics
    BY <1>5 DEF Subscribe, MqttTypeInv
  <2>2. callback' \in {"none", "connack", "subscribe"}
    BY <1>5 DEF Subscribe, MqttTypeInv
  <2> QED BY <1>5, <2>1, <2>2 DEF Subscribe, MqttTypeInv
<1> QED BY <1>1, <1>2, <1>3, <1>4, <1>5 DEF MqttStep

(* The phase, the login, the check and what is left of the faults.          *)
RestTypeInv ==
  /\ phase \in {"down", "load", "connect", "auth", "loop"}
  /\ token \in {"valid", "expired"} /\ monitor \in {"up", "down"}
  /\ faults \in 0..MaxFaults /\ messages \in 0..MaxMessages

LEMMA RestTypes ==
  ASSUME RestTypeInv, [Next]_vars
  PROVE  RestTypeInv'
<1>1. Fault => faults' \in 0..MaxFaults
  BY ProcessAssumption DEF Fault, RestTypeInv
<1>2. \A ok \in BOOLEAN : Ping(ok) \in {"up", "down"}
  BY DEF Ping
<1>3. CASE Supervise \/ MainStep
  BY <1>2, <1>3 DEF Supervise, MainStep, LoadSettings, ConnectBroker, Authenticate,
                    HealthCheck, LoopRaises, End, RestTypeInv
<1>4. CASE StoreStep \/ PahoStep \/ Reseed \/ PingOverdue \/ UNCHANGED vars
  BY <1>4 DEF StoreStep, PahoStep, Reseed, PingOverdue, vars, RestTypeInv
<1>5. CASE Network
  BY <1>1, <1>5 DEF Network, RestTypeInv
<1>6. CASE Faulty
  BY <1>1, <1>2, <1>6 DEF Faulty, BrokerUnreachable, ApiError, HealthCheckApiError,
     ExitWithLostPing, StartWithLostPing, Kill, StoreFault, BadMessage, TokenExpires, End, RestTypeInv
<1>7. CASE \E change \in Texts : ControlMessage(change)
  BY <1>7, ProcessAssumption DEF ControlMessage, RestTypeInv
<1> QED BY <1>3, <1>4, <1>5, <1>6, <1>7 DEF Next

(* The types: whatever is merged, stored and read again, the settings and   *)
(* the file hold one value per setting.                                     *)
THEOREM ProcessTypeCorrect == Spec => []TypeInv
<1>1. Init => TypeInv
  <2> SUFFICES ASSUME Init PROVE TypeInv
    OBVIOUS
  <2>1. SettingsTypeInv
    <3>1. control \in Settings
      BY DEF Init, SettingsInit, Defaults, Settings, Values
    <3>2. PICK K \in SUBSET Keys :
             file = IF K = {} THEN Absent ELSE Holding([k \in K |-> "other"])
      BY DEF Init, SettingsInit
    <3>3. CASE K = {}
      BY <3>1, <3>2, <3>3 DEF Init, SettingsInit, SettingsTypeInv, Files
    <3>4. CASE K # {}
      <4>1. [k \in K |-> "other"] \in [K -> Values] /\ K \in (SUBSET Keys) \ {{}}
        BY <3>4 DEF Values
      <4>2. [k \in K |-> "other"] \in Texts
        BY <4>1 DEF Texts
      <4>3. file \in Files
        BY <3>2, <3>4, <4>2 DEF Files
      <4> QED BY <3>1, <4>3 DEF Init, SettingsInit, SettingsTypeInv
    <3> QED BY <3>3, <3>4
  <2>2. MqttTypeInv
    <3>1. 0 \in 0..MaxGhosts
      BY MqttAssumption
    <3> QED BY <3>1 DEF Init, MqttInit, MqttTypeInv
  <2> QED BY <2>1, <2>2, ProcessAssumption DEF Init, TypeInv
<1>2. TypeInv /\ [Next]_vars => TypeInv'
  <2> SUFFICES ASSUME TypeInv, [Next]_vars PROVE TypeInv'
    OBVIOUS
  <2>1. SettingsTypeInv'
    BY ProcessStepIsSettingsStep, SettingsTypes DEF TypeInv
  <2>2. MqttTypeInv'
    BY ProcessStepIsMqttStep, MqttTypes DEF TypeInv
  <2>3. RestTypeInv'
    BY RestTypes DEF TypeInv, RestTypeInv
  <2> QED BY <2>1, <2>2, <2>3 DEF TypeInv, RestTypeInv
<1> QED BY <1>1, <1>2, PTL DEF Spec
=============================================================================
