----------------------------- MODULE Transactions -----------------------------
(***************************************************************************)
(* Charging transactions and the commands that stop them: OcppServer with  *)
(* what the handlers (ocpp/ocpp_handler.py) and the command coroutines     *)
(* (ocpp/ocpp_server.py) know of transactions, and the charge points and   *)
(* users on either side.                                                   *)
(*                                                                         *)
(* A transaction is <<s, n>>, the n-th one started on connection s.  The   *)
(* charge point and the user know it by the id it was given.  A user may   *)
(* stop any transaction it has ever seen start, as the events it learns    *)
(* this from are neither acknowledged nor repeated.                        *)
(***************************************************************************)
EXTENDS OcppServer, SequencesExt

CONSTANTS NoTransaction,
          MaxTransactions   \* bound: transactions on all connections

ASSUME TransactionsAssumption ==
  MaxTransactions \in Nat /\ NoTransaction \notin Sessions \X Nat

VARIABLES
  lastId,      \* per handler: _transaction_id
  ids,         \* per connection: the ids of its transactions, as published
  active,      \* the transactions the charge points are carrying on
  content,     \* per command: what the user sent, if anything
  wire,        \* per connection: calls the charge point has not handled
  arrived,     \* history: the commands in the order of their dispatch
  carriedOut   \* history: the commands in the order charge points obeyed

txVars == <<lastId, ids, active>>
callVars == <<wire, arrived, carriedOut>>
vars == <<serverVars, txVars, content, callVars>>

TransactionsOf(s) == {s} \X (1..Len(ids[s]))
Started == UNION {TransactionsOf(s) : s \in Sessions}
IdOf(t) == ids[t[1]][t[2]]

(* A stop may name a transaction or leave it out; the current of a          *)
(* malformed command is not a number.                                       *)
Content(kind, t) == [kind |-> kind, of |-> t]
Unsent == Content("unsent", NoTransaction)
Sendable ==
  {Content("stop", t) : t \in Started \cup {NoTransaction}}
    \cup {Content("set_current", NoTransaction), Content("malformed", NoTransaction)}

TypeInv ==
  /\ ServerTypeInv
  /\ lastId \in [Sessions -> 0..MaxTransactions]
  /\ ids \in [Sessions -> Seq(1..MaxTransactions)]
  /\ active \subseteq Started
  /\ content \in [Commands -> Sendable \cup {Unsent}]
  /\ wire \in [Sessions -> Seq(Commands)]
  /\ arrived \in Seq(Commands) /\ carriedOut \in Seq(Commands)

Init ==
  /\ ServerInit
  /\ lastId = [s \in Sessions |-> 0]
  /\ ids = [s \in Sessions |-> <<>>]
  /\ active = {}
  /\ content = [k \in Commands |-> Unsent]
  /\ wire = [s \in Sessions |-> <<>>]
  /\ arrived = <<>> /\ carriedOut = <<>>

-----------------------------------------------------------------------------
(* What the running coroutine publishes is sent; OcppBridge has the steps. *)
Published ==
  /\ running /\ toPublish # <<>>
  /\ toPublish' = <<>>
  /\ UNCHANGED <<session, registry, running, order, call, overlapped>>
  /\ UNCHANGED <<txVars, content, callVars>>

Connecting ==
  /\ \E s \in Sessions : Connect(s) \/ Cleanup(s)
  /\ UNCHANGED <<txVars, content, callVars>>

(* Calls that are still on their way are lost with the connection. *)
Breaking ==
  \E s \in Sessions :
    /\ Break(s)
    /\ wire' = [wire EXCEPT ![s] = <<>>]
    /\ UNCHANGED <<txVars, content, arrived, carriedOut>>

(* Mutant: every transaction gets the same id, as in simple_server.py. *)
SameId(s) == 1

NextId(s) == lastId[s] + 1

(* on_start_transaction.  The answer, which carries the id, does not reach  *)
(* a charge point that has lost the connection.                             *)
StartTransaction(s) ==
  /\ Free /\ session[s] \in {"open", "broken"} /\ Cardinality(Started) < MaxTransactions
  /\ lastId' = [lastId EXCEPT ![s] = NextId(s)]
  /\ ids' = [ids EXCEPT ![s] = Append(@, NextId(s))]
  /\ active' = IF session[s] = "open" THEN active \cup {<<s, Len(ids[s]) + 1>>} ELSE active
  /\ UNCHANGED <<serverVars, content, callVars>>

(* The driver ends a transaction at the charge point, connected or not. *)
EndLocally(t) ==
  /\ active' = active \ {t}
  /\ UNCHANGED <<serverVars, lastId, ids, content, callVars>>

-----------------------------------------------------------------------------
UserSends(k) ==
  /\ content[k] = Unsent
  /\ \E c \in Sendable : content' = [content EXCEPT ![k] = c]
  /\ UNCHANGED <<serverVars, txVars, callVars>>

(* The transaction_id of _cmd_stop. *)
IdIn(k) == IF content[k].of = NoTransaction THEN 1 ELSE IdOf(content[k].of)

CommandArrives(k) ==
  /\ content[k] # Unsent
  /\ Dispatch(k)
  /\ arrived' = IF registry[To(k)] = NoSession THEN arrived ELSE Append(arrived, k)
  /\ UNCHANGED <<txVars, content, wire, carriedOut>>

(* Mutant: the command that waited longest is not the next one. *)
LeaveBlocked(s, k) == order

(* _cmd_set_current raises before its call, waiting for no lock. *)
Leave(s, k) == [order EXCEPT ![s] = RemoveFirst(@, k)]

FailMalformed(s, k) ==
  /\ Free /\ content[k].kind = "malformed" /\ call[k] = "queued" /\ Contains(order[s], k)
  /\ call' = [call EXCEPT ![k] = "done"]
  /\ order' = Leave(s, k)
  /\ UNCHANGED <<session, registry, toPublish, running, overlapped>>
  /\ UNCHANGED <<txVars, content, callVars>>

(* A call into a working connection is on the wire. *)
Sending(s, k) ==
  /\ content[k].kind # "malformed" /\ SendCall(s, k)
  /\ wire' = IF call'[k] = "calling" /\ session[s] = "open"
             THEN [wire EXCEPT ![s] = Append(@, k)] ELSE wire
  /\ UNCHANGED <<txVars, content, arrived, carriedOut>>

(* The charge point handles the calls in order, also one whose caller has   *)
(* given up.  It stops a transaction that has the id, if there is one.      *)
CarryOut(s) ==
  /\ session[s] = "open" /\ wire[s] # <<>>
  /\ LET k == Head(wire[s])
         named == {t \in active : Of(t[1]) = Of(s) /\ IdOf(t) = IdIn(k)}
     IN  /\ carriedOut' = Append(carriedOut, k)
         /\ IF content[k].kind = "stop" /\ named # {}
            THEN \E t \in named : active' = active \ {t}
            ELSE UNCHANGED active
  /\ wire' = [wire EXCEPT ![s] = Tail(@)]
  /\ UNCHANGED <<serverVars, lastId, ids, content, arrived>>

Answering(s, k) ==
  /\ Contains(carriedOut, k) /\ Answer(s, k)
  /\ UNCHANGED <<txVars, content, callVars>>

TimingOut(s, k) == Timeout(s, k) /\ UNCHANGED <<txVars, content, callVars>>

-----------------------------------------------------------------------------
CommandStep(s, k) ==
  FailMalformed(s, k) \/ Sending(s, k) \/ Answering(s, k) \/ TimingOut(s, k)

Next ==
  \/ Published \/ Connecting \/ Breaking
  \/ \E s \in Sessions : StartTransaction(s) \/ CarryOut(s)
  \/ \E t \in active : EndLocally(t)
  \/ \E k \in Commands : UserSends(k) \/ CommandArrives(k)
  \/ \E s \in Sessions, k \in Commands : CommandStep(s, k)

(* The event loop runs its ready coroutines in turn, and the library gives  *)
(* up a call after a timeout; nothing is assumed of the charge points.      *)
Fairness ==
  /\ WF_vars(Published)
  /\ \A k \in Commands :
       SF_vars(\E s \in Sessions : FailMalformed(s, k) \/ Sending(s, k) \/ TimingOut(s, k))

Spec == Init /\ [][Next]_vars
FairSpec == Spec /\ Fairness

-----------------------------------------------------------------------------
(* A stop command that reaches the connection on which the transaction it   *)
(* means was started ends that one or none, also when it is carried out     *)
(* after its timeout or sent again, unless the charge point still carries   *)
(* on a transaction from an earlier connection: each handler counts its     *)
(* transactions from 1 (ocpp_handler.py:38).                                *)
StopEndsWhatWasMeant ==
  [][\A s \in Sessions, k \in Commands :
       /\ wire[s] # <<>> /\ wire'[s] = Tail(wire[s]) /\ k = Head(wire[s])
       /\ content[k].of \in TransactionsOf(s) /\ active \subseteq TransactionsOf(s)
       => active \ active' \subseteq {content[k].of}]_vars

ArrivalOf(k) == SelectInSeq(arrived, LAMBDA j : j = k)

(* A charge point obeys its commands in the order in which they came from   *)
(* the MQTT client, whatever timed out, failed or moved to a new connection *)
(* between: the last set_current is the one that counts                     *)
(* (dispatch_command, ocpp_server.py:235).                                  *)
CommandsInOrder ==
  \A i, j \in DOMAIN carriedOut : i < j /\ To(carriedOut[i]) = To(carriedOut[j]) =>
    ArrivalOf(carriedOut[i]) < ArrivalOf(carriedOut[j])

(* Every command that found a handler ends and frees the next one, even     *)
(* behind a call on a dead connection, or behind a command whose current is *)
(* not a number, which raises outside its try (ocpp_server.py:297).         *)
CommandsEnd == \A k \in Commands : call[k] = "queued" ~> call[k] = "done"
=============================================================================
