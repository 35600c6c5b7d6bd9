-------------------------- MODULE TransactionsProofs --------------------------
(***************************************************************************)
(* Transactions and commands, for every set of charge points, connections  *)
(* and commands: types, that commands are obeyed in the order in which     *)
(* they came, and that a stop ends the transaction it means.               *)
(***************************************************************************)
EXTENDS Transactions, SequenceTheorems, FiniteSetTheorems, WellFoundedInduction, TLAPS

-----------------------------------------------------------------------------
(* The types.  What the server's steps keep of them ...                     *)
LEMMA PublicationTypes ==
  /\ \A c \in ChargePoints, payload \in StatusPayloads :
       <<[topic |-> "status", cp |-> c, payload |-> payload], [topic |-> "gateway"]>>
         \in Seq(Publications)
  /\ <<[topic |-> "response"]>> \in Seq(Publications)
  /\ <<>> \in Seq(Publications)
<1>1. /\ [topic |-> "gateway"] \in Publications /\ [topic |-> "response"] \in Publications
      /\ \A c \in ChargePoints, payload \in StatusPayloads :
           [topic |-> "status", cp |-> c, payload |-> payload] \in Publications
  BY DEF Publications
<1> QED BY <1>1

CallStates == {"unsent", "ignored", "queued", "calling", "done"}

LEMMA ConnectionTypes ==
  ASSUME ServerTypeInv, NEW s \in Sessions, Connect(s) \/ Break(s) \/ Cleanup(s)
  PROVE  ServerTypeInv'
<1>0. "available" \in StatusPayloads /\ "unavailable" \in StatusPayloads
      /\ Of(s) \in ChargePoints
  BY OcppAssumption DEF StatusPayloads
<1>1. toPublish' \in Seq(Publications)
  BY <1>0, PublicationTypes DEF ServerTypeInv, Connect, Break, Cleanup, PublishStatus
<1>2. overlapped' \in BOOLEAN
  BY DEF ServerTypeInv, Connect, Break, Cleanup
<1>3. /\ session' \in [Sessions -> {"unused", "open", "broken", "gone"}]
      /\ registry' \in [ChargePoints -> Sessions \cup {NoSession}]
  BY <1>0 DEF ServerTypeInv, Connect, Break, Cleanup, Register, Unregister
<1> QED BY <1>1, <1>2, <1>3 DEF ServerTypeInv, Connect, Break, Cleanup

LEMMA CallTypes ==
  ASSUME ServerTypeInv, NEW s \in Sessions, NEW k \in Commands,
         SendCall(s, k) \/ Answer(s, k) \/ Timeout(s, k)
  PROVE  ServerTypeInv'
<1>1. CASE Respond(s, k) /\ Holds(s, k)
  <2>1. Tail(order[s]) \in Seq(Commands)
    BY <1>1, HeadTailProperties DEF ServerTypeInv, Holds
  <2>2. toPublish' \in Seq(Publications)
    BY <1>1, PublicationTypes DEF Respond
  <2>3. order' \in [Sessions -> Seq(Commands)] /\ call' \in [Commands -> CallStates]
    BY <1>1, <2>1 DEF Respond, ServerTypeInv, CallStates
  <2> QED BY <2>2, <2>3 DEF ServerTypeInv, CallStates, SendCall, Answer, Timeout
<1>2. CASE call' = [call EXCEPT ![k] = "calling"] /\ UNCHANGED <<order, toPublish>>
  <2>1. call' \in [Commands -> CallStates]
    BY <1>2 DEF ServerTypeInv, CallStates
  <2> QED BY <1>2, <2>1 DEF ServerTypeInv, CallStates, SendCall, Answer, Timeout
<1> QED BY <1>1, <1>2 DEF SendCall, Answer, Timeout

LEMMA DispatchTypes ==
  ASSUME ServerTypeInv, NEW k \in Commands, Dispatch(k)
  PROVE  ServerTypeInv'
<1>1. To(k) \in ChargePoints
  BY OcppAssumption
<1>2. order' \in [Sessions -> Seq(Commands)]
  <2>1. CASE registry[To(k)] = NoSession
    BY <2>1 DEF Dispatch, ServerTypeInv
  <2>2. CASE registry[To(k)] # NoSession
    <3>1. registry[To(k)] \in Sessions
      BY <1>1, <2>2 DEF ServerTypeInv
    <3>2. Append(order[registry[To(k)]], k) \in Seq(Commands)
      BY <3>1, AppendProperties DEF ServerTypeInv
    <3> QED BY <2>2, <3>1, <3>2 DEF Dispatch, ServerTypeInv
  <2> QED BY <2>1, <2>2
<1>3. call' \in [Commands -> CallStates]
  BY DEF Dispatch, ServerTypeInv, CallStates
<1> QED BY <1>2, <1>3 DEF Dispatch, ServerTypeInv, CallStates

-----------------------------------------------------------------------------
(* Where a command is in a queue, and the queue without it.                 *)
PlaceOf(q, e) == SelectInSeq(q, LAMBDA v : v = e)

LEMMA LeastExists ==
  ASSUME NEW T, T \subseteq Nat, T # {}
  PROVE  Min(T) \in T
<1> DEFINE R == OpToRel(<, Nat)
<1>1. IsWellFoundedOn(R, Nat)
  BY NatLessThanWellFounded
<1> HIDE DEF R
<1>2. PICK n \in T : \A m \in T : <<m, n>> \notin R
  BY <1>1, WFMin
<1>3. \A m \in Nat : m < n => <<m, n>> \in R
  BY DEF R, OpToRel
<1>4. \A m \in T : n <= m
  <2> SUFFICES ASSUME NEW m \in T PROVE n <= m
    OBVIOUS
  <2>1. m \in Nat /\ n \in Nat /\ ~(m < n)
    BY <1>2, <1>3
  <2> QED BY <2>1
<1>5. \E x \in T : \A y \in T : x <= y
  BY <1>4
<1> QED BY <1>5 DEF Min

LEMMA PlaceIs ==
  ASSUME NEW S, NEW q \in Seq(S), NEW i \in 1..Len(q)
  PROVE  PlaceOf(q, q[i]) \in 1..Len(q) /\ q[PlaceOf(q, q[i])] = q[i]
<1> DEFINE e == q[i]
           I == {j \in 1..Len(q) : q[j] = e}
<1>1. I # {} /\ I \subseteq Nat
  BY LenProperties
<1>2. PlaceOf(q, e) = Min(I)
  BY <1>1 DEF PlaceOf, SelectInSeq
<1>3. Min(I) \in I
  BY <1>1, LeastExists
<1> QED BY <1>2, <1>3

(* RemoveFirst closes the gap at some place k.                              *)
ClosedAt(q, r, k) ==
  /\ Len(r) <= Len(q)
  /\ \A i \in 1..Len(r) :
       IF i < k THEN r[i] = q[i] ELSE i + 1 <= Len(q) /\ r[i] = q[i+1]

LEMMA RemoveIs ==
  ASSUME NEW S, NEW q \in Seq(S), NEW e
  PROVE  /\ RemoveFirst(q, e) \in Seq(S)
         /\ \E k \in Nat : ClosedAt(q, RemoveFirst(q, e), k)
<1>len. Len(q) \in Nat /\ \A i \in 1..Len(q) : q[i] \in S
  BY LenProperties, ElementOfSeq
<1>1. CASE ~\E i \in 1..Len(q) : q[i] = e
  <2>1. RemoveFirst(q, e) = q
    BY <1>1 DEF RemoveFirst
  <2>2. ClosedAt(q, q, Len(q) + 1) /\ Len(q) + 1 \in Nat
    BY <1>len DEF ClosedAt
  <2> QED BY <2>1, <2>2
<1>2. CASE \E i \in 1..Len(q) : q[i] = e
  <2> DEFINE k == PlaceOf(q, e)
             a == SubSeq(q, 1, k-1)
             b == SubSeq(q, k+1, Len(q))
  <2>1. k \in 1..Len(q)
    BY <1>2, PlaceIs
  <2>2. RemoveFirst(q, e) = a \o b
    BY <1>2 DEF RemoveFirst, RemoveAt, PlaceOf
  <2> HIDE DEF k
  <2>3. /\ a \in Seq(S) /\ Len(a) = k-1 /\ \A i \in 1..k-1 : a[i] = q[i]
    <3>1. 1 \in Int /\ k-1 \in Int /\ \A i \in 1..k-1 : q[i] \in S
      BY <2>1, <1>len
    <3>2. /\ a \in Seq(S) /\ Len(a) = IF 1 <= k-1 THEN k-1-1+1 ELSE 0
          /\ \A i \in 1..k-1-1+1 : a[i] = q[1+i-1]
      BY <3>1, SubSeqProperties
    <3> QED BY <3>2, <2>1, <1>len
  <2>4. /\ b \in Seq(S) /\ Len(b) = Len(q)-k /\ \A i \in 1..Len(q)-k : b[i] = q[k+i]
    <3>1. k+1 \in Int /\ Len(q) \in Int /\ \A i \in k+1..Len(q) : q[i] \in S
      BY <2>1, <1>len
    <3>2. /\ b \in Seq(S) /\ Len(b) = IF k+1 <= Len(q) THEN Len(q)-(k+1)+1 ELSE 0
          /\ \A i \in 1..Len(q)-(k+1)+1 : b[i] = q[k+1+i-1]
      BY <3>1, SubSeqProperties
    <3>3. \A i \in 1..Len(q)-k : k+1+i-1 = k+i /\ i \in 1..Len(q)-(k+1)+1
      BY <2>1, <1>len
    <3> QED BY <3>2, <3>3, <2>1, <1>len
  <2> HIDE DEF a, b
  <2>5. /\ a \o b \in Seq(S) /\ Len(a \o b) = Len(q) - 1
        /\ \A i \in 1..Len(q)-1 : (a \o b)[i] = IF i <= k-1 THEN a[i] ELSE b[i-(k-1)]
    <3>1. Len(a) + Len(b) = Len(q) - 1
      BY <2>1, <2>3, <2>4, <1>len
    <3> QED BY <2>3, <2>4, <3>1, ConcatProperties
  <2>6. ASSUME NEW i \in 1..Len(q)-1
        PROVE  IF i < k THEN (a \o b)[i] = q[i] ELSE (a \o b)[i] = q[i+1]
    <3>1. CASE i < k
      <4>1. i <= k-1 /\ i \in 1..k-1
        BY <3>1, <2>1, <1>len
      <4> QED BY <4>1, <3>1, <2>3, <2>5
    <3>2. CASE ~(i < k)
      <4>1. ~(i <= k-1) /\ i-(k-1) \in 1..Len(q)-k /\ k+(i-(k-1)) = i+1
        BY <3>2, <2>1, <1>len
      <4> QED BY <4>1, <3>2, <2>4, <2>5
    <3> QED BY <3>1, <3>2
  <2>7. ClosedAt(q, a \o b, k)
    BY <1>len, <2>1, <2>5, <2>6 DEF ClosedAt
  <2> QED BY <2>1, <2>2, <2>5, <2>7
<1> QED BY <1>1, <1>2
-----------------------------------------------------------------------------
(* ... and the types of the transactions: each handler has counted its own  *)
(* from 1, and they are finitely many.                                      *)
CountedInv ==
  /\ IsFiniteSet(Started)
  /\ \A s \in Sessions :
       Len(ids[s]) = lastId[s] /\ \A n \in 1..Len(ids[s]) : ids[s][n] = n

LEMMA StartedIs ==
  ASSUME NEW s \in Sessions
  PROVE  /\ TransactionsOf(s) \subseteq Started
         /\ \A n : <<s, n>> \in Started <=> n \in 1..Len(ids[s])
BY DEF Started, TransactionsOf

LEMMA IdsTypes ==
  ASSUME TypeInv, CountedInv, NEW s \in Sessions
  PROVE  /\ ids[s] \in Seq(1..MaxTransactions) /\ Len(ids[s]) \in Nat
         /\ lastId[s] \in Nat /\ lastId[s] = Len(ids[s])
BY TransactionsAssumption, LenProperties DEF TypeInv, CountedInv

(* No handler has counted further than there are transactions.              *)
LEMMA IdsFit ==
  ASSUME TypeInv, CountedInv, NEW s \in Sessions, Cardinality(Started) < MaxTransactions
  PROVE  NextId(s) \in 1..MaxTransactions /\ NextId(s) = Len(ids[s]) + 1
<1> DEFINE n == Len(ids[s])
<1>1. n \in Nat /\ lastId[s] = n
  BY IdsTypes
<1> HIDE DEF n
<1>2. IsFiniteSet(1..n) /\ Cardinality(1..n) = n
  BY <1>1, FS_Interval
<1>3. IsFiniteSet({s}) /\ Cardinality({s}) = 1
  BY FS_Singleton
<1>4. IsFiniteSet({s} \X (1..n)) /\ Cardinality({s} \X (1..n)) = Cardinality({s}) * Cardinality(1..n)
  BY <1>2, <1>3, FS_Product
<1>5. Cardinality({s} \X (1..n)) = n
  BY <1>1, <1>2, <1>3, <1>4
<1>6. {s} \X (1..n) \in SUBSET Started
  BY StartedIs DEF TransactionsOf, n
<1>7. Cardinality({s} \X (1..n)) <= Cardinality(Started) /\ Cardinality(Started) \in Nat
  BY <1>6, FS_Subset, FS_CardinalityType DEF CountedInv
<1> QED BY <1>1, <1>5, <1>7, TransactionsAssumption DEF NextId, n

LEMMA StartKeepsTypes ==
  ASSUME TypeInv, CountedInv, NEW s \in Sessions, StartTransaction(s)
  PROVE  /\ TypeInv' /\ CountedInv'
         /\ Started' = Started \cup {<<s, Len(ids[s]) + 1>>}
<1> DEFINE n == Len(ids[s])
<1>ty. /\ ids \in [Sessions -> Seq(1..MaxTransactions)] /\ lastId \in [Sessions -> 0..MaxTransactions]
       /\ ids[s] \in Seq(1..MaxTransactions) /\ n \in Nat
  BY IdsTypes DEF TypeInv
<1>1. NextId(s) \in 1..MaxTransactions /\ NextId(s) = n + 1
  BY IdsFit DEF StartTransaction
<1>2. /\ ids' = [ids EXCEPT ![s] = Append(ids[s], n + 1)]
      /\ lastId' = [lastId EXCEPT ![s] = n + 1]
  BY <1>1, <1>ty DEF StartTransaction
<1>3. /\ Append(ids[s], n + 1) \in Seq(1..MaxTransactions)
      /\ Len(Append(ids[s], n + 1)) = n + 1
      /\ \A i \in 1..n : Append(ids[s], n + 1)[i] = ids[s][i]
      /\ Append(ids[s], n + 1)[n + 1] = n + 1
  BY <1>1, <1>ty, AppendProperties
<1> HIDE DEF n
<1>4. /\ ids' \in [Sessions -> Seq(1..MaxTransactions)] /\ lastId' \in [Sessions -> 0..MaxTransactions]
  BY <1>1, <1>2, <1>3, <1>ty
<1>5. /\ Len(ids'[s]) = n + 1
      /\ \A o \in Sessions \ {s} : ids'[o] = ids[o]
  BY <1>2, <1>3, <1>ty
<1>6. Started' = Started \cup {<<s, n + 1>>}
  <2>1. TransactionsOf(s)' = TransactionsOf(s) \cup {<<s, n + 1>>}
    <3>1. 1..n+1 = (1..n) \cup {n+1}
      BY <1>ty
    <3> QED BY <1>5, <3>1 DEF TransactionsOf, n
  <2>2. \A o \in Sessions \ {s} : TransactionsOf(o)' = TransactionsOf(o)
    BY <1>5 DEF TransactionsOf
  <2> QED BY <2>1, <2>2 DEF Started
<1>7. IsFiniteSet(Started')
  BY <1>6, FS_AddElement DEF CountedInv
<1>8. CountedInv'
  <2>1. ASSUME NEW o \in Sessions
        PROVE  Len(ids'[o]) = lastId'[o] /\ \A i \in 1..Len(ids'[o]) : ids'[o][i] = i
    <3>1. CASE o # s
      BY <3>1, <1>2, <1>5, <1>ty DEF CountedInv
    <3>2. CASE o = s
      <4>1. ids'[s] = Append(ids[s], n + 1) /\ lastId'[s] = n + 1
        BY <1>2, <1>ty
      <4>2. \A i \in 1..n+1 : i \in 1..n \/ i = n+1
        BY <1>ty
      <4>3. \A i \in 1..n : ids[s][i] = i
        BY DEF CountedInv, n
      <4> QED BY <3>2, <4>1, <4>2, <4>3, <1>3
    <3> QED BY <3>1, <3>2
  <2> QED BY <1>7, <2>1 DEF CountedInv
<1>9. active' \subseteq Started'
  BY <1>6 DEF StartTransaction, TypeInv, n
<1>10. content' \in [Commands -> (Sendable \cup {Unsent})']
  <2>1. Sendable \subseteq Sendable' /\ Unsent' = Unsent
    BY <1>6 DEF Sendable, Content, Unsent
  <2> QED BY <2>1 DEF StartTransaction, TypeInv
<1>11. ServerTypeInv'
  BY DEF StartTransaction, serverVars, TypeInv, ServerTypeInv
<1> QED BY <1>4, <1>6, <1>8, <1>9, <1>10, <1>11
        DEF StartTransaction, TypeInv, callVars, n

(* The rest of the types, while the transactions stay what they are.        *)
LEMMA OthersKeepTypes ==
  ASSUME TypeInv, CountedInv, ServerTypeInv', UNCHANGED <<lastId, ids>>, active' \subseteq active,
         \/ content' = content
         \/ \E k \in Commands, c \in Sendable : content' = [content EXCEPT ![k] = c],
         wire' \in [Sessions -> Seq(Commands)],
         arrived' \in Seq(Commands), carriedOut' \in Seq(Commands)
  PROVE  TypeInv' /\ CountedInv' /\ Started' = Started
<1>1. Started' = Started /\ Sendable' = Sendable /\ Unsent' = Unsent
  BY DEF Started, TransactionsOf, Sendable, Content, Unsent
<1>2. content' \in [Commands -> Sendable \cup {Unsent}]
  BY DEF TypeInv
<1> QED BY <1>1, <1>2 DEF TypeInv, CountedInv

LEMMA NextTypes ==
  ASSUME TypeInv, CountedInv, [Next]_vars
  PROVE  TypeInv' /\ CountedInv'
<1>ty. /\ wire \in [Sessions -> Seq(Commands)]
       /\ arrived \in Seq(Commands) /\ carriedOut \in Seq(Commands)
       /\ ServerTypeInv
  BY DEF TypeInv
<1>1. CASE Published
  <2>1. ServerTypeInv'
    BY <1>1, <1>ty, PublicationTypes DEF Published, ServerTypeInv
  <2> QED BY <1>1, <1>ty, <2>1, OthersKeepTypes DEF Published, txVars, callVars
<1>2. CASE Connecting
  <2>1. ServerTypeInv'
    BY <1>2, <1>ty, ConnectionTypes DEF Connecting
  <2> QED BY <1>2, <1>ty, <2>1, OthersKeepTypes DEF Connecting, txVars, callVars
<1>3. CASE Breaking
  <2>1. ServerTypeInv'
    BY <1>3, <1>ty, ConnectionTypes DEF Breaking
  <2>2. wire' \in [Sessions -> Seq(Commands)]
    BY <1>3, <1>ty DEF Breaking
  <2> QED BY <1>3, <1>ty, <2>1, <2>2, OthersKeepTypes DEF Breaking, txVars
<1>4. ASSUME NEW s \in Sessions, StartTransaction(s) PROVE TypeInv' /\ CountedInv'
  BY <1>4, StartKeepsTypes
<1>5. ASSUME NEW s \in Sessions, CarryOut(s) PROVE TypeInv' /\ CountedInv'
  <2>1. ServerTypeInv'
    BY <1>5, <1>ty DEF CarryOut, serverVars, ServerTypeInv
  <2>2. Head(wire[s]) \in Commands /\ Tail(wire[s]) \in Seq(Commands)
    BY <1>5, <1>ty, HeadTailProperties DEF CarryOut
  <2>3. wire' \in [Sessions -> Seq(Commands)] /\ carriedOut' \in Seq(Commands)
    BY <1>5, <1>ty, <2>2, AppendProperties DEF CarryOut
  <2>4. active' \subseteq active
    BY <1>5 DEF CarryOut
  <2> QED BY <1>5, <1>ty, <2>1, <2>3, <2>4, OthersKeepTypes DEF CarryOut
<1>6. ASSUME NEW t \in active, EndLocally(t) PROVE TypeInv' /\ CountedInv'
  <2>1. ServerTypeInv' /\ active' \subseteq active
    BY <1>6, <1>ty DEF EndLocally, serverVars, ServerTypeInv
  <2> QED BY <1>6, <1>ty, <2>1, OthersKeepTypes DEF EndLocally, callVars
<1>7. ASSUME NEW k \in Commands, UserSends(k) PROVE TypeInv' /\ CountedInv'
  <2>1. ServerTypeInv'
    BY <1>7, <1>ty DEF UserSends, serverVars, ServerTypeInv
  <2> QED BY <1>7, <1>ty, <2>1, OthersKeepTypes DEF UserSends, txVars, callVars
<1>8. ASSUME NEW k \in Commands, CommandArrives(k) PROVE TypeInv' /\ CountedInv'
  <2>1. ServerTypeInv' /\ arrived' \in Seq(Commands)
    BY <1>8, <1>ty, DispatchTypes, AppendProperties DEF CommandArrives
  <2> QED BY <1>8, <1>ty, <2>1, OthersKeepTypes DEF CommandArrives, txVars
<1>9. ASSUME NEW s \in Sessions, NEW k \in Commands, CommandStep(s, k)
      PROVE  TypeInv' /\ CountedInv'
  <2>1. CASE FailMalformed(s, k)
    <3>1. RemoveFirst(order[s], k) \in Seq(Commands)
      BY <1>ty, RemoveIs DEF ServerTypeInv
    <3>2. order' \in [Sessions -> Seq(Commands)] /\ call' \in [Commands -> CallStates]
      BY <2>1, <1>ty, <3>1 DEF FailMalformed, Leave, ServerTypeInv, CallStates
    <3>3. ServerTypeInv'
      BY <2>1, <1>ty, <3>2 DEF FailMalformed, ServerTypeInv, CallStates
    <3> QED BY <2>1, <1>ty, <3>3, OthersKeepTypes DEF FailMalformed, txVars, callVars
  <2>2. CASE Sending(s, k)
    <3>1. ServerTypeInv'
      BY <2>2, <1>ty, CallTypes DEF Sending
    <3>2. wire' \in [Sessions -> Seq(Commands)]
      <4>1. Append(wire[s], k) \in Seq(Commands)
        BY <1>ty, AppendProperties
      <4> QED BY <2>2, <1>ty, <4>1 DEF Sending
    <3> QED BY <2>2, <1>ty, <3>1, <3>2, OthersKeepTypes DEF Sending, txVars
  <2>3. CASE Answering(s, k) \/ TimingOut(s, k)
    <3>1. ServerTypeInv'
      BY <2>3, <1>ty, CallTypes DEF Answering, TimingOut
    <3> QED BY <2>3, <1>ty, <3>1, OthersKeepTypes DEF Answering, TimingOut, txVars, callVars
  <2> QED BY <1>9, <2>1, <2>2, <2>3 DEF CommandStep
<1>10. CASE UNCHANGED vars
  <2>1. ServerTypeInv'
    BY <1>10, <1>ty DEF vars, serverVars, ServerTypeInv
  <2> QED BY <1>10, <1>ty, <2>1, OthersKeepTypes DEF vars, txVars, callVars
<1> QED BY <1>1, <1>2, <1>3, <1>4, <1>5, <1>6, <1>7, <1>8, <1>9, <1>10 DEF Next

LEMMA InitTypes == Init => TypeInv /\ CountedInv
<1> SUFFICES ASSUME Init PROVE TypeInv /\ CountedInv
  OBVIOUS
<1>1. <<>> \in Seq(Commands) /\ <<>> \in Seq(1..MaxTransactions) /\ Len(<<>>) = 0
  BY EmptySeq
<1>2. ServerTypeInv
  <2>1. [s \in Sessions |-> <<>>] \in [Sessions -> Seq(Commands)]
    BY <1>1
  <2> QED BY <2>1, PublicationTypes DEF Init, ServerInit, ServerTypeInv
<1>3. Started = {} /\ active = {}
  BY <1>1 DEF Init, Started, TransactionsOf
<1>4. CountedInv
  BY <1>1, <1>3, FS_EmptySet DEF Init, CountedInv
<1>5. /\ lastId \in [Sessions -> 0..MaxTransactions] /\ ids \in [Sessions -> Seq(1..MaxTransactions)]
      /\ content \in [Commands -> Sendable \cup {Unsent}] /\ wire \in [Sessions -> Seq(Commands)]
  <2>1. 0 \in 0..MaxTransactions
    BY TransactionsAssumption
  <2> QED BY <1>1, <2>1 DEF Init
<1> QED BY <1>1, <1>2, <1>3, <1>4, <1>5 DEF TypeInv, Init

(* What the handlers, the wires and the users hold is of its type: ids stay *)
(* among those given out, and active transactions among those started.      *)
THEOREM TransactionsTypeCorrect == Spec => []TypeInv
BY InitTypes, NextTypes, PTL DEF Spec
-----------------------------------------------------------------------------
(* A stop and the transaction it means have the same number on the          *)
(* connection, and numbers there are not given twice.                       *)
LEMMA StopMeans ==
  ASSUME TypeInv, CountedInv, [Next]_vars
  PROVE  [\A s \in Sessions, k \in Commands :
            /\ wire[s] # <<>> /\ wire'[s] = Tail(wire[s]) /\ k = Head(wire[s])
            /\ content[k].of \in TransactionsOf(s) /\ active \subseteq TransactionsOf(s)
            => active \ active' \subseteq {content[k].of}]_vars
<1> SUFFICES ASSUME Next, NEW s \in Sessions, NEW k \in Commands,
                    wire[s] # <<>>, wire'[s] = Tail(wire[s]), k = Head(wire[s]),
                    content[k].of \in TransactionsOf(s), active \subseteq TransactionsOf(s),
                    NEW t \in active \ active'
             PROVE  t = content[k].of
  OBVIOUS
<1>ty. wire \in [Sessions -> Seq(Commands)] /\ wire[s] \in Seq(Commands)
  BY DEF TypeInv
<1>1. Len(wire'[s]) = Len(wire[s]) - 1 /\ Len(wire[s]) \in Nat
  BY <1>ty, HeadTailProperties, LenProperties
<1>2. wire'[s] # wire[s]
  <2> SUFFICES ASSUME wire'[s] = wire[s] PROVE FALSE
    OBVIOUS
  <2>1. Len(wire[s]) = Len(wire[s]) - 1
    BY <1>1
  <2> QED BY <2>1, <1>1
<1>3. PICK o \in Sessions : CarryOut(o)
  <2>1. active' # active
    OBVIOUS
  <2>2. ~Published /\ ~Connecting /\ ~Breaking
        /\ ~(\E j \in Commands : UserSends(j) \/ CommandArrives(j))
        /\ ~(\E o \in Sessions, j \in Commands : CommandStep(o, j))
        /\ ~(\E u \in active : EndLocally(u))
    BY <1>2, <2>1 DEF Published, Connecting, Breaking, UserSends, CommandArrives, CommandStep,
                      FailMalformed, Sending, Answering, TimingOut, EndLocally, txVars, callVars
  <2>3. ASSUME NEW o \in Sessions PROVE ~StartTransaction(o)
    BY <1>2 DEF StartTransaction, callVars
  <2> QED BY <2>2, <2>3 DEF Next
<1>4. o = s
  BY <1>2, <1>3, <1>ty DEF CarryOut
<1>5. t \in active /\ IdOf(t) = IdIn(k)
  BY <1>3, <1>4 DEF CarryOut
<1>6. content[k].of # NoTransaction
  <2>1. NoTransaction \notin Sessions \X Nat
    BY TransactionsAssumption
  <2>2. TransactionsOf(s) \subseteq Sessions \X Nat
    <3>1. Len(ids[s]) \in Nat
      BY IdsTypes
    <3> QED BY <3>1 DEF TransactionsOf
  <2> QED BY <2>1, <2>2
<1>7. IdOf(t) = IdOf(content[k].of)
  BY <1>5, <1>6 DEF IdIn
<1>8. ASSUME NEW u \in TransactionsOf(s) PROVE u = <<s, IdOf(u)>>
  <2>1. PICK n \in 1..Len(ids[s]) : u = <<s, n>>
    BY DEF TransactionsOf
  <2>2. ids[s][n] = n
    BY DEF CountedInv
  <2> QED BY <2>1, <2>2 DEF IdOf
<1>9. t \in TransactionsOf(s)
  BY <1>5
<1> QED BY <1>7, <1>8, <1>9

(* A stop that reaches the connection on which its transaction was started  *)
(* ends that one or none, also after its timeout or sent again, unless the  *)
(* charge point carries on a transaction of an earlier connection: each     *)
(* handler counts its transactions from 1 (ocpp_handler.py:38).             *)
THEOREM StopEndsItsTransaction == Spec => StopEndsWhatWasMeant
BY InitTypes, NextTypes, StopMeans, PTL DEF Spec, StopEndsWhatWasMeant
-----------------------------------------------------------------------------
(* Commands in order.  Where a command stands in a list of them, such as    *)
(* that of their arrivals.                                                  *)
In(q, k) == \E i \in DOMAIN q : q[i] = k
Before(a, j, k) == PlaceOf(a, j) < PlaceOf(a, k)
Distinct(q) == \A i, j \in DOMAIN q : q[i] = q[j] => i = j

(* A queue of commands for c, in the order of their arrival.                *)
InOrder(a, q, c) ==
  /\ \A i \in DOMAIN q : In(a, q[i]) /\ To(q[i]) = c
  /\ \A i, j \in DOMAIN q : i < j => Before(a, q[i], q[j])

(* Everything for c in q came before k.                                     *)
AllBefore(a, q, c, k) == \A i \in DOMAIN q : To(q[i]) = c => Before(a, q[i], k)

ArrivedInv ==
  /\ Distinct(arrived)
  /\ \A k \in Commands : In(arrived, k) => call[k] \in {"queued", "calling", "done"}
  /\ \A i \in DOMAIN carriedOut : In(arrived, carriedOut[i])

(* One connection of a charge point carries commands, and none comes to a   *)
(* connection before that is made.                                          *)
ConnectionInv ==
  /\ \A s, o \in Sessions :
       session[s] = "open" /\ session[o] = "open" /\ Of(s) = Of(o) => s = o
  /\ \A s \in Sessions :
       /\ session[s] = "unused" => order[s] = <<>>
       /\ session[s] # "open" => wire[s] = <<>>
  /\ \A c \in ChargePoints :
       registry[c] # NoSession => Of(registry[c]) = c /\ session[registry[c]] # "unused"

(* What a charge point has obeyed came before what is on the wire to it,    *)
(* and that before what still waits to be sent.                             *)
QueueInv(s) ==
  /\ InOrder(arrived, order[s], Of(s)) /\ InOrder(arrived, wire[s], Of(s))
  /\ \A i \in DOMAIN wire[s] : AllBefore(arrived, carriedOut, Of(s), wire[s][i])
  /\ session[s] = "open" =>
       \A i \in DOMAIN order[s] : call[order[s][i]] = "queued" =>
         /\ AllBefore(arrived, carriedOut, Of(s), order[s][i])
         /\ AllBefore(arrived, wire[s], Of(s), order[s][i])

ObeyedInOrder ==
  \A i, j \in DOMAIN carriedOut : i < j /\ To(carriedOut[i]) = To(carriedOut[j]) =>
    Before(arrived, carriedOut[i], carriedOut[j])

OrderIInv ==
  ArrivedInv /\ ConnectionInv /\ ObeyedInOrder /\ \A s \in Sessions : QueueInv(s)

LEMMA ObeyedIsCommands == ObeyedInOrder => CommandsInOrder
BY DEF ObeyedInOrder, CommandsInOrder, Before, PlaceOf, ArrivalOf

LEMMA InitOrder == Init => OrderIInv
<1> SUFFICES ASSUME Init PROVE OrderIInv
  OBVIOUS
<1>1. arrived = <<>> /\ carriedOut = <<>> /\ DOMAIN <<>> = {}
  BY DEF Init
<1>2. \A s \in Sessions : order[s] = <<>> /\ wire[s] = <<>> /\ session[s] = "unused"
  BY DEF Init, ServerInit
<1>3. \A c \in ChargePoints : registry[c] = NoSession
  BY DEF Init, ServerInit
<1>4. ArrivedInv /\ ObeyedInOrder
  BY <1>1 DEF ArrivedInv, Distinct, In, ObeyedInOrder
<1>5. ConnectionInv
  BY <1>2, <1>3 DEF ConnectionInv
<1>6. \A s \in Sessions : QueueInv(s)
  BY <1>1, <1>2 DEF QueueInv, InOrder
<1> QED BY <1>4, <1>5, <1>6 DEF OrderIInv

(* A queue from which some have left.                                       *)
Shorter(r, q) ==
  \E f \in [DOMAIN r -> DOMAIN q] :
    /\ \A i \in DOMAIN r : r[i] = q[f[i]]
    /\ \A i, j \in DOMAIN r : i < j => f[i] < f[j]

LEMMA SameIsShorter ==
  ASSUME NEW q \in Seq(Commands)
  PROVE  Shorter(q, q)
<1> DEFINE f == [i \in DOMAIN q |-> i]
<1>1. f \in [DOMAIN q -> DOMAIN q] /\ \A i \in DOMAIN q : f[i] = i
  OBVIOUS
<1> QED BY <1>1 DEF Shorter

LEMMA TailIsShorter ==
  ASSUME NEW q \in Seq(Commands), q # <<>>
  PROVE  /\ Tail(q) \in Seq(Commands) /\ Shorter(Tail(q), q) /\ 1 \in DOMAIN q /\ Head(q) = q[1]
         /\ \A i \in DOMAIN Tail(q) : i \in Nat /\ i+1 \in DOMAIN q /\ Tail(q)[i] = q[i+1] /\ 1 < i+1
<1>1. /\ Tail(q) \in Seq(Commands) /\ Len(Tail(q)) = Len(q)-1 /\ Len(q) \in Nat /\ Len(q) # 0
      /\ \A i \in 1..Len(Tail(q)) : Tail(q)[i] = q[i+1]
      /\ Head(q) = q[1]
  BY HeadTailProperties, EmptySeq, LenProperties
<1>2. DOMAIN q = 1..Len(q) /\ DOMAIN Tail(q) = 1..Len(q)-1
  BY <1>1, LenProperties
<1> DEFINE f == [i \in 1..Len(q)-1 |-> i+1]
<1>3. f \in [DOMAIN Tail(q) -> DOMAIN q] /\ \A i \in DOMAIN Tail(q) : f[i] = i+1
  BY <1>1, <1>2
<1>4. \A i, j \in DOMAIN Tail(q) : i < j => f[i] < f[j]
  BY <1>2, <1>3
<1>5. \A i \in DOMAIN Tail(q) : Tail(q)[i] = q[f[i]]
  BY <1>1, <1>2, <1>3
<1>6. Shorter(Tail(q), q)
  BY <1>3, <1>4, <1>5 DEF Shorter
<1> QED BY <1>1, <1>2, <1>6

LEMMA LeftIsShorter ==
  ASSUME NEW q \in Seq(Commands), NEW e
  PROVE  RemoveFirst(q, e) \in Seq(Commands) /\ Shorter(RemoveFirst(q, e), q)
<1> DEFINE r == RemoveFirst(q, e)
<1>1. r \in Seq(Commands) /\ \E k \in Nat : ClosedAt(q, r, k)
  BY RemoveIs
<1> HIDE DEF r
<1>2. PICK k \in Nat : ClosedAt(q, r, k)
  BY <1>1
<1>3. DOMAIN q = 1..Len(q) /\ DOMAIN r = 1..Len(r) /\ Len(q) \in Nat /\ Len(r) \in Nat
  BY <1>1, LenProperties
<1> DEFINE f == [i \in 1..Len(r) |-> IF i < k THEN i ELSE i+1]
<1>4. f \in [DOMAIN r -> DOMAIN q]
  BY <1>2, <1>3 DEF ClosedAt
<1>5. \A i \in DOMAIN r : r[i] = q[f[i]]
  BY <1>2, <1>3 DEF ClosedAt
<1>6. \A i, j \in DOMAIN r : i < j => f[i] < f[j]
  BY <1>2, <1>3
<1>7. Shorter(r, q)
  BY <1>4, <1>5, <1>6 DEF Shorter
<1> QED BY <1>1, <1>7 DEF r

LEMMA ShorterInOrder ==
  ASSUME NEW q, NEW r, Shorter(r, q)
  PROVE  /\ \A i \in DOMAIN r : \E j \in DOMAIN q : r[i] = q[j]
         /\ \A a, c : InOrder(a, q, c) => InOrder(a, r, c)
<1>1. PICK f \in [DOMAIN r -> DOMAIN q] :
        /\ \A i \in DOMAIN r : r[i] = q[f[i]]
        /\ \A i, j \in DOMAIN r : i < j => f[i] < f[j]
  BY DEF Shorter
<1>2. \A i \in DOMAIN r : f[i] \in DOMAIN q
  BY <1>1
<1> QED BY <1>1, <1>2 DEF InOrder
LEMMA AppendIs ==
  ASSUME NEW q \in Seq(Commands), NEW k \in Commands
  PROVE  /\ Append(q, k) \in Seq(Commands)
         /\ Len(q) \in Nat /\ DOMAIN q = 1..Len(q) /\ DOMAIN Append(q, k) = 1..Len(q)+1
         /\ \A i \in 1..Len(q) : Append(q, k)[i] = q[i]
         /\ Append(q, k)[Len(q)+1] = k
BY AppendProperties, LenProperties

LEMMA PlaceInDistinct ==
  ASSUME NEW a \in Seq(Commands), Distinct(a), NEW i \in DOMAIN a
  PROVE  PlaceOf(a, a[i]) = i
<1>1. DOMAIN a = 1..Len(a)
  BY LenProperties
<1>2. PlaceOf(a, a[i]) \in DOMAIN a /\ a[PlaceOf(a, a[i])] = a[i]
  BY <1>1, PlaceIs
<1> QED BY <1>2 DEF Distinct

(* A command that arrives is behind all that came before, whose order stays. *)
LEMMA ArrivalIs ==
  ASSUME NEW a \in Seq(Commands), Distinct(a), NEW k \in Commands, ~In(a, k)
  PROVE  /\ Distinct(Append(a, k))
         /\ \A j : In(Append(a, k), j) <=> In(a, j) \/ j = k
         /\ \A i, j : In(a, i) /\ In(a, j) /\ Before(a, i, j) => Before(Append(a, k), i, j)
         /\ \A j : In(a, j) => Before(Append(a, k), j, k)
<1> DEFINE b == Append(a, k)
<1>1. /\ b \in Seq(Commands) /\ Len(a) \in Nat /\ DOMAIN a = 1..Len(a) /\ DOMAIN b = 1..Len(a)+1
      /\ \A i \in 1..Len(a) : b[i] = a[i]
      /\ b[Len(a)+1] = k
  BY AppendIs
<1> HIDE DEF b
<1>2. \A i \in 1..Len(a) : a[i] # k
  BY <1>1 DEF In
<1>2b. \A i \in DOMAIN b : i \in 1..Len(a) \/ i = Len(a)+1
  BY <1>1
<1>3. Distinct(b)
  BY <1>1, <1>2, <1>2b DEF Distinct
<1>4. \A j : In(b, j) <=> In(a, j) \/ j = k
  <2>1. Len(a)+1 \in DOMAIN b /\ \A i \in DOMAIN a : i \in DOMAIN b
    BY <1>1
  <2> QED BY <1>1, <1>2b, <2>1 DEF In
<1>5. PlaceOf(b, k) = Len(a)+1
  <2>1. Len(a)+1 \in DOMAIN b
    BY <1>1
  <2> QED BY <1>1, <1>3, <2>1, PlaceInDistinct
<1>6. ASSUME NEW j, In(a, j)
      PROVE  PlaceOf(b, j) = PlaceOf(a, j) /\ PlaceOf(a, j) \in 1..Len(a)
  <2>1. PICK i \in DOMAIN a : a[i] = j
    BY <1>6 DEF In
  <2>2. i \in DOMAIN b /\ b[i] = j
    BY <1>1, <2>1
  <2> QED BY <1>1, <1>3, <2>1, <2>2, PlaceInDistinct
<1>7. \A j : In(a, j) => Before(b, j, k)
  BY <1>1, <1>5, <1>6 DEF Before
<1>8. \A i, j : In(a, i) /\ In(a, j) /\ Before(a, i, j) => Before(b, i, j)
  BY <1>6 DEF Before
<1> QED BY <1>3, <1>4, <1>7, <1>8 DEF b

LEMMA ArrivalKeepsOrder ==
  ASSUME NEW a \in Seq(Commands), Distinct(a), NEW k \in Commands, ~In(a, k)
  PROVE  /\ \A q, c : InOrder(a, q, c) => InOrder(Append(a, k), q, c)
         /\ \A q, c, j : (\A i \in DOMAIN q : In(a, q[i])) =>
              /\ In(a, j) /\ AllBefore(a, q, c, j) => AllBefore(Append(a, k), q, c, j)
              /\ AllBefore(Append(a, k), q, c, k)
BY ArrivalIs DEF InOrder, AllBefore

(* At the end of a queue comes what all in it came before.                  *)
LEMMA AppendInOrder ==
  ASSUME NEW a, NEW q \in Seq(Commands), NEW k \in Commands, NEW c,
         InOrder(a, q, c), In(a, k), To(k) = c, AllBefore(a, q, c, k)
  PROVE  InOrder(a, Append(q, k), c)
<1> DEFINE r == Append(q, k)
<1>1. /\ Len(q) \in Nat /\ DOMAIN q = 1..Len(q) /\ DOMAIN r = 1..Len(q)+1
      /\ \A i \in 1..Len(q) : r[i] = q[i]
      /\ r[Len(q)+1] = k
  BY AppendIs
<1> HIDE DEF r
<1>2. \A i \in DOMAIN r : i \in 1..Len(q) \/ i = Len(q)+1
  BY <1>1
<1>3. \A i \in DOMAIN r : In(a, r[i]) /\ To(r[i]) = c
  BY <1>1, <1>2 DEF InOrder
<1>4. ASSUME NEW i \in DOMAIN r, NEW j \in DOMAIN r, i < j PROVE Before(a, r[i], r[j])
  <2>1. i \in 1..Len(q)
    BY <1>1, <1>4
  <2>2. CASE j \in 1..Len(q)
    BY <1>1, <1>4, <2>1, <2>2 DEF InOrder
  <2>3. CASE j = Len(q)+1
    BY <1>1, <2>1, <2>3 DEF InOrder, AllBefore
  <2> QED BY <1>2, <2>2, <2>3
<1>5. InOrder(a, r, c)
  BY <1>3, <1>4 DEF InOrder
<1> QED BY <1>5 DEF r

-----------------------------------------------------------------------------
(* The steps.  Commands leave their handlers, or go ahead, while nothing    *)
(* arrives, is sent or obeyed.                                              *)
Ahead(k) ==
  \/ call'[k] = call[k]
  \/ call[k] \in {"queued", "calling"} /\ call'[k] \in {"calling", "done"}

LEMMA LeavingKeepsOrder ==
  ASSUME OrderIInv, UNCHANGED <<session, registry, wire, arrived, carriedOut>>,
         \A s \in Sessions : Shorter(order'[s], order[s]),
         \A s \in Sessions : order[s] = <<>> => order'[s] = <<>>,
         \A k \in Commands : Ahead(k), order \in [Sessions -> Seq(Commands)]
  PROVE  OrderIInv'
<1>1. ArrivedInv'
  BY DEF OrderIInv, ArrivedInv, Ahead
<1>2. ConnectionInv'
  BY DEF OrderIInv, ConnectionInv
<1>3. ObeyedInOrder'
  BY DEF OrderIInv, ObeyedInOrder
<1>4. ASSUME NEW s \in Sessions PROVE QueueInv(s)'
  <2>1. QueueInv(s)
    BY DEF OrderIInv
  <2>2. InOrder(arrived, order'[s], Of(s))
    BY <2>1, ShorterInOrder DEF QueueInv
  <2>3. ASSUME session[s] = "open", NEW i \in DOMAIN order'[s], call'[order'[s][i]] = "queued"
        PROVE  /\ AllBefore(arrived, carriedOut, Of(s), order'[s][i])
               /\ AllBefore(arrived, wire[s], Of(s), order'[s][i])
    <3>1. PICK j \in DOMAIN order[s] : order'[s][i] = order[s][j]
      BY ShorterInOrder
    <3>2. order[s][j] \in Commands
      BY LenProperties, ElementOfSeq
    <3>3. call[order[s][j]] = "queued"
      BY <2>3, <3>1, <3>2 DEF Ahead
    <3> QED BY <2>1, <2>3, <3>1, <3>3 DEF QueueInv
  <2> QED BY <2>1, <2>2, <2>3 DEF QueueInv
<1> QED BY <1>1, <1>2, <1>3, <1>4 DEF OrderIInv
(* A connection begins with no commands, and what is on the wire is lost    *)
(* with it.                                                                 *)
LEMMA ConnectionKeepsOrder ==
  ASSUME TypeInv, OrderIInv, UNCHANGED <<order, call, arrived, carriedOut>>,
         NEW s \in Sessions,
         \/ Connect(s) /\ wire' = wire
         \/ Break(s) /\ wire' = [wire EXCEPT ![s] = <<>>]
         \/ Cleanup(s) /\ wire' = wire
  PROVE  OrderIInv'
<1>ty. /\ session \in [Sessions -> {"unused", "open", "broken", "gone"}]
       /\ registry \in [ChargePoints -> Sessions \cup {NoSession}]
       /\ wire \in [Sessions -> Seq(Commands)]
       /\ Of(s) \in ChargePoints
  BY OcppAssumption DEF TypeInv, ServerTypeInv
<1>1. PICK stage \in {"open", "broken", "gone"} : session' = [session EXCEPT ![s] = stage]
  BY DEF Connect, Break, Cleanup
<1>2. /\ session'[s] = stage /\ \A o \in Sessions \ {s} : session'[o] = session[o]
      /\ \A o \in Sessions : o # s => wire'[o] = wire[o]
  BY <1>1, <1>ty
<1>3. /\ stage = "open" <=> Connect(s)
      /\ Connect(s) => order[s] = <<>> /\ wire'[s] = <<>>
      /\ stage # "open" => wire'[s] = <<>>
  BY <1>1, <1>2, <1>ty DEF Connect, Break, Cleanup, OrderIInv, ConnectionInv
<1>4. ArrivedInv' /\ ObeyedInOrder'
  BY DEF OrderIInv, ArrivedInv, ObeyedInOrder
<1>5. ConnectionInv'
  <2>1. ASSUME NEW o \in Sessions, NEW p \in Sessions,
               session'[o] = "open", session'[p] = "open", Of(o) = Of(p)
        PROVE  o = p
    <3>1. CASE Connect(s)
      <4>1. \A x \in Sessions : Of(x) = Of(s) => session[x] # "open"
        BY <3>1 DEF Connect
      <4> QED BY <1>2, <2>1, <4>1 DEF OrderIInv, ConnectionInv
    <3>2. CASE stage # "open"
      BY <1>2, <2>1, <3>2 DEF OrderIInv, ConnectionInv
    <3> QED BY <1>3, <3>1, <3>2
  <2>2. ASSUME NEW o \in Sessions
        PROVE  /\ session'[o] = "unused" => order[o] = <<>>
               /\ session'[o] # "open" => wire'[o] = <<>>
    <3>1. CASE o = s
      BY <1>1, <1>2, <1>3, <3>1
    <3>2. CASE o # s
      BY <1>2, <3>2 DEF OrderIInv, ConnectionInv
    <3> QED BY <3>1, <3>2
  <2>3. ASSUME NEW c \in ChargePoints, registry'[c] # NoSession
        PROVE  Of(registry'[c]) = c /\ session'[registry'[c]] # "unused"
    <3>1. CASE registry'[c] = registry[c]
      <4>1. registry[c] \in Sessions
        BY <1>ty, <2>3, <3>1
      <4>2. Of(registry[c]) = c /\ session[registry[c]] # "unused"
        BY <2>3, <3>1 DEF OrderIInv, ConnectionInv
      <4> QED BY <1>1, <1>2, <3>1, <4>1, <4>2
    <3>2. CASE registry'[c] # registry[c]
      <4>1. c = Of(s) /\ registry'[c] \in {s, NoSession}
        BY <1>ty, <3>2 DEF Connect, Break, Cleanup, Register, Unregister
      <4> QED BY <1>1, <1>2, <2>3, <4>1
    <3> QED BY <3>1, <3>2
  <2> QED BY <2>1, <2>2, <2>3 DEF ConnectionInv
<1>6. ASSUME NEW o \in Sessions PROVE QueueInv(o)'
  <2>1. QueueInv(o)
    BY DEF OrderIInv
  <2>2. CASE o # s
    <3>1. session'[o] = session[o] /\ wire'[o] = wire[o]
      BY <1>2, <2>2
    <3> QED BY <2>1, <3>1 DEF QueueInv
  <2>3. CASE o = s
    <3>1. wire'[o] = <<>> /\ (session'[o] = "open" => order[o] = <<>>)
      BY <1>1, <1>2, <1>3, <2>3
    <3>2. InOrder(arrived, <<>>, Of(o))
      BY DEF InOrder
    <3> QED BY <2>1, <3>1, <3>2 DEF QueueInv
  <2> QED BY <2>2, <2>3
<1> QED BY <1>4, <1>5, <1>6 DEF OrderIInv

(* A command that finds a handler is the last in its queue ...              *)
LEMMA DispatchKeepsOrder ==
  ASSUME TypeInv, OrderIInv, NEW k \in Commands, CommandArrives(k)
  PROVE  OrderIInv'
<1> DEFINE c == To(k)
           s == registry[c]
<1>ty. /\ order \in [Sessions -> Seq(Commands)] /\ call \in [Commands -> CallStates]
       /\ registry \in [ChargePoints -> Sessions \cup {NoSession}]
       /\ arrived \in Seq(Commands) /\ c \in ChargePoints
  BY OcppAssumption DEF TypeInv, ServerTypeInv, CallStates
<1>un. UNCHANGED <<session, registry, wire, carriedOut>>
  BY DEF CommandArrives, Dispatch
<1>1. ~In(arrived, k) /\ call[k] = "unsent"
  BY DEF CommandArrives, Dispatch, OrderIInv, ArrivedInv
<1>2. CASE s = NoSession
  <2>1. call' = [call EXCEPT ![k] = "ignored"] /\ UNCHANGED <<order, arrived>>
    BY <1>2 DEF CommandArrives, Dispatch
  <2>2. ArrivedInv'
    <3>1. \A j \in Commands : In(arrived, j) => call'[j] = call[j]
      BY <1>ty, <1>1, <2>1
    <3> QED BY <1>un, <2>1, <3>1 DEF OrderIInv, ArrivedInv
  <2>3. ConnectionInv' /\ ObeyedInOrder'
    BY <1>un, <2>1 DEF OrderIInv, ConnectionInv, ObeyedInOrder
  <2>4. ASSUME NEW o \in Sessions PROVE QueueInv(o)'
    <3>1. QueueInv(o)
      BY DEF OrderIInv
    <3>2. \A i \in DOMAIN order[o] : order[o][i] \in Commands
      BY <1>ty, LenProperties, ElementOfSeq
    <3>3. \A j \in Commands : call'[j] = "queued" => call[j] = "queued"
      BY <1>ty, <2>1
    <3> QED BY <1>un, <2>1, <3>1, <3>2, <3>3 DEF QueueInv
  <2> QED BY <2>2, <2>3, <2>4 DEF OrderIInv
<1>3. CASE s # NoSession
  <2>1. /\ call' = [call EXCEPT ![k] = "queued"] /\ arrived' = Append(arrived, k)
        /\ order' = [order EXCEPT ![s] = Append(order[s], k)]
    BY <1>3 DEF CommandArrives, Dispatch
  <2>2. s \in Sessions /\ Of(s) = c /\ session[s] # "unused"
    BY <1>3, <1>ty DEF OrderIInv, ConnectionInv
  <2>3. order[s] \in Seq(Commands) /\ order'[s] = Append(order[s], k)
        /\ \A o \in Sessions : o # s => order'[o] = order[o]
    BY <1>ty, <2>1, <2>2
  <2> HIDE DEF s
  <2>4. Distinct(arrived)
    BY DEF OrderIInv, ArrivedInv
  <2>5. /\ Distinct(arrived')
        /\ \A j : In(arrived', j) <=> In(arrived, j) \/ j = k
        /\ \A i, j : In(arrived, i) /\ In(arrived, j) /\ Before(arrived, i, j) => Before(arrived', i, j)
    BY <1>ty, <1>1, <2>1, <2>4, ArrivalIs
  <2>6. /\ \A q, d : InOrder(arrived, q, d) => InOrder(arrived', q, d)
        /\ \A q, d, j : (\A i \in DOMAIN q : In(arrived, q[i])) =>
              /\ In(arrived, j) /\ AllBefore(arrived, q, d, j) => AllBefore(arrived', q, d, j)
              /\ AllBefore(arrived', q, d, k)
    BY <1>ty, <1>1, <2>1, <2>4, ArrivalKeepsOrder
  <2>7. \A i \in DOMAIN carriedOut : In(arrived, carriedOut[i])
    BY DEF OrderIInv, ArrivedInv
  <2>8. ArrivedInv'
    <3>1. \A j \in Commands : call'[j] = IF j = k THEN "queued" ELSE call[j]
      BY <1>ty, <2>1
    <3> QED BY <1>un, <2>5, <2>7, <3>1 DEF OrderIInv, ArrivedInv
  <2>9. ConnectionInv'
    <3>1. \A o \in Sessions : session[o] = "unused" => order'[o] = <<>>
      BY <2>2, <2>3 DEF OrderIInv, ConnectionInv
    <3> QED BY <1>un, <3>1 DEF OrderIInv, ConnectionInv
  <2>10. ObeyedInOrder'
    BY <1>un, <2>5, <2>7 DEF OrderIInv, ObeyedInOrder
  <2>11. ASSUME NEW o \in Sessions PROVE QueueInv(o)'
    <3>1. /\ InOrder(arrived, order[o], Of(o)) /\ InOrder(arrived, wire[o], Of(o))
          /\ \A i \in DOMAIN wire[o] : AllBefore(arrived, carriedOut, Of(o), wire[o][i])
          /\ session[o] = "open" =>
               \A i \in DOMAIN order[o] : call[order[o][i]] = "queued" =>
                 /\ AllBefore(arrived, carriedOut, Of(o), order[o][i])
                 /\ AllBefore(arrived, wire[o], Of(o), order[o][i])
      BY DEF OrderIInv, QueueInv
    <3>2. /\ \A i \in DOMAIN order[o] : In(arrived, order[o][i])
          /\ \A i \in DOMAIN wire[o] : In(arrived, wire[o][i])
      BY <3>1 DEF InOrder
    <3>3. InOrder(arrived', wire[o], Of(o)) /\ InOrder(arrived', order[o], Of(o))
      BY <2>6, <3>1
    <3>4. \A i \in DOMAIN wire[o] : AllBefore(arrived', carriedOut, Of(o), wire[o][i])
      BY <2>6, <2>7, <3>1, <3>2
    <3>5. ASSUME session[o] = "open", NEW i \in DOMAIN order[o], call'[order[o][i]] = "queued"
          PROVE  /\ AllBefore(arrived', carriedOut, Of(o), order[o][i])
                 /\ AllBefore(arrived', wire[o], Of(o), order[o][i])
      <4>1. order[o][i] \in Commands /\ order[o][i] # k
        BY <1>ty, <1>1, <3>2, LenProperties, ElementOfSeq
      <4>2. call[order[o][i]] = "queued"
        BY <1>ty, <2>1, <3>5, <4>1
      <4> QED BY <2>6, <2>7, <3>1, <3>2, <3>5, <4>2
    <3>6. CASE o # s
      BY <1>un, <2>3, <3>3, <3>4, <3>5, <3>6 DEF QueueInv
    <3>7. CASE o = s
      <4>1. /\ AllBefore(arrived', order[o], Of(o), k)
            /\ AllBefore(arrived', carriedOut, Of(o), k)
            /\ AllBefore(arrived', wire[o], Of(o), k)
        BY <2>6, <2>7, <3>2
      <4>2. InOrder(arrived', order'[o], Of(o))
        <5>1. In(arrived', k)
          BY <2>5
        <5> QED BY <2>2, <2>3, <3>3, <3>7, <4>1, <5>1, AppendInOrder
      <4>3. \A i \in DOMAIN order'[o] :
               order'[o][i] = k \/ (i \in DOMAIN order[o] /\ order'[o][i] = order[o][i])
        <5>1. /\ Len(order[o]) \in Nat /\ DOMAIN order[o] = 1..Len(order[o])
              /\ DOMAIN order'[o] = 1..Len(order[o])+1
              /\ \A i \in 1..Len(order[o]) : order'[o][i] = order[o][i]
              /\ order'[o][Len(order[o])+1] = k
          BY <2>3, <3>7, AppendIs
        <5> QED BY <5>1
      <4>4. ASSUME session[o] = "open", NEW i \in DOMAIN order'[o], call'[order'[o][i]] = "queued"
            PROVE  /\ AllBefore(arrived', carriedOut, Of(o), order'[o][i])
                   /\ AllBefore(arrived', wire[o], Of(o), order'[o][i])
        <5>1. CASE order'[o][i] = k
          BY <4>1, <5>1
        <5>2. CASE i \in DOMAIN order[o] /\ order'[o][i] = order[o][i]
          BY <3>5, <4>4, <5>2
        <5> QED BY <4>3, <5>1, <5>2
      <4> QED BY <1>un, <3>3, <3>4, <4>2, <4>4 DEF QueueInv
    <3> QED BY <3>6, <3>7
  <2> QED BY <2>8, <2>9, <2>10, <2>11 DEF OrderIInv
<1> QED BY <1>2, <1>3
(* ... the first to be sent, once it holds the call lock ...                *)
LEMMA SendingKeepsOrder ==
  ASSUME TypeInv, OrderIInv, NEW s \in Sessions, NEW k \in Commands, Sending(s, k),
         call'[k] = "calling", session[s] = "open"
  PROVE  OrderIInv'
<1>ty. /\ order[s] \in Seq(Commands) /\ call \in [Commands -> CallStates]
       /\ wire \in [Sessions -> Seq(Commands)] /\ wire[s] \in Seq(Commands)
       /\ order \in [Sessions -> Seq(Commands)]
  BY DEF TypeInv, ServerTypeInv, CallStates
<1>1. /\ UNCHANGED <<session, registry, arrived, carriedOut>>
      /\ wire' = [wire EXCEPT ![s] = Append(wire[s], k)]
      /\ order[s] # <<>> /\ Head(order[s]) = k /\ call[k] = "queued"
  BY DEF Sending, SendCall, Holds
<1>2. call' = [call EXCEPT ![k] = "calling"] /\ UNCHANGED order
  <2>1. CASE Respond(s, k)
    <3>1. call'[k] = "done"
      BY <2>1, <1>ty DEF Respond
    <3> QED BY <3>1
  <2> QED BY <2>1 DEF Sending, SendCall
<1>3. /\ wire'[s] = Append(wire[s], k)
      /\ \A o \in Sessions : o # s => wire'[o] = wire[o]
      /\ \A j \in Commands : call'[j] = IF j = k THEN "calling" ELSE call[j]
  BY <1>ty, <1>1, <1>2
<1>4. ArrivedInv' /\ ConnectionInv' /\ ObeyedInOrder'
  <2>1. ArrivedInv'
    BY <1>1, <1>3 DEF OrderIInv, ArrivedInv
  <2>2. ConnectionInv'
    BY <1>1, <1>2, <1>3 DEF OrderIInv, ConnectionInv
  <2>3. ObeyedInOrder'
    BY <1>1 DEF OrderIInv, ObeyedInOrder
  <2> QED BY <2>1, <2>2, <2>3
<1>5. ASSUME NEW o \in Sessions PROVE QueueInv(o)'
  <2>1. /\ InOrder(arrived, order[o], Of(o)) /\ InOrder(arrived, wire[o], Of(o))
        /\ \A i \in DOMAIN wire[o] : AllBefore(arrived, carriedOut, Of(o), wire[o][i])
        /\ session[o] = "open" =>
             \A i \in DOMAIN order[o] : call[order[o][i]] = "queued" =>
               /\ AllBefore(arrived, carriedOut, Of(o), order[o][i])
               /\ AllBefore(arrived, wire[o], Of(o), order[o][i])
    BY DEF OrderIInv, QueueInv
  <2>2. \A i \in DOMAIN order[o] : order[o][i] \in Commands
    BY <1>ty, LenProperties, ElementOfSeq
  <2>3. \A i \in DOMAIN order[o] :
           call'[order[o][i]] = "queued" => call[order[o][i]] = "queued" /\ order[o][i] # k
    BY <1>3, <2>2
  <2>4. CASE o # s
    BY <1>1, <1>2, <1>3, <2>1, <2>3, <2>4 DEF QueueInv
  <2>5. CASE o = s
    <3>1. 1 \in DOMAIN order[s] /\ order[s][1] = k
      BY <1>ty, <1>1, TailIsShorter
    <3>2. /\ AllBefore(arrived, carriedOut, Of(s), k) /\ AllBefore(arrived, wire[s], Of(s), k)
          /\ In(arrived, k) /\ To(k) = Of(s)
      BY <1>1, <2>1, <2>5, <3>1 DEF InOrder
    <3>3. InOrder(arrived, wire'[s], Of(s))
      BY <1>ty, <1>3, <2>1, <2>5, <3>2, AppendInOrder
    <3>4. \A i \in DOMAIN wire'[s] :
             wire'[s][i] = k \/ (i \in DOMAIN wire[s] /\ wire'[s][i] = wire[s][i])
      <4>1. /\ Len(wire[s]) \in Nat /\ DOMAIN wire[s] = 1..Len(wire[s])
            /\ DOMAIN wire'[s] = 1..Len(wire[s])+1
            /\ \A i \in 1..Len(wire[s]) : wire'[s][i] = wire[s][i]
            /\ wire'[s][Len(wire[s])+1] = k
        BY <1>ty, <1>3, AppendIs
      <4> QED BY <4>1
    <3>5. \A i \in DOMAIN wire'[s] : AllBefore(arrived, carriedOut, Of(s), wire'[s][i])
      BY <2>1, <2>5, <3>2, <3>4
    <3>6. ASSUME NEW i \in DOMAIN order[s], call'[order[s][i]] = "queued"
          PROVE  /\ AllBefore(arrived, carriedOut, Of(s), order[s][i])
                 /\ AllBefore(arrived, wire'[s], Of(s), order[s][i])
      <4>1. call[order[s][i]] = "queued" /\ order[s][i] # k
        BY <2>3, <2>5, <3>6
      <4>2. 1 < i
        <5>1. i \in 1..Len(order[s]) /\ Len(order[s]) \in Nat
          BY <1>ty, LenProperties
        <5> QED BY <5>1, <3>1, <4>1
      <4>3. Before(arrived, k, order[s][i])
        BY <2>1, <2>5, <3>1, <4>2 DEF InOrder
      <4>4. AllBefore(arrived, wire'[s], Of(s), order[s][i])
        BY <1>1, <2>1, <2>5, <3>4, <4>1, <4>3 DEF AllBefore
      <4> QED BY <1>1, <2>1, <2>5, <4>1, <4>4
    <3> QED BY <1>1, <1>2, <2>1, <2>5, <3>3, <3>5, <3>6 DEF QueueInv
  <2> QED BY <2>4, <2>5
<1> QED BY <1>4, <1>5 DEF OrderIInv

(* ... and obeyed in the order in which they were sent.                     *)
LEMMA ObeyingKeepsOrder ==
  ASSUME TypeInv, OrderIInv, NEW s \in Sessions, CarryOut(s)
  PROVE  OrderIInv'
<1> DEFINE k == Head(wire[s])
           n == Len(carriedOut)
<1>ty. /\ wire \in [Sessions -> Seq(Commands)] /\ wire[s] \in Seq(Commands)
       /\ carriedOut \in Seq(Commands)
  BY DEF TypeInv
<1>1. /\ session[s] = "open" /\ wire[s] # <<>>
      /\ UNCHANGED <<session, registry, order, call, arrived>>
      /\ carriedOut' = Append(carriedOut, k)
      /\ wire' = [wire EXCEPT ![s] = Tail(wire[s])]
  BY DEF CarryOut, serverVars
<1>2. /\ Shorter(Tail(wire[s]), wire[s]) /\ 1 \in DOMAIN wire[s] /\ k = wire[s][1]
      /\ \A i \in DOMAIN Tail(wire[s]) :
           i \in Nat /\ i+1 \in DOMAIN wire[s] /\ Tail(wire[s])[i] = wire[s][i+1] /\ 1 < i+1
  BY <1>ty, <1>1, TailIsShorter
<1>3. k \in Commands
  BY <1>ty, <1>1, HeadTailProperties
<1>4. /\ InOrder(arrived, order[s], Of(s)) /\ InOrder(arrived, wire[s], Of(s))
      /\ \A i \in DOMAIN wire[s] : AllBefore(arrived, carriedOut, Of(s), wire[s][i])
      /\ \A i \in DOMAIN order[s] : call[order[s][i]] = "queued" =>
           /\ AllBefore(arrived, carriedOut, Of(s), order[s][i])
           /\ AllBefore(arrived, wire[s], Of(s), order[s][i])
  BY <1>1 DEF OrderIInv, QueueInv
<1>5. In(arrived, k) /\ To(k) = Of(s) /\ AllBefore(arrived, carriedOut, Of(s), k)
  BY <1>2, <1>4 DEF InOrder
<1> HIDE DEF k
<1>6. /\ n \in Nat /\ DOMAIN carriedOut = 1..n /\ DOMAIN carriedOut' = 1..n+1
      /\ \A i \in 1..n : carriedOut'[i] = carriedOut[i]
      /\ carriedOut'[n+1] = k
  BY <1>ty, <1>1, <1>3, AppendIs
<1> HIDE DEF n
<1>7. \A i \in DOMAIN carriedOut' : i \in 1..n \/ i = n+1
  BY <1>6
<1>8. /\ wire'[s] = Tail(wire[s])
      /\ \A o \in Sessions : o # s => wire'[o] = wire[o]
  BY <1>ty, <1>1
<1>9. ArrivedInv'
  <2>1. \A i \in DOMAIN carriedOut' : In(arrived, carriedOut'[i])
    BY <1>5, <1>6, <1>7 DEF OrderIInv, ArrivedInv
  <2> QED BY <1>1, <2>1 DEF OrderIInv, ArrivedInv
<1>10. ConnectionInv'
  <2>1. \A o \in Sessions : session[o] # "open" => wire'[o] = <<>>
    BY <1>1, <1>8 DEF OrderIInv, ConnectionInv
  <2> QED BY <1>1, <2>1 DEF OrderIInv, ConnectionInv
<1>11. ObeyedInOrder'
  <2>1. ASSUME NEW i \in DOMAIN carriedOut', NEW j \in DOMAIN carriedOut',
               i < j, To(carriedOut'[i]) = To(carriedOut'[j])
        PROVE  Before(arrived, carriedOut'[i], carriedOut'[j])
    <3>1. i \in 1..n
      BY <1>6, <2>1
    <3>2. CASE j \in 1..n
      BY <1>6, <2>1, <3>1, <3>2 DEF OrderIInv, ObeyedInOrder
    <3>3. CASE j = n+1
      BY <1>5, <1>6, <2>1, <3>1, <3>3 DEF AllBefore
    <3> QED BY <1>7, <3>2, <3>3
  <2> QED BY <1>1, <2>1 DEF ObeyedInOrder
(* What came after k has still all before it that was obeyed.               *)
<1>12. ASSUME NEW c, NEW j, AllBefore(arrived, carriedOut, c, j),
              c = Of(s) => Before(arrived, k, j)
       PROVE  AllBefore(arrived, carriedOut', c, j)
  BY <1>5, <1>6, <1>7, <1>12 DEF AllBefore
<1>13. ASSUME NEW o \in Sessions PROVE QueueInv(o)'
  <2>1. QueueInv(o)
    BY DEF OrderIInv
  <2>2. CASE o = s
    <3>1. InOrder(arrived, wire'[s], Of(s))
      BY <1>2, <1>4, <1>8, ShorterInOrder
    <3>2. ASSUME NEW i \in DOMAIN wire'[s]
          PROVE  AllBefore(arrived, carriedOut', Of(s), wire'[s][i])
      <4>1. i+1 \in DOMAIN wire[s] /\ wire'[s][i] = wire[s][i+1] /\ 1 < i+1
        BY <1>2, <1>8
      <4>2. Before(arrived, k, wire[s][i+1])
        BY <1>2, <1>4, <4>1 DEF InOrder
      <4> QED BY <1>4, <1>12, <4>1, <4>2
    <3>3. ASSUME NEW i \in DOMAIN order[s], call[order[s][i]] = "queued"
          PROVE  /\ AllBefore(arrived, carriedOut', Of(s), order[s][i])
                 /\ AllBefore(arrived, wire'[s], Of(s), order[s][i])
      <4>1. Before(arrived, k, order[s][i])
        BY <1>2, <1>4, <1>5, <3>3 DEF AllBefore
      <4>2. AllBefore(arrived, carriedOut', Of(s), order[s][i])
        BY <1>4, <1>12, <3>3, <4>1
      <4>3. AllBefore(arrived, wire'[s], Of(s), order[s][i])
        BY <1>2, <1>4, <1>8, <3>3 DEF AllBefore
      <4> QED BY <4>2, <4>3
    <3> QED BY <1>1, <1>4, <2>2, <3>1, <3>2, <3>3 DEF QueueInv
  <2>3. CASE o # s /\ Of(o) = Of(s)
    <3>1. session[o] # "open" /\ wire[o] = <<>>
      BY <1>1, <2>3 DEF OrderIInv, ConnectionInv
    <3> QED BY <1>1, <1>8, <2>1, <2>3, <3>1 DEF QueueInv
  <2>4. CASE Of(o) # Of(s)
    <3>1. wire'[o] = wire[o]
      BY <1>8, <2>4
    <3>2. \A j : AllBefore(arrived, carriedOut, Of(o), j)
                   => AllBefore(arrived, carriedOut', Of(o), j)
      BY <1>12, <2>4
    <3> QED BY <1>1, <2>1, <3>1, <3>2 DEF QueueInv
  <2> QED BY <2>2, <2>3, <2>4
<1> QED BY <1>9, <1>10, <1>11, <1>13 DEF OrderIInv
LEMMA NextOrder ==
  ASSUME TypeInv, OrderIInv, [Next]_vars
  PROVE  OrderIInv'
<1>ty. /\ order \in [Sessions -> Seq(Commands)] /\ call \in [Commands -> CallStates]
       /\ \A s \in Sessions : order[s] \in Seq(Commands)
  BY DEF TypeInv, ServerTypeInv, CallStates
<1>same. \A s \in Sessions : Shorter(order[s], order[s])
  BY <1>ty, SameIsShorter
<1>1. CASE UNCHANGED <<session, registry, order, call, wire, arrived, carriedOut>>
  BY <1>1, <1>ty, <1>same, LeavingKeepsOrder DEF Ahead
<1>2. CASE Connecting \/ Breaking
  BY <1>2, ConnectionKeepsOrder DEF Connecting, Breaking, Connect, Break, Cleanup, callVars
<1>3. ASSUME NEW s \in Sessions, CarryOut(s) PROVE OrderIInv'
  BY <1>3, ObeyingKeepsOrder
<1>4. ASSUME NEW k \in Commands, CommandArrives(k) PROVE OrderIInv'
  BY <1>4, DispatchKeepsOrder
<1>5. ASSUME NEW s \in Sessions, NEW k \in Commands, CommandStep(s, k) PROVE OrderIInv'
  (* A command that is done leaves; one that is called on a dead connection *)
  (* stays where it is.                                                     *)
  <2>1. ASSUME UNCHANGED <<session, registry, wire, arrived, carriedOut>>,
               NEW r, order' = [order EXCEPT ![s] = r], Shorter(r, order[s]), order[s] # <<>>,
               NEW to \in {"calling", "done"}, call[k] \in {"queued", "calling"},
               call' = [call EXCEPT ![k] = to]
        PROVE  OrderIInv'
    <3>1. /\ \A o \in Sessions : order'[o] = IF o = s THEN r ELSE order[o]
          /\ \A j \in Commands : call'[j] = IF j = k THEN to ELSE call[j]
      BY <1>ty, <2>1
    <3>2. \A o \in Sessions : Shorter(order'[o], order[o]) /\ (order[o] = <<>> => order'[o] = <<>>)
      BY <1>same, <2>1, <3>1
    <3>3. \A j \in Commands : Ahead(j)
      BY <2>1, <3>1 DEF Ahead
    <3> QED BY <1>ty, <2>1, <3>2, <3>3, LeavingKeepsOrder
  <2>2. CASE Respond(s, k) /\ Holds(s, k) /\ call[k] \in {"queued", "calling"}
             /\ UNCHANGED <<session, registry, wire, arrived, carriedOut>>
    <3>1. Shorter(Tail(order[s]), order[s])
      BY <1>ty, <2>2, TailIsShorter DEF Holds
    <3> QED BY <2>1, <2>2, <3>1 DEF Respond, Holds
  <2>3. CASE FailMalformed(s, k)
    <3>1. /\ order' = [order EXCEPT ![s] = RemoveFirst(order[s], k)]
          /\ call[k] = "queued" /\ call' = [call EXCEPT ![k] = "done"]
          /\ UNCHANGED <<session, registry, wire, arrived, carriedOut>>
      BY <2>3 DEF FailMalformed, Leave, callVars
    <3>2. order[s] # <<>>
      <4>1. PICK i \in 1..Len(order[s]) : order[s][i] = k
        BY <2>3 DEF FailMalformed, Contains
      <4> QED BY <4>1, EmptySeq
    <3>3. Shorter(RemoveFirst(order[s], k), order[s])
      BY <1>ty, LeftIsShorter
    <3> QED BY <2>1, <3>1, <3>2, <3>3
  <2>4. CASE Answering(s, k) \/ TimingOut(s, k)
    BY <2>2, <2>4 DEF Answering, TimingOut, Answer, Timeout, callVars
  <2>5. CASE Sending(s, k)
    <3>1. CASE Respond(s, k)
      <4>1. call'[k] # "calling"
        BY <1>ty, <3>1 DEF Respond
      <4> QED BY <2>2, <2>5, <3>1, <4>1 DEF Sending, SendCall
    <3>2. CASE call' = [call EXCEPT ![k] = "calling"] /\ UNCHANGED order
      <4>1. call'[k] = "calling"
        BY <1>ty, <3>2
      <4>2. CASE session[s] = "open"
        BY <2>5, <4>1, <4>2, SendingKeepsOrder
      <4>3. CASE session[s] # "open"
        <5>1. /\ UNCHANGED <<session, registry, wire, arrived, carriedOut>>
              /\ order[s] # <<>> /\ call[k] = "queued"
          BY <2>5, <4>3 DEF Sending, SendCall, Holds
        <5>2. order' = [order EXCEPT ![s] = order[s]]
          BY <1>ty, <3>2
        <5> QED BY <1>same, <2>1, <3>2, <5>1, <5>2
      <4> QED BY <4>2, <4>3
    <3> QED BY <2>5, <3>1, <3>2 DEF Sending, SendCall
  <2> QED BY <1>5, <2>3, <2>4, <2>5 DEF CommandStep
<1>6. CASE Published \/ (\E s \in Sessions : StartTransaction(s)) \/ (\E t \in active : EndLocally(t))
           \/ (\E k \in Commands : UserSends(k)) \/ UNCHANGED vars
  BY <1>1, <1>6 DEF Published, StartTransaction, EndLocally, UserSends, vars, serverVars, callVars
<1> QED BY <1>2, <1>3, <1>4, <1>5, <1>6 DEF Next

(* A charge point obeys its commands in the order in which they came from   *)
(* the MQTT client (dispatch_command, ocpp_server.py:235), for any number   *)
(* of commands, connections and reconnections, also when some time out,     *)
(* fail before they are sent or are lost with their connection.             *)
THEOREM CommandsObeyedInOrder == Spec => []CommandsInOrder
<1>1. Init => TypeInv /\ CountedInv /\ OrderIInv
  BY InitTypes, InitOrder
<1>2. TypeInv /\ CountedInv /\ OrderIInv /\ [Next]_vars => (TypeInv /\ CountedInv /\ OrderIInv)'
  BY NextTypes, NextOrder
<1>3. OrderIInv => CommandsInOrder
  BY ObeyedIsCommands DEF OrderIInv
<1> QED BY <1>1, <1>2, <1>3, PTL DEF Spec
=============================================================================
