--------------------------- MODULE TimeBufferProofs ---------------------------
(***************************************************************************)
(* With one writer (the energy buffers) a TimeBuffer stays sorted and       *)
(* implements BufferSpec, for every set of timestamps and values, every age *)
(* and any number of inserts.                                               *)
(***************************************************************************)
EXTENDS TimeBuffer, SortedListProofs

LEMMA ReadingsAreTimed == Timed(Readings)
BY TimesAssumption DEF Timed, Readings, Entry

-----------------------------------------------------------------------------
(* Types are right in every state, however many writers interleave and      *)
(* whatever they do to the order of the list: a writer inside insert_sorted *)
(* holds a reading.                                                         *)
HoldsReading(w) == pc[w] \notin {"idle", "raised"} => entry[w] \in Readings

TypeIInv == TypeInv /\ \A w \in Writers : HoldsReading(w)

LEMMA StepTypes ==
  ASSUME NEW w \in Writers, TypeIInv, Step(w)
  PROVE  TypeIInv'
<1>inv. TypeInv /\ HoldsReading(w) /\ \A u \in Writers : HoldsReading(u)
  BY DEF TypeIInv
<1>holds. ASSUME NEW u \in Writers PROVE HoldsReading(u)'
  <2>1. CASE u # w
    <3>1. pc'[u] = pc[u] /\ entry'[u] = entry[u]
      BY <2>1, <1>inv DEF TypeInv, Step, Insert, Search, Put, AutoCrop, CopySlice, Rebind,
                          Save, Goto
    <3> QED BY <3>1, <1>inv DEF HoldsReading
  <2>2. CASE u = w /\ \E e \in Readings : Insert(w, e)
    BY <2>2, <1>inv DEF Insert, TypeInv, HoldsReading
  <2>3. CASE u = w /\ Save(w)
    BY <2>3, <1>inv DEF Save, Goto, TypeInv, HoldsReading
  <2>4. CASE u = w /\ (Search(w) \/ Put(w) \/ AutoCrop(w) \/ CopySlice(w) \/ Rebind(w))
    <3>1. entry' = entry /\ pc[w] \notin {"idle", "raised"}
      BY <2>4 DEF Search, Put, AutoCrop, CopySlice, Rebind, Searches
    <3> QED BY <2>4, <3>1, <1>inv DEF HoldsReading
  <2> QED BY <2>1, <2>2, <2>3, <2>4 DEF Step
<1> SUFFICES TypeInv'
  BY <1>holds DEF TypeIInv
<1>ty. /\ pc[w] \in Searches \cup
                {"idle", "put", "crop", "slice", "bind", "save", "raised"}
       /\ entry[w] \in Readings \cup {NoEntry} /\ from[w] \in Nat
       /\ to[w] \in Nat \cup {WholeList} /\ found[w] \in [Searches -> Nat]
       /\ cropAt[w] \in Int /\ copied[w] \in Seq(Readings) /\ list \in Seq(Readings)
       /\ now \in 0..MaxNow
  BY <1>inv, MaxNowAssumption DEF TypeInv
<1>found. found[w].idx \in Nat /\ found[w].from_idx \in Nat /\ found[w].to_idx \in Nat
  BY <1>ty DEF Searches
<1>1. CASE \E e \in Readings : Insert(w, e)
  BY <1>1, <1>inv DEF Insert, Goto, TypeInv, Searches
<1>2. CASE Search(w)
  <2> DEFINE call == IndexCall(list, SearchedTs(w), from[w], to[w], InsertIndex)
  <2>1. pc[w] \in Searches /\ UNCHANGED <<list, now, entry, cropAt, copied>>
    BY <1>2 DEF Search
  <2>2. SearchedTs(w) \in Int
    <3>1. entry[w].ts \in Int
      BY <2>1, <1>inv, TimesAssumption DEF HoldsReading, Searches, Readings, Entry
    <3>2. CropFrom(Age, cropAt[w]) \in Int /\ CropTo(cropAt[w]) \in Int
      BY <1>ty, AgeAssumption DEF CropFrom, CropTo
    <3>3. pc[w] = "idx" \/ pc[w] = "from_idx" \/ pc[w] = "to_idx"
      BY <2>1 DEF Searches
    <3> QED BY <3>1, <3>2, <3>3 DEF SearchedTs
  <2>3. IF call.done
        THEN /\ found' = [found EXCEPT ![w][pc[w]] = call.from]
             /\ from' = [from EXCEPT ![w] = 0]
             /\ to' = [to EXCEPT ![w] = WholeList]
             /\ pc' = [pc EXCEPT ![w] = After[pc[w]]]
        ELSE /\ from' = [from EXCEPT ![w] = call.from]
             /\ to' = [to EXCEPT ![w] = call.to]
             /\ UNCHANGED <<found, pc>>
    BY <1>2 DEF Search, Goto
  <2>4. \/ \E i \in Nat : call = Found(i)
        \/ \E i, j \in Nat : call = Again(i, j)
    BY <1>ty, <2>2, IndexCallTypes, ReadingsAreTimed
  <2> HIDE DEF call
  <2>5. After[pc[w]] \in {"put", "to_idx", "slice"}
    BY <2>1 DEF After, Searches
  <2>6. ASSUME NEW i \in Nat, call = Found(i) PROVE TypeInv'
    <3>1. call.done /\ call.from = i
      BY <2>6 DEF Found
    <3>2. /\ found' = [found EXCEPT ![w][pc[w]] = i]
          /\ from' = [from EXCEPT ![w] = 0]
          /\ to' = [to EXCEPT ![w] = WholeList]
          /\ pc' = [pc EXCEPT ![w] = After[pc[w]]]
      BY <3>1, <2>3
    <3> QED BY <3>2, <2>1, <2>5, <1>ty, <1>inv DEF TypeInv, Searches
  <2>7. ASSUME NEW i \in Nat, NEW j \in Nat, call = Again(i, j) PROVE TypeInv'
    <3>1. ~call.done /\ call.from = i /\ call.to = j
      BY <2>7 DEF Again
    <3> QED BY <3>1, <2>1, <2>3, <1>inv DEF TypeInv
  <2> QED BY <2>4, <2>6, <2>7
<1>3. CASE Put(w)
  <2>1. /\ pc[w] = "put" /\ list' = PutAt(list, found[w].idx, entry[w])
        /\ pc' = [pc EXCEPT ![w] = "crop"]
        /\ UNCHANGED <<now, entry, from, to, found, cropAt, copied>>
    BY <1>3 DEF Put, Goto
  <2>2. entry[w] \in Readings
    BY <2>1, <1>inv DEF HoldsReading
  <2>3. list' \in Seq(Readings)
    BY <2>1, <2>2, <1>ty, <1>found, PutAtTypes
  <2> QED BY <2>1, <2>3, <1>inv DEF TypeInv, Searches
<1>4. CASE AutoCrop(w)
  BY <1>4, <1>ty, <1>inv DEF AutoCrop, Goto, TypeInv, Searches
<1>5. CASE CopySlice(w)
  <2> DEFINE slice == Slice(list, found[w].from_idx, found[w].to_idx, CropTo(cropAt[w]))
  <2>1. /\ copied' = [copied EXCEPT ![w] = slice]
        /\ pc' = [pc EXCEPT ![w] = "bind"]
        /\ UNCHANGED <<list, now, entry, from, to, found, cropAt>>
    BY <1>5 DEF CopySlice, Goto
  <2>2. slice \in Seq(Readings)
    BY <1>ty, <1>found, SliceTypes
  <2> HIDE DEF slice
  <2> QED BY <2>1, <2>2, <1>inv DEF TypeInv, Searches
<1>6. CASE Rebind(w)
  BY <1>6, <1>ty, <1>inv DEF Rebind, Goto, TypeInv, Searches
<1>7. CASE Save(w)
  BY <1>7, <1>inv, MaxNowAssumption DEF Save, Goto, TypeInv, Searches, NothingFound
<1> QED BY <1>1, <1>2, <1>3, <1>4, <1>5, <1>6, <1>7 DEF Step

LEMMA InitTypes == Init => TypeIInv
BY MaxNowAssumption DEF Init, TypeInv, TypeIInv, HoldsReading, NothingFound, Searches, WholeList

LEMMA TickTypes ==
  ASSUME TypeIInv, Tick \/ UNCHANGED vars
  PROVE  TypeIInv'
<1>1. CASE Tick
  BY <1>1, MaxNowAssumption DEF Tick, TypeIInv, TypeInv, HoldsReading
<1>2. CASE UNCHANGED vars
  BY <1>2 DEF vars, TypeIInv, TypeInv, HoldsReading
<1> QED BY <1>1, <1>2

(* Every index a search leaves is one, every list and every copy holds      *)
(* readings, whatever the threads that share the buffer do to each other    *)
(* (the stale indexes of a crop are within what Python's slice accepts).    *)
THEOREM TypeCorrect == Spec => []TypeInv
<1>1. TypeIInv /\ [Next]_vars => TypeIInv'
  BY StepTypes, TickTypes DEF Next
<1>2. TypeIInv => TypeInv
  BY DEF TypeIInv
<1> QED BY <1>1, <1>2, InitTypes, PTL DEF Spec

-----------------------------------------------------------------------------
(* The strengthened invariant holds at the start ...                        *)
LEMMA InitIInv == Init => IInv
<1> SUFFICES ASSUME Init PROVE IInv
  OBVIOUS
<1> USE DEF Init
<1>1. TypeInv
  BY MaxNowAssumption DEF TypeInv, NothingFound, Searches, WholeList
<1>2. Sorted
  BY DEF Sorted, StrictlySorted
<1>3. \A w \in Writers : WriterInv(w)
  BY DEF WriterInv, Searches, Cropping
<1> QED BY <1>1, <1>2, <1>3 DEF IInv

(* ... and every step of a writer keeps it while the other writers are out  *)
(* of insert_sorted; it does not raise.                                     *)
Alone(w) == \A u \in Writers \ {w} : pc[u] \in {"idle", "raised"}

LEMMA StepIInv ==
  ASSUME NEW w \in Writers, IInv, Alone(w), Step(w)
  PROVE  IInv' /\ pc'[w] # "raised"
<1>inv. TypeInv /\ Sorted /\ \A u \in Writers : WriterInv(u)
  BY DEF IInv
<1>int. \A r \in Readings : r.ts \in Int
  BY TimesAssumption DEF Readings, Entry
<1>w. WriterInv(w)
  BY <1>inv
<1>others. ASSUME NEW u \in Writers \ {w} PROVE WriterInv(u)'
  <2>1. /\ pc'[u] = pc[u] /\ from'[u] = from[u] /\ to'[u] = to[u]
    BY <1>inv DEF TypeInv, Step, Insert, Search, Put, AutoCrop, CopySlice, Rebind, Save, Goto
  <2>2. pc[u] \in {"idle", "raised"} /\ to[u] = WholeList /\ from[u] = 0
    BY <1>inv DEF WriterInv, Searches, Alone
  <2> QED BY <2>1, <2>2 DEF WriterInv, Searches, Cropping
<1> SUFFICES TypeInv' /\ Sorted' /\ WriterInv(w)' /\ pc'[w] # "raised"
  BY <1>others DEF IInv
<1>ty. /\ pc[w] \in Searches \cup
                {"idle", "put", "crop", "slice", "bind", "save", "raised"}
       /\ entry[w] \in Readings \cup {NoEntry} /\ from[w] \in Nat
       /\ to[w] \in Nat \cup {WholeList} /\ found[w] \in [Searches -> Nat]
       /\ cropAt[w] \in 0..MaxNow /\ cropAt[w] \in Int
       /\ copied[w] \in Seq(Readings) /\ list \in Seq(Readings)
       /\ now \in 0..MaxNow /\ now \in Int
  BY <1>inv, MaxNowAssumption DEF TypeInv
<1>sorted. StrictlySorted(list)
  BY <1>inv DEF Sorted
<1>1. CASE \E e \in Readings : Insert(w, e)
  <2> PICK e \in Readings : Insert(w, e)
    BY <1>1
  <2>1. TypeInv'
    BY <1>inv DEF Insert, Goto, TypeInv, Searches
  <2>2. Sorted'
    BY <1>inv DEF Insert, Sorted
  <2>3. pc'[w] = "idx" /\ entry'[w] = e /\ from'[w] = from[w] /\ to'[w] = to[w]
    BY <1>inv DEF Insert, Goto, TypeInv
  <2>4. WriterInv(w)'
    <3>1. pc[w] = "idle"
      BY DEF Insert
    <3>2. to[w] = WholeList /\ from[w] = 0
      BY <3>1, <1>w DEF WriterInv, Searches
    <3> QED BY <3>2, <2>3 DEF WriterInv, Searches, Cropping
  <2> QED BY <2>1, <2>2, <2>4, <2>3
<1>2. CASE Search(w)
  <2> DEFINE ts == SearchedTs(w)
             call == IndexCall(list, ts, from[w], to[w], InsertIndex)
  <2>pc. pc[w] \in Searches /\ UNCHANGED <<list, now, entry, cropAt, copied>>
    BY <1>2 DEF Search
  <2>ts. ts \in Int
    <3>1. pc[w] = "idx" \/ pc[w] = "from_idx" \/ pc[w] = "to_idx"
      BY <2>pc DEF Searches
    <3>2. CASE pc[w] = "idx"
      BY <3>2, <1>w, <1>int DEF SearchedTs, WriterInv
    <3>3. CASE pc[w] = "from_idx"
      BY <3>3, <1>ty, AgeAssumption DEF SearchedTs, CropFrom
    <3>4. CASE pc[w] = "to_idx"
      BY <3>4, <1>ty DEF SearchedTs, CropTo
    <3> QED BY <3>1, <3>2, <3>3, <3>4
  <2>bounds. IF to[w] = WholeList THEN from[w] = 0
             ELSE Encloses(list, from[w], to[w], ts)
    BY <1>w DEF WriterInv
  <2> HIDE DEF ts
  <2>call. \/ \E i \in Nat : call = Found(i) /\ Divides(list, i, ts)
           \/ \E i, j \in Nat : call = Again(i, j) /\ Encloses(list, i, j, ts)
    BY <1>ty, <1>sorted, <2>ts, <2>bounds, IndexCallIs, InsertIndexDivides, ReadingsAreTimed
  <2>step. IF call.done
           THEN /\ found' = [found EXCEPT ![w][pc[w]] = call.from]
                /\ from' = [from EXCEPT ![w] = 0]
                /\ to' = [to EXCEPT ![w] = WholeList]
                /\ pc' = [pc EXCEPT ![w] = After[pc[w]]]
           ELSE /\ from' = [from EXCEPT ![w] = call.from]
                /\ to' = [to EXCEPT ![w] = call.to]
                /\ UNCHANGED <<found, pc>>
    BY <1>2 DEF Search, Goto, ts
  <2> HIDE DEF call
  <2>sorted. Sorted'
    BY <2>pc, <1>sorted DEF Sorted
  <2>1. CASE \E i \in Nat : call = Found(i) /\ Divides(list, i, ts)
    <3>0. PICK i \in Nat : call = Found(i) /\ Divides(list, i, ts)
      BY <2>1
    <3>1. /\ found' = [found EXCEPT ![w][pc[w]] = i]
          /\ from' = [from EXCEPT ![w] = 0]
          /\ to' = [to EXCEPT ![w] = WholeList]
          /\ pc' = [pc EXCEPT ![w] = After[pc[w]]]
      BY <3>0, <2>step DEF Found
    <3>2. After[pc[w]] \in {"put", "to_idx", "slice"}
      BY <2>pc DEF After, Searches
    <3>3. TypeInv'
      BY <3>1, <3>2, <2>pc, <1>ty, <1>inv DEF TypeInv, Searches
    <3>4. /\ pc'[w] = After[pc[w]] /\ from'[w] = 0 /\ to'[w] = WholeList
          /\ found'[w] = [found[w] EXCEPT ![pc[w]] = i]
      BY <3>1, <1>inv DEF TypeInv
    <3>tf. to'[w] = WholeList /\ from'[w] = 0
      BY <3>4
    <3>5. ASSUME pc[w] = "idx"
         PROVE  WriterInv(w)'
      <4>1. ts = entry[w].ts /\ entry[w] \in Readings
        BY <3>5, <1>w DEF SearchedTs, WriterInv, ts
      <4>2. pc'[w] = "put" /\ found'[w].idx = i
        BY <3>4, <3>5, <1>ty DEF After, Searches
      <4>3. Divides(list', found'[w].idx, entry'[w].ts) /\ entry'[w] \in Readings
        BY <3>0, <4>1, <4>2, <2>pc
      <4> QED BY <3>tf, <4>2, <4>3 DEF WriterInv, Searches, Cropping
    <3>6. ASSUME pc[w] = "from_idx"
         PROVE  WriterInv(w)'
      <4>1. pc'[w] = "to_idx" /\ found'[w].from_idx = i
        BY <3>4, <3>6, <1>ty DEF After, Searches
      <4>2. ts = CropFrom(Age, cropAt[w])
        BY <3>6 DEF SearchedTs, ts
      <4>3. Divides(list', found'[w].from_idx, CropFrom(Age, cropAt'[w]))
        BY <3>0, <4>1, <4>2, <2>pc
      <4>4. /\ entry'[w] \in Readings /\ Age > 0 /\ cropAt'[w] <= now'
            /\ list' # <<>> /\ NeedsCrop(list', Age, cropAt'[w])
        BY <3>6, <1>w, <2>pc DEF WriterInv, Cropping
      <4> QED BY <3>tf, <4>1, <4>3, <4>4 DEF WriterInv, Searches, Cropping
    <3>7. ASSUME pc[w] = "to_idx"
         PROVE  WriterInv(w)'
      <4>1. /\ pc'[w] = "slice" /\ found'[w].to_idx = i
            /\ found'[w].from_idx = found[w].from_idx
        BY <3>4, <3>7, <1>ty DEF After, Searches
      <4>2. ts = CropTo(cropAt[w])
        BY <3>7 DEF SearchedTs, ts
      <4>3. /\ Divides(list', found'[w].to_idx, CropTo(cropAt'[w]))
            /\ Divides(list', found'[w].from_idx, CropFrom(Age, cropAt'[w]))
        BY <3>0, <3>7, <4>1, <4>2, <2>pc, <1>w DEF WriterInv
      <4>4. /\ entry'[w] \in Readings /\ Age > 0 /\ cropAt'[w] <= now'
            /\ list' # <<>> /\ NeedsCrop(list', Age, cropAt'[w])
        BY <3>7, <1>w, <2>pc DEF WriterInv, Cropping
      <4> QED BY <3>tf, <4>1, <4>3, <4>4 DEF WriterInv, Searches, Cropping
    <3>8. WriterInv(w)'
      BY <3>5, <3>6, <3>7, <2>pc DEF Searches
    <3> QED BY <3>3, <3>8, <2>sorted, <3>2, <3>4
  <2>2. CASE \E i, j \in Nat : call = Again(i, j) /\ Encloses(list, i, j, ts)
    <3>0. PICK i \in Nat, j \in Nat : call = Again(i, j) /\ Encloses(list, i, j, ts)
      BY <2>2
    <3>1. /\ from' = [from EXCEPT ![w] = i]
          /\ to' = [to EXCEPT ![w] = j]
          /\ UNCHANGED <<found, pc>>
      BY <3>0, <2>step DEF Again
    <3>2. TypeInv'
      BY <3>1, <2>pc, <1>inv DEF TypeInv
    <3>3. /\ pc'[w] = pc[w] /\ from'[w] = i /\ to'[w] = j /\ found'[w] = found[w]
          /\ j # WholeList
      BY <3>1, <1>inv DEF TypeInv, WholeList
    <3>4. SearchedTs(w)' = ts
      BY <3>1, <2>pc DEF SearchedTs, ts
    <3>5. Encloses(list', i, j, SearchedTs(w)')
      BY <2>pc, <3>0, <3>4
    <3>6. WriterInv(w)'
      BY <3>3, <3>4, <3>5, <2>pc, <1>w DEF WriterInv
    <3> QED BY <3>2, <3>6, <2>sorted, <3>3, <2>pc DEF Searches
  <2> QED BY <2>call, <2>1, <2>2
<1>3. CASE Put(w)
  <2>1. /\ pc[w] = "put" /\ list' = PutAt(list, found[w].idx, entry[w])
        /\ pc' = [pc EXCEPT ![w] = "crop"]
        /\ UNCHANGED <<now, entry, from, to, found, cropAt, copied>>
    BY <1>3 DEF Put, Goto
  <2>2. Divides(list, found[w].idx, entry[w].ts) /\ entry[w] \in Readings
    BY <2>1, <1>w DEF WriterInv
  <2>3. list' \in Seq(Readings) /\ list' # <<>> /\ StrictlySorted(list')
    BY <2>1, <2>2, <1>ty, <1>sorted, PutAtIs, ReadingsAreTimed
  <2>4. TypeInv' /\ Sorted'
    BY <2>1, <2>3, <1>inv DEF TypeInv, Sorted
  <2>5. pc'[w] = "crop"
    BY <2>1, <1>inv DEF TypeInv
  <2>6. to[w] = WholeList /\ from[w] = 0
    BY <2>1, <1>w DEF WriterInv, Searches
  <2>7. WriterInv(w)'
    BY <2>1, <2>2, <2>3, <2>5, <2>6 DEF WriterInv, Searches, Cropping
  <2> QED BY <2>4, <2>7, <2>5
<1>4. CASE AutoCrop(w)
  <2>1. pc[w] = "crop" /\ UNCHANGED <<list, now, entry, from, to, found, copied>>
    BY <1>4 DEF AutoCrop
  <2>2. list # <<>> /\ entry[w] \in Readings /\ to[w] = WholeList /\ from[w] = 0
    BY <2>1, <1>w DEF WriterInv, Searches
  <2>sorted. Sorted'
    BY <2>1, <1>sorted DEF Sorted
  <2>3. CASE NeedsCrop(list, Age, now)
    <3>1. /\ pc' = [pc EXCEPT ![w] = "from_idx"]
          /\ cropAt' = [cropAt EXCEPT ![w] = now]
      BY <1>4, <2>2, <2>3 DEF AutoCrop, Goto
    <3>2. TypeInv'
      BY <2>1, <3>1, <1>inv DEF TypeInv, Searches
    <3>3. pc'[w] = "from_idx" /\ cropAt'[w] = now
      BY <3>1, <1>inv DEF TypeInv
    <3>4. Age > 0 /\ cropAt'[w] <= now' /\ NeedsCrop(list', Age, cropAt'[w])
      BY <2>1, <2>3, <3>3, <1>ty DEF NeedsCrop
    <3>5. WriterInv(w)'
      BY <2>1, <2>2, <3>3, <3>4 DEF WriterInv, Searches, Cropping
    <3> QED BY <2>sorted, <3>2, <3>5, <3>3
  <2>4. CASE ~NeedsCrop(list, Age, now)
    <3>1. pc' = [pc EXCEPT ![w] = "save"] /\ UNCHANGED cropAt
      BY <1>4, <2>2, <2>4 DEF AutoCrop, Goto
    <3>2. TypeInv'
      BY <2>1, <3>1, <1>inv DEF TypeInv, Searches
    <3>3. pc'[w] = "save"
      BY <3>1, <1>inv DEF TypeInv
    <3>4. WriterInv(w)'
      BY <2>1, <2>2, <3>3 DEF WriterInv, Searches, Cropping
    <3> QED BY <2>sorted, <3>2, <3>4, <3>3
  <2> QED BY <2>3, <2>4
<1>5. CASE CopySlice(w)
  <2> DEFINE slice == Slice(list, found[w].from_idx, found[w].to_idx, CropTo(cropAt[w]))
  <2>1. /\ pc[w] = "slice" /\ copied' = [copied EXCEPT ![w] = slice]
        /\ pc' = [pc EXCEPT ![w] = "bind"]
        /\ UNCHANGED <<list, now, entry, from, to, found, cropAt>>
    BY <1>5 DEF CopySlice, Goto
  <2>2. /\ entry[w] \in Readings /\ to[w] = WholeList /\ from[w] = 0
        /\ Age > 0 /\ cropAt[w] <= now /\ list # <<>> /\ NeedsCrop(list, Age, cropAt[w])
        /\ Divides(list, found[w].from_idx, CropFrom(Age, cropAt[w]))
        /\ Divides(list, found[w].to_idx, CropTo(cropAt[w]))
    BY <2>1, <1>w DEF WriterInv, Searches, Cropping
  <2>3. /\ CropFrom(Age, cropAt[w]) \in Int /\ CropTo(cropAt[w]) \in Int
        /\ CropFrom(Age, cropAt[w]) < CropTo(cropAt[w])
    BY <2>2, <1>ty, AgeAssumption DEF CropFrom, CropTo
  <2>4. /\ slice \in Seq(Readings) /\ StrictlySorted(slice)
        /\ Entries(slice) = {e \in Entries(list) : InWindow(e, cropAt[w])}
    BY <2>2, <2>3, <1>ty, <1>sorted, SliceIs, ReadingsAreTimed DEF InWindow
  <2> HIDE DEF slice
  <2>5. TypeInv' /\ Sorted'
    BY <2>1, <2>4, <1>inv DEF TypeInv, Sorted, Searches
  <2>6. pc'[w] = "bind" /\ copied'[w] = slice
    BY <2>1, <1>inv DEF TypeInv
  <2>7. /\ StrictlySorted(copied'[w])
        /\ Entries(copied'[w]) = {e \in Entries(list') : InWindow(e, cropAt'[w])}
    BY <2>1, <2>4, <2>6
  <2>8. WriterInv(w)'
    BY <2>1, <2>2, <2>6, <2>7 DEF WriterInv, Searches, Cropping, InWindow
  <2> QED BY <2>5, <2>8, <2>6
<1>6. CASE Rebind(w)
  <2>1. /\ pc[w] = "bind" /\ list' = copied[w]
        /\ pc' = [pc EXCEPT ![w] = "save"]
        /\ UNCHANGED <<now, entry, from, to, found, cropAt, copied>>
    BY <1>6 DEF Rebind, Goto
  <2>2. /\ StrictlySorted(copied[w]) /\ entry[w] \in Readings
        /\ to[w] = WholeList /\ from[w] = 0
    BY <2>1, <1>w DEF WriterInv, Searches
  <2>3. TypeInv' /\ Sorted'
    BY <2>1, <2>2, <1>ty, <1>inv DEF TypeInv, Sorted, Searches
  <2>4. pc'[w] = "save"
    BY <2>1, <1>inv DEF TypeInv
  <2>5. WriterInv(w)'
    BY <2>1, <2>2, <2>4 DEF WriterInv, Searches, Cropping
  <2> QED BY <2>3, <2>5, <2>4
<1>7. CASE Save(w)
  <2>1. /\ pc[w] = "save" /\ pc' = [pc EXCEPT ![w] = "idle"]
        /\ entry' = [entry EXCEPT ![w] = NoEntry]
        /\ found' = [found EXCEPT ![w] = NothingFound]
        /\ cropAt' = [cropAt EXCEPT ![w] = 0]
        /\ copied' = [copied EXCEPT ![w] = <<>>]
        /\ UNCHANGED <<list, now, from, to>>
    BY <1>7 DEF Save, Goto
  <2>2. to[w] = WholeList /\ from[w] = 0
    BY <2>1, <1>w DEF WriterInv, Searches
  <2>3. TypeInv' /\ Sorted'
    BY <2>1, <1>inv, MaxNowAssumption DEF TypeInv, Sorted, Searches, NothingFound
  <2>4. pc'[w] = "idle"
    BY <2>1, <1>inv DEF TypeInv
  <2>5. WriterInv(w)'
    BY <2>1, <2>2, <2>4 DEF WriterInv, Searches, Cropping
  <2> QED BY <2>3, <2>5, <2>4
<1> QED BY <1>1, <1>2, <1>3, <1>4, <1>5, <1>6, <1>7 DEF Step

(* The clock keeps it, too, whatever the writers do.                        *)
LEMMA TickIInv ==
  ASSUME IInv, Tick \/ UNCHANGED vars
  PROVE  IInv'
<1>inv. TypeInv /\ Sorted /\ \A w \in Writers : WriterInv(w)
  BY DEF IInv
<1>1. CASE UNCHANGED vars
  BY <1>1, <1>inv DEF vars, IInv, TypeInv, Sorted, WriterInv, SearchedTs
<1>2. CASE Tick
  <2>1. TypeInv'
    BY <1>2, <1>inv, MaxNowAssumption DEF Tick, TypeInv
  <2>2. Sorted'
    BY <1>2, <1>inv DEF Tick, Sorted
  <2>3. ASSUME NEW w \in Writers PROVE WriterInv(w)'
    <3>1. cropAt[w] \in Int /\ now \in Int
      BY <1>inv, MaxNowAssumption DEF TypeInv
    <3>2. UNCHANGED <<list, pc, entry, from, to, found, cropAt, copied>> /\ now' = now + 1
      BY <1>2 DEF Tick
    <3>3. SearchedTs(w)' = SearchedTs(w)
      BY <3>2 DEF SearchedTs
    <3>4. WriterInv(w)
      BY <1>inv
    <3>5. cropAt[w] <= now => cropAt'[w] <= now'
      BY <3>1, <3>2
    <3> QED BY <3>2, <3>3, <3>4, <3>5 DEF WriterInv
  <2> QED BY <2>1, <2>2, <2>3 DEF IInv
<1> QED BY <1>1, <1>2

LEMMA NextIInv ==
  ASSUME OneWriter, IInv, [Next]_vars
  PROVE  IInv'
<1>1. ASSUME NEW w \in Writers, Step(w) PROVE IInv'
  BY <1>1, StepIInv DEF OneWriter, Alone
<1> QED BY <1>1, TickIInv DEF Next

-----------------------------------------------------------------------------
(* With one writer every search stays within bounds that enclose what it    *)
(* looks for, an index it found still divides the list when it is used, and *)
(* the copy that crop_interval binds is the window auto_crop asked for.     *)
THEOREM SearchesStayExact ==
  ASSUME OneWriter
  PROVE  Spec => []IInv
<1>1. Init => IInv
  BY InitIInv
<1>2. IInv /\ [Next]_vars => IInv'
  BY NextIInv
<1> QED BY <1>1, <1>2, PTL DEF Spec

(* With one writer thread the list is sorted by timestamp, without          *)
(* duplicates, in every reachable state: what insert_sorted's comment       *)
(* (timebuffer.py:119) says, for the buffers that only paho's thread fills. *)
THEOREM SortedWithOneWriter ==
  ASSUME OneWriter
  PROVE  Spec => []Sorted
<1>1. IInv => Sorted
  BY DEF IInv
<1> QED BY <1>1, SearchesStayExact, PTL

(* A step that finds IInv is a step of BufferSpec or a stutter, whichever    *)
(* writer takes it.                                                         *)
LEMMA StepRefines ==
  ASSUME IInv, [Next]_vars
  PROVE  [Contents!Next]_<<Entries(list), now>>
<1>inv. TypeInv /\ Sorted /\ \A w \in Writers : WriterInv(w)
  BY DEF IInv
<1>ty. list \in Seq(Readings) /\ StrictlySorted(list) /\ now \in 0..MaxNow /\ now \in Int
  BY <1>inv, MaxNowAssumption DEF TypeInv, Sorted
<1>1. CASE UNCHANGED <<list, now>>
  BY <1>1 DEF Entries
<1>2. CASE Tick
  <2>1. Contents!Tick
    BY <1>2 DEF Tick, Contents!Tick, Entries
  <2> QED BY <2>1 DEF Contents!Next
<1>3. ASSUME NEW w \in Writers, Put(w)
      PROVE  Contents!Next
  <2>1. /\ pc[w] = "put" /\ list' = PutAt(list, found[w].idx, entry[w]) /\ UNCHANGED now
    BY <1>3 DEF Put
  <2>2. Divides(list, found[w].idx, entry[w].ts) /\ entry[w] \in Readings
    BY <2>1, <1>inv DEF WriterInv
  <2>3. Entries(list') = {r \in Entries(list) : r.ts # entry[w].ts} \cup {entry[w]}
    BY <2>1, <2>2, <1>ty, PutAtIs, ReadingsAreTimed
  <2>4. Contents!Insert(entry[w]) /\ entry[w] \in Contents!Readings
    BY <2>1, <2>2, <2>3 DEF Contents!Insert, Contents!Readings, Readings, Entry
  <2> QED BY <2>4 DEF Contents!Next
<1>4. ASSUME NEW w \in Writers, Rebind(w)
      PROVE  Contents!Next
  <2>1. pc[w] = "bind" /\ list' = copied[w] /\ UNCHANGED now
    BY <1>4 DEF Rebind
  <2>2. /\ Age > 0 /\ cropAt[w] <= now /\ list # <<>> /\ NeedsCrop(list, Age, cropAt[w])
        /\ Entries(copied[w]) = {e \in Entries(list) : InWindow(e, cropAt[w])}
    BY <2>1, <1>inv DEF WriterInv, Cropping
  <2>3. cropAt[w] \in 0..MaxNow /\ cropAt[w] \in 0..now
    BY <2>2, <1>inv, <1>ty, MaxNowAssumption DEF TypeInv
  <2>4. list[1] \in Entries(list) /\ list[1].ts < cropAt[w] - Age
    <3>1. Len(list) \in Nat /\ Len(list) # 0
      BY <2>2, <1>ty, EmptySeq
    <3>2. 1 \in 1..Len(list)
      BY <3>1
    <3> QED BY <2>2, <3>2 DEF Entries, NeedsCrop
  <2>5. Entries(list') = {r \in Entries(list) : /\ cropAt[w] - Age - 1 <= r.ts
                                                /\ r.ts <= cropAt[w] + 1}
    BY <2>1, <2>2 DEF InWindow, CropFrom, CropTo
  <2>6. Contents!Crop
    BY <2>1, <2>2, <2>3, <2>4, <2>5 DEF Contents!Crop
  <2> QED BY <2>6 DEF Contents!Next
<1>5. ASSUME NEW w \in Writers, Step(w), ~Put(w), ~Rebind(w)
      PROVE  UNCHANGED <<list, now>>
  BY <1>5 DEF Step, Insert, Search, AutoCrop, CopySlice, Save
<1>6. UNCHANGED vars => UNCHANGED <<list, now>>
  BY DEF vars
<1> QED BY <1>1, <1>2, <1>3, <1>4, <1>5, <1>6 DEF Next

(* With one writer a TimeBuffer implements BufferSpec: inserts lose and     *)
(* invent nothing, and cropping drops exactly what lies outside the window  *)
(* auto_crop asked for (timebuffer.py:55-57), whatever the interleaving     *)
(* with the clock.                                                          *)
THEOREM OneWriterImplementsBuffer ==
  ASSUME OneWriter
  PROVE  Spec => ImplementsBuffer
<1>1. Init => IInv
  BY InitIInv
<1>2. IInv /\ [Next]_vars => IInv'
  BY NextIInv
<1>3. Init => Contents!Init
  BY DEF Init, Contents!Init, Entries
<1>4. IInv /\ [Next]_vars => [Contents!Next]_<<Entries(list), now>>
  BY StepRefines
<1> QED BY <1>1, <1>2, <1>3, <1>4, PTL DEF Spec, ImplementsBuffer, Contents!Spec
=============================================================================
