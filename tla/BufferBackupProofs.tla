-------------------------- MODULE BufferBackupProofs --------------------------
(***************************************************************************)
(* The backup of a buffer: types, that a restart leaves a sorted list, and *)
(* that the file is the list when nothing is under way, for any number of  *)
(* insertions, saves and restarts.                                         *)
(***************************************************************************)
EXTENDS BufferBackup, SortedListProofs

LEMMA ItemsAreTimed == Timed(Items) /\ Readings \subseteq Items
BY BackupAssumption DEF Timed, Readings, Items, Entry

-----------------------------------------------------------------------------
(* The types.                                                               *)
Runners == [at : {"none", "open", "dump", "write", "flush"}, live : BOOLEAN,
            left : Seq(Items), dump : Seq(Items), lone : BOOLEAN]

LEMMA NoRunnerType == NoRunner \in Runners /\ [NoRunner EXCEPT !.at = "open", !.lone = TRUE] \in Runners
                      /\ [NoRunner EXCEPT !.at = "open", !.lone = FALSE] \in Runners
<1>1. <<>> \in Seq(Items)
  OBVIOUS
<1> QED BY <1>1 DEF NoRunner, Runners

LEMMA MetTypes ==
  ASSUME NEW run \in [Saves -> Runners]
  PROVE  Met(run) \in [Saves -> Runners]
<1>1. ASSUME NEW r \in Saves PROVE [run[r] EXCEPT !.lone = FALSE] \in Runners
  BY DEF Runners
<1> QED BY <1>1 DEF Met

LEMMA LeftBehindTypes ==
  ASSUME NEW run \in [Saves -> Runners], list \in Seq(Items)
  PROVE  LeftBehind(run) \in [Saves -> Runners]
<1>1. ASSUME NEW r \in Saves
      PROVE  [run[r] EXCEPT !.live = FALSE, !.left = list] \in Runners
  BY DEF Runners
<1> QED BY <1>1 DEF LeftBehind

LEMMA IntervalTypes ==
  ASSUME NEW L \in Seq(Items), NEW lo \in Int, NEW hi \in Int
  PROVE  GetInterval(L, lo, hi) \in Seq(Items)
<1> DEFINE last == IF hi <= 0 THEN L[Len(L)].ts ELSE hi
<1>1. CASE L = <<>>
  BY <1>1 DEF GetInterval
<1>2. CASE L # <<>>
  <2>1. Len(L) \in Nat /\ \A j \in 1..Len(L) : L[j].ts \in Int
    BY TsIsInt, ItemsAreTimed
  <2>2. Len(L) \in 1..Len(L)
    BY <1>2, <2>1, EmptySeq
  <2>3. last \in Int
    BY <2>1, <2>2
  <2>4. GetInterval(L, lo, hi) =
          Slice(L, GetIndex(L, lo, InsertIndex), GetIndex(L, last, InsertIndex), last)
    BY <1>2, Zenon DEF GetInterval
  <2> HIDE DEF last
  <2>5. InsertIndex \in {InsertIndex, ReadIndex}
    OBVIOUS
  <2>6. /\ GetIndex(L, lo, InsertIndex) \in 0..Len(L)
        /\ GetIndex(L, last, InsertIndex) \in 0..Len(L)
    BY <2>3, <2>5, GetIndexInList, ItemsAreTimed
  <2>7. GetIndex(L, lo, InsertIndex) \in Nat /\ GetIndex(L, last, InsertIndex) \in Nat
    BY <2>1, <2>6
  <2> QED BY <2>4, <2>7, SliceTypes
<1> QED BY <1>1, <1>2

LEMMA InsertSortedTypes ==
  ASSUME NEW L \in Seq(Items), NEW e \in Items
  PROVE  InsertSorted(L, e) \in Seq(Items)
<1>1. InsertIndex \in {InsertIndex, ReadIndex} /\ e.ts \in Int /\ Len(L) \in Nat
  BY ItemsAreTimed, TsIsInt DEF Timed
<1>2. GetIndex(L, e.ts, InsertIndex) \in 0..Len(L)
  BY <1>1, GetIndexInList, ItemsAreTimed
<1>3. GetIndex(L, e.ts, InsertIndex) \in Nat
  BY <1>1, <1>2
<1> QED BY <1>3, PutAtTypes DEF InsertSorted

LEMMA CroppedTypes ==
  ASSUME TypeInv
  PROVE  Cropped \in Seq(Items)
<1>1. CropFrom(Age, now) \in Int /\ CropTo(now) \in Int
  BY BackupAssumption DEF TypeInv, CropFrom, CropTo
<1> QED BY <1>1, IntervalTypes DEF TypeInv, Cropped

LEMMA DumpTypes ==
  ASSUME TypeInv, NEW r \in Saves, Len(runner[r].dump) < Len(Dumped(r))
  PROVE  Append(runner[r].dump, Dumped(r)[Len(runner[r].dump) + 1]) \in Seq(Items)
<1>1. runner[r].dump \in Seq(Items) /\ Dumped(r) \in Seq(Items)
  BY DEF TypeInv, Dumped
<1>2. Len(runner[r].dump) \in Nat /\ Len(Dumped(r)) \in Nat
  BY <1>1, LenProperties
<1>3. Len(runner[r].dump) + 1 \in 1..Len(Dumped(r))
  BY <1>2
<1>4. Dumped(r)[Len(runner[r].dump) + 1] \in Items
  BY <1>1, <1>3, ElementOfSeq
<1> QED BY <1>1, <1>4, AppendProperties

(* What the beginning of a text reads as: its entries, with the same        *)
(* timestamps but for one that is cut.                                      *)
Follows(part, dump) ==
  /\ part \in Files
  /\ Len(Sound(part)) <= Len(dump)
  /\ \A i \in 1..Len(Sound(part)) : Sound(part)[i].ts = dump[i].ts

LEMMA BeforeIs ==
  ASSUME NEW dump \in Seq(Items), NEW k \in 1..Len(dump)
  PROVE  /\ SubSeq(dump, 1, k - 1) \in Seq(Items) /\ Len(SubSeq(dump, 1, k - 1)) = k - 1
         /\ \A i \in 1..k-1 : SubSeq(dump, 1, k - 1)[i] = dump[i]
         /\ k \in Nat /\ 1 <= k /\ k <= Len(dump) /\ Len(dump) \in Nat
<1>1. Len(dump) \in Nat
  BY LenProperties
<1>2. k \in Nat /\ 1 <= k /\ k <= Len(dump)
  BY <1>1
<1>3. \A i \in 1..k-1 : dump[i] \in Items
  <2> SUFFICES ASSUME NEW i \in 1..k-1 PROVE dump[i] \in Items
    OBVIOUS
  <2>1. i \in 1..Len(dump)
    BY <1>1, <1>2
  <2> QED BY <2>1, ElementOfSeq
<1>4. k - 1 \in Int /\ 1 \in Int /\ 1 <= (k - 1) + 1
  BY <1>2
<1>5. /\ SubSeq(dump, 1, k - 1) \in Seq(Items)
      /\ Len(SubSeq(dump, 1, k - 1)) = IF 1 <= k - 1 THEN (k - 1) - 1 + 1 ELSE 0
      /\ \A i \in 1..(k - 1) - 1 + 1 : SubSeq(dump, 1, k - 1)[i] = dump[1 + i - 1]
  BY <1>3, <1>4, SubSeqProperties
<1>6. (IF 1 <= k - 1 THEN (k - 1) - 1 + 1 ELSE 0) = k - 1
  BY <1>2
<1>7. (k - 1) - 1 + 1 = k - 1 /\ \A i \in 1..k-1 : 1 + i - 1 = i
  BY <1>2
<1> QED BY <1>1, <1>2, <1>5, <1>6, <1>7

LEMMA CutFollows ==
  ASSUME NEW dump \in Seq(Items), NEW part \in Cuts(dump)
  PROVE  Follows(part, dump)
<1>1. PICK k \in 1..Len(dump) : part \in CutIn(dump, k)
  BY DEF Cuts
<1> DEFINE before == SubSeq(dump, 1, k - 1)
<1>2. /\ before \in Seq(Items) /\ Len(before) = k - 1
      /\ \A i \in 1..k-1 : before[i] = dump[i]
      /\ k \in Nat /\ 1 <= k /\ k <= Len(dump) /\ Len(dump) \in Nat
  BY BeforeIs
<1>3. part \in {[entries |-> before, ending |-> "stump"]}
      \/ part \in {[entries |-> Append(before, e), ending |-> "cut"] : e \in CutEntries}
      \/ part \in {[entries |-> Append(before, e), ending |-> "whole"] : e \in CutValues(dump[k])}
  BY <1>1 DEF CutIn
<1> HIDE DEF before
<1>4. CASE part = [entries |-> before, ending |-> "stump"]
  <2>1. part \in Files
    BY <1>2, <1>4 DEF Files, Endings
  <2>2. Sound(part) = before
    BY <1>4 DEF Sound
  <2> QED BY <1>2, <2>1, <2>2 DEF Follows
<1>5. ASSUME NEW e \in CutEntries, part = [entries |-> Append(before, e), ending |-> "cut"]
      PROVE  Follows(part, dump)
  <2>1. e \in Items
    BY <1>5 DEF CutEntries, Items, Entry
  <2>2. /\ Append(before, e) \in Seq(Items) /\ Len(Append(before, e)) = Len(before) + 1
        /\ \A i \in 1..Len(before) : Append(before, e)[i] = before[i]
    BY <1>2, <2>1, AppendProperties
  <2>3. part \in Files
    BY <1>5, <2>2 DEF Files, Endings
  <2>4. Sound(part) = SubSeq(Append(before, e), 1, Len(Append(before, e)) - 1)
    BY <1>5 DEF Sound
  <2>5. k \in 1..Len(Append(before, e)) /\ Len(Append(before, e)) = k
    BY <1>2, <2>2
  <2>6. /\ Len(Sound(part)) = k - 1
        /\ \A i \in 1..k-1 : Sound(part)[i] = Append(before, e)[i]
    BY <2>2, <2>4, <2>5, BeforeIs
  <2> QED BY <1>2, <2>2, <2>3, <2>6 DEF Follows
<1>6. ASSUME NEW e \in CutValues(dump[k]),
             part = [entries |-> Append(before, e), ending |-> "whole"]
      PROVE  Follows(part, dump)
  <2>1. e \in Items /\ e.ts = dump[k].ts
    <3>1. dump[k] \in Items
      BY <1>2, ElementOfSeq
    <3> QED BY <1>6, <3>1 DEF CutValues, Items, Entry
  <2>2. /\ Append(before, e) \in Seq(Items) /\ Len(Append(before, e)) = k
        /\ \A i \in 1..k-1 : Append(before, e)[i] = before[i]
        /\ Append(before, e)[k] = e
    <3>1. /\ Append(before, e) \in Seq(Items) /\ Len(Append(before, e)) = Len(before) + 1
          /\ \A i \in 1..Len(before) : Append(before, e)[i] = before[i]
          /\ Append(before, e)[Len(before) + 1] = e
      BY <1>2, <2>1, AppendProperties
    <3>2. Len(before) + 1 = k
      BY <1>2
    <3> QED BY <1>2, <3>1, <3>2
  <2>3. part \in Files
    BY <1>6, <2>2 DEF Files, Endings
  <2>4. Sound(part) = Append(before, e)
    BY <1>6 DEF Sound
  <2>5. \A i \in 1..k : i \in 1..k-1 \/ i = k
    BY <1>2
  <2> HIDE DEF Follows
  <2>6. \A i \in 1..k : Append(before, e)[i].ts = dump[i].ts
    BY <1>2, <2>1, <2>2, <2>5
  <2> QED BY <1>2, <2>2, <2>3, <2>4, <2>6 DEF Follows
<1> QED BY <1>3, <1>4, <1>5, <1>6

LEMMA TextTypes ==
  ASSUME NEW dump \in Seq(Items)
  PROVE  Text(dump) \in Files
BY DEF Text, Files, Endings

LEMMA OverlaidTypes ==
  ASSUME NEW old \in Files, NEW text \in Files, NEW new \in Overlaid(old, text)
  PROVE  new \in Files
<1> DEFINE rest == SubSeq(old.entries, Len(text.entries) + 1, Len(old.entries))
<1>1. /\ old.entries \in Seq(Items) /\ text.entries \in Seq(Items)
      /\ old.ending \in Endings /\ text.ending \in Endings
  BY DEF Files
<1>2. Len(old.entries) \in Nat /\ Len(text.entries) \in Nat
  BY <1>1, LenProperties
<1>3. rest \in Seq(Items)
  <2>1. CASE Len(old.entries) < Len(text.entries) + 1
    BY <1>2, <2>1
  <2>2. CASE ~(Len(old.entries) < Len(text.entries) + 1)
    <3>1. \A j \in Len(text.entries)+1..Len(old.entries) : old.entries[j] \in Items
      <4> SUFFICES ASSUME NEW j \in Len(text.entries)+1..Len(old.entries)
                   PROVE  old.entries[j] \in Items
        OBVIOUS
      <4>1. j \in 1..Len(old.entries)
        BY <1>2
      <4> QED BY <1>1, <4>1, ElementOfSeq
    <3> QED BY <1>2, <2>2, <3>1, SubSeqProperties
  <2> QED BY <2>1, <2>2
<1>4. text.entries \o rest \in Seq(Items)
  BY <1>1, <1>3, ConcatProperties
<1>5. PICK e \in {IF rest = <<>> THEN text.ending ELSE old.ending, "unreadable"} :
        new = [entries |-> text.entries \o rest, ending |-> e]
  BY DEF Overlaid
<1>6. e \in Endings
  BY <1>1, <1>5 DEF Endings
<1> HIDE DEF rest
<1> QED BY <1>4, <1>5, <1>6 DEF Files

LEMMA InitBackupTypes == Init => TypeInv
<1> SUFFICES ASSUME Init PROVE TypeInv
  OBVIOUS
<1>1. <<>> \in Seq(Items) /\ Blank \in Files
  BY DEF Blank, Files, Endings
<1>2. [r \in Saves |-> NoRunner] \in [Saves -> Runners]
  BY NoRunnerType
<1>3. 0 \in 0..MaxNow /\ 0 \in 0..MaxReadings /\ 0 \in 0..MaxRestarts
  BY BackupAssumption
<1>4. /\ list = <<>> /\ stump = FALSE /\ inserting = FALSE /\ now = 0 /\ readings = 0 /\ restarts = 0
      /\ file = Blank /\ runner = [r \in Saves |-> NoRunner]
      /\ spoiled = FALSE /\ mixed = FALSE /\ tainted = FALSE
  BY DEF Init
<1> QED BY <1>1, <1>2, <1>3, <1>4 DEF TypeInv, Runners

LEMMA NextBackupTypes ==
  ASSUME TypeInv, [Next]_vars
  PROVE  TypeInv'
<1>ty. /\ list \in Seq(Items) /\ stump \in BOOLEAN /\ inserting \in BOOLEAN
       /\ now \in 0..MaxNow /\ readings \in 0..MaxReadings /\ restarts \in 0..MaxRestarts
       /\ file \in Files
       /\ runner \in [Saves -> Runners]
       /\ spoiled \in BOOLEAN /\ mixed \in BOOLEAN /\ tainted \in BOOLEAN
  BY DEF TypeInv, Runners
<1>1. ASSUME NEW e \in Readings, Insert(e) PROVE TypeInv'
  <2>1. list' \in Seq(Items) /\ runner' \in [Saves -> Runners]
    BY <1>ty, <1>1, InsertSortedTypes, MetTypes, ItemsAreTimed DEF Insert
  <2>2. readings' \in 0..MaxReadings
    BY <1>ty, <1>1, BackupAssumption DEF Insert
  <2> QED BY <1>ty, <1>1, <2>1, <2>2 DEF Insert, TypeInv, Runners
<1>2. ASSUME CropAndSave PROVE TypeInv'
  <2> DEFINE alone == \A r \in Saves : ~Busy(r)
  <2>1. list' \in Seq(Items)
    BY <1>2, CroppedTypes DEF CropAndSave
  <2>2. Met(LeftBehind(runner)) \in [Saves -> Runners]
    BY <1>ty, LeftBehindTypes, MetTypes
  <2>3. CASE alone
    <3>1. runner' = [Met(LeftBehind(runner)) EXCEPT
                       ![readings] = [NoRunner EXCEPT !.at = "open", !.lone = TRUE]]
      BY <1>2, <2>3 DEF CropAndSave
    <3>2. runner' \in [Saves -> Runners]
      BY <2>2, <3>1, NoRunnerType
    <3>3. spoiled' \in BOOLEAN
      BY <1>2 DEF CropAndSave
    <3> QED BY <1>ty, <1>2, <2>1, <3>2, <3>3 DEF CropAndSave, TypeInv, Runners
  <2>4. CASE ~alone
    <3>1. runner' = [Met(LeftBehind(runner)) EXCEPT
                       ![readings] = [NoRunner EXCEPT !.at = "open", !.lone = FALSE]]
      BY <1>2, <2>4 DEF CropAndSave
    <3>2. runner' \in [Saves -> Runners]
      BY <2>2, <3>1, NoRunnerType
    <3>3. spoiled' \in BOOLEAN
      BY <1>2 DEF CropAndSave
    <3> QED BY <1>ty, <1>2, <2>1, <3>2, <3>3 DEF CropAndSave, TypeInv, Runners
  <2> QED BY <2>3, <2>4
<1>3. ASSUME NEW r \in Saves, Open(r) PROVE TypeInv'
  <2>1. runner' \in [Saves -> Runners]
    BY <1>ty, <1>3 DEF Open, Runners
  <2>2. file' \in Files
    BY <1>3 DEF Open, Truncated, Blank, Files, Endings
  <2> QED BY <1>ty, <1>3, <2>1, <2>2 DEF Open, TypeInv, Runners
<1>4. ASSUME NEW r \in Saves, Dump(r) PROVE TypeInv'
  <2>1. runner' \in [Saves -> Runners]
    <3>1. CASE Len(runner[r].dump) < Len(Dumped(r))
      <4> DEFINE longer == Append(runner[r].dump, Dumped(r)[Len(runner[r].dump) + 1])
      <4>1. longer \in Seq(Items)
        BY <3>1, DumpTypes
      <4>2. runner' = [runner EXCEPT ![r].dump = longer]
        BY <1>ty, <1>4, <3>1 DEF Dump
      <4> HIDE DEF longer
      <4> QED BY <1>ty, <4>1, <4>2 DEF Runners
    <3>2. CASE ~(Len(runner[r].dump) < Len(Dumped(r)))
      BY <1>ty, <1>4, <3>2 DEF Dump, Runners
    <3> QED BY <3>1, <3>2
  <2> QED BY <1>ty, <1>4, <2>1 DEF Dump, TypeInv, Runners
<1>w. ASSUME NEW r \in Saves, WritePart(r) PROVE TypeInv'
  <2>1. runner[r].dump \in Seq(Items)
    BY <1>ty DEF Runners
  <2>2. \A part \in Cuts(runner[r].dump) : part \in Files
    BY <2>1, CutFollows DEF Follows
  <2>3. file' \in Files
    <3>1. CASE file = Blank
      BY <1>w, <2>2, <3>1 DEF WritePart
    <3>2. CASE file # Blank
      <4>1. PICK part \in Cuts(runner[r].dump) : file' \in Overlaid(file, part)
        BY <1>w, <3>2 DEF WritePart
      <4> QED BY <1>ty, <2>2, <4>1, OverlaidTypes
    <3> QED BY <3>1, <3>2
  <2>4. runner' \in [Saves -> Runners]
    BY <1>ty, <1>w DEF WritePart, Runners
  <2>5. mixed' \in BOOLEAN
    BY <1>w DEF WritePart
  <2> QED BY <1>ty, <1>w, <2>3, <2>4, <2>5 DEF WritePart, TypeInv, Runners
<1>5. ASSUME NEW r \in Saves, Write(r) PROVE TypeInv'
  <2>1. file' \in Files
    <3>1. runner[r].dump \in Seq(Items)
      BY <1>ty DEF Runners
    <3>2. file' = Text(runner[r].dump) \/ file' \in Overlaid(file, Text(runner[r].dump))
      BY <1>5 DEF Write
    <3> QED BY <1>ty, <3>1, <3>2, TextTypes, OverlaidTypes
  <2>2. runner' \in [Saves -> Runners]
    BY <1>ty, <1>5, NoRunnerType DEF Write
  <2>3. mixed' \in BOOLEAN /\ spoiled' \in BOOLEAN
    BY <1>5 DEF Write
  <2> QED BY <1>ty, <1>5, <2>1, <2>2, <2>3 DEF Write, TypeInv, Runners
<1>6. ASSUME NEW r \in Saves, Fail(r) PROVE TypeInv'
  <2>1. runner' \in [Saves -> Runners]
    BY <1>ty, <1>6, NoRunnerType DEF Fail
  <2> QED BY <1>ty, <1>6, <2>1 DEF Fail, TypeInv, Runners
<1>7. ASSUME Restart PROVE TypeInv'
  <2>1. list' \in Seq(Items) /\ stump' \in BOOLEAN
    <3>1. file.entries \in Seq(Items) /\ <<>> \in Seq(Items)
      BY <1>ty DEF Files
    <3> QED BY <1>7, <3>1 DEF Restart, Restored
  <2>2. runner' \in [Saves -> Runners]
    BY <1>7, NoRunnerType DEF Restart
  <2>3. restarts' \in 0..MaxRestarts
    BY <1>ty, <1>7, BackupAssumption DEF Restart
  <2>4. spoiled' \in BOOLEAN /\ tainted' \in BOOLEAN
    BY <1>7 DEF Restart
  <2> QED BY <1>ty, <1>7, <2>1, <2>2, <2>3, <2>4 DEF Restart, TypeInv, Runners
<1>8. CASE Tick
  <2>1. now' \in 0..MaxNow
    BY <1>ty, <1>8, BackupAssumption DEF Tick
  <2> QED BY <1>ty, <1>8, <2>1 DEF Tick, TypeInv, Runners
<1>e. CASE EndWithoutSave
  BY <1>ty, <1>e DEF EndWithoutSave, TypeInv, Runners
<1>9. CASE UNCHANGED vars
  BY <1>9 DEF vars, TypeInv
<1> QED BY <1>1, <1>2, <1>3, <1>4, <1>w, <1>5, <1>6, <1>7, <1>8, <1>e, <1>9 DEF Next

(* The buffer and its file hold readings, whatever saves run into one       *)
(* another or die (timebuffer.py save, save_runner, restore).               *)
THEOREM BackupTypeCorrect == Spec => []TypeInv
BY InitBackupTypes, NextBackupTypes, PTL DEF Spec

-----------------------------------------------------------------------------
(* What is known of a save that nothing has happened to since it began: no  *)
(* insertion and no other save is under way, it dumps the live list from    *)
(* its start, and once it has opened the file, nothing but a part of its    *)
(* text is there.                                                           *)
CopiesSoFar(dump) ==
  Len(dump) <= Len(list) /\ \A i \in 1..Len(dump) : dump[i] = list[i]

LoneInv(r) ==
  /\ ~inserting /\ runner[r].live
  /\ \A q \in Saves \ {r} : ~Busy(q)
  /\ CopiesSoFar(runner[r].dump)
  /\ runner[r].at \in {"write", "flush"} => runner[r].dump = list
  /\ runner[r].at \in {"dump", "write"} => file = Blank
  /\ runner[r].at = "flush" => file \in Cuts(list)
  /\ runner[r].at # "open" => ~mixed

(* An insertion has been counted; a save that is not alone has spoiled the  *)
(* file, or an insertion, whose own save is to come, has met it.            *)
RunnersInv ==
  /\ inserting => readings > 0
  /\ \A r \in Saves : Busy(r) /\ runner[r].lone => LoneInv(r)
  /\ \A r \in Saves : Busy(r) /\ ~spoiled /\ ~inserting => runner[r].lone

SortedInv ==
  /\ ~tainted => StrictlySorted(list) /\ ~stump
  /\ ~tainted /\ ~mixed => StrictlySorted(Sound(file))

BackupIInv == TypeInv /\ RunnersInv /\ BackupIsCurrent /\ SortedInv
-----------------------------------------------------------------------------
(* What the invariant's parts need of the operators.                        *)
LEMMA EmptyIsSorted == StrictlySorted(<<>>)
BY DEF StrictlySorted

LEMMA InsertSortedKeepsOrder ==
  ASSUME NEW L \in Seq(Items), StrictlySorted(L), NEW e \in Items
  PROVE  StrictlySorted(InsertSorted(L, e))
<1>1. e.ts \in Int
  BY ItemsAreTimed DEF Timed
<1>2. Divides(L, GetIndex(L, e.ts, InsertIndex), e.ts)
  BY <1>1, GetIndexDivides, ItemsAreTimed
<1> QED BY <1>2, PutAtIs, ItemsAreTimed DEF InsertSorted

LEMMA CropKeepsOrder ==
  ASSUME TypeInv, StrictlySorted(list)
  PROVE  StrictlySorted(Cropped)
<1> DEFINE lo == CropFrom(Age, now)
           hi == CropTo(now)
<1>1. CASE ~NeedsCrop(list, Age, now)
  BY <1>1 DEF Cropped
<1>2. CASE NeedsCrop(list, Age, now) /\ list = <<>>
  BY <1>2, EmptyIsSorted DEF Cropped, GetInterval
<1>3. CASE NeedsCrop(list, Age, now) /\ list # <<>>
  <2>1. list \in Seq(Items) /\ lo \in Int /\ hi \in Int /\ lo < hi /\ ~(hi <= 0)
    BY <1>3, BackupAssumption DEF TypeInv, NeedsCrop, CropFrom, CropTo
  <2>2. Cropped = Slice(list, GetIndex(list, lo, InsertIndex),
                              GetIndex(list, hi, InsertIndex), hi)
    <3>1. Cropped = GetInterval(list, lo, hi)
      BY <1>3 DEF Cropped
    <3> HIDE DEF lo, hi
    <3>2. GetInterval(list, lo, hi) =
            LET last == IF hi <= 0 THEN list[Len(list)].ts ELSE hi
            IN  Slice(list, GetIndex(list, lo, InsertIndex), GetIndex(list, last, InsertIndex), last)
      BY <1>3, Zenon DEF GetInterval
    <3>3. (IF hi <= 0 THEN list[Len(list)].ts ELSE hi) = hi
      BY <2>1
    <3> QED BY <3>1, <3>2, <3>3, Zenon
  <2> HIDE DEF lo, hi
  <2>3. /\ Divides(list, GetIndex(list, lo, InsertIndex), lo)
        /\ Divides(list, GetIndex(list, hi, InsertIndex), hi)
    BY <2>1, GetIndexDivides, ItemsAreTimed
  <2> QED BY <2>1, <2>2, <2>3, SliceIs, ItemsAreTimed
<1> QED BY <1>1, <1>2, <1>3

LEMMA FollowsKeepsOrder ==
  ASSUME NEW L \in Seq(Items), StrictlySorted(L), NEW part, Follows(part, L)
  PROVE  StrictlySorted(Sound(part))
<1> DEFINE S == Sound(part)
<1>1. Len(L) \in Nat /\ Len(S) \in Nat /\ Len(S) <= Len(L)
  <2>1. part.entries \in Seq(Items) /\ Len(part.entries) \in Nat
    BY LenProperties DEF Follows, Files
  <2>2. Sound(part) \in Seq(Items)
    <3>1. \A j \in 1..Len(part.entries)-1 : part.entries[j] \in Items
      BY <2>1, ElementOfSeq
    <3>3. SubSeq(part.entries, 1, Len(part.entries) - 1) \in Seq(Items)
      <4>1. CASE Len(part.entries) = 0
        BY <2>1, <4>1
      <4>2. CASE Len(part.entries) # 0
        <5>1. Len(part.entries) - 1 \in Int /\ 1 <= (Len(part.entries) - 1) + 1
          BY <2>1, <4>2
        <5> QED BY <3>1, <5>1, SubSeqProperties
      <4> QED BY <4>1, <4>2
    <3> QED BY <2>1, <3>3 DEF Sound
  <2> QED BY <2>2, LenProperties DEF Follows
<1>2. \A i \in 1..Len(S) : i \in 1..Len(L) /\ S[i].ts = L[i].ts
  BY <1>1 DEF Follows
<1> HIDE DEF S
<1>3. StrictlySorted(S)
  BY <1>1, <1>2 DEF StrictlySorted
<1> QED BY <1>3 DEF S

LEMMA BlankOrder == StrictlySorted(Sound(Blank))
BY EmptyIsSorted DEF Sound, Blank

(* A save that is alone writes the list, and nothing else: at once, or in   *)
(* parts.                                                                   *)
LEMMA LoneWrites ==
  ASSUME TypeInv, RunnersInv, NEW r \in Saves, Write(r), runner[r].lone
  PROVE  /\ file' = Text(list)
         /\ ~inserting /\ \A q \in Saves \ {r} : ~Busy(q)
<1>1. Busy(r) /\ runner[r].at \in {"write", "flush"}
  BY DEF Write, Busy
<1>2. LoneInv(r)
  BY <1>1 DEF RunnersInv
<1>3. /\ runner[r].dump = list
      /\ IF runner[r].at = "write" THEN file = Blank ELSE file \in Cuts(list)
  BY <1>1, <1>2 DEF LoneInv
<1>4. file' = Text(list)
  BY <1>3 DEF Write
<1> QED BY <1>2, <1>4 DEF LoneInv

LEMMA LoneWritesPart ==
  ASSUME TypeInv, RunnersInv, NEW r \in Saves, WritePart(r), runner[r].lone
  PROVE  /\ LoneInv(r) /\ file' \in Cuts(list) /\ Follows(file', list)
         /\ mixed' = FALSE
<1>1. Busy(r) /\ runner[r].at = "write"
  BY DEF WritePart, Busy
<1>2. LoneInv(r)
  BY <1>1 DEF RunnersInv
<1>3. runner[r].dump = list /\ file = Blank /\ mixed = FALSE
  BY <1>1, <1>2 DEF LoneInv, TypeInv
<1>4. file' \in Cuts(list) /\ mixed' = FALSE
  BY <1>3 DEF WritePart
<1> QED BY <1>2, <1>4, CutFollows DEF TypeInv

LEMMA NextSorted ==
  ASSUME TypeInv, RunnersInv, SortedInv, [Next]_vars
  PROVE  SortedInv'
<1>1. ASSUME NEW e \in Readings, Insert(e) PROVE SortedInv'
  <2>1. list' = InsertSorted(list, e) /\ UNCHANGED <<stump, tainted, mixed, file>>
    BY <1>1 DEF Insert
  <2>2. StrictlySorted(list) => StrictlySorted(list')
    BY <2>1, InsertSortedKeepsOrder, ItemsAreTimed DEF TypeInv
  <2> QED BY <2>1, <2>2 DEF SortedInv
<1>2. CASE CropAndSave
  <2>1. list' = Cropped /\ UNCHANGED <<stump, tainted, mixed, file>>
    BY <1>2 DEF CropAndSave
  <2>2. StrictlySorted(list) => StrictlySorted(list')
    BY <2>1, CropKeepsOrder
  <2> QED BY <2>1, <2>2 DEF SortedInv
<1>3. ASSUME NEW r \in Saves, Open(r) PROVE SortedInv'
  <2>1. file' = Blank /\ UNCHANGED <<tainted, list, stump>>
    BY <1>3 DEF Open, Truncated
  <2> QED BY <2>1, BlankOrder DEF SortedInv
<1>w. ASSUME NEW r \in Saves, WritePart(r) PROVE SortedInv'
  <2>1. UNCHANGED <<list, stump, tainted>> /\ (~mixed' => runner[r].lone)
    BY <1>w DEF WritePart
  <2>2. ~mixed' => Follows(file', list)
    BY <1>w, <2>1, LoneWritesPart
  <2>3. ~mixed' /\ ~tainted => StrictlySorted(Sound(file'))
    BY <2>2, FollowsKeepsOrder DEF SortedInv, TypeInv
  <2> QED BY <2>1, <2>3 DEF SortedInv, Sound
<1>4. ASSUME NEW r \in Saves, Write(r) PROVE SortedInv'
  <2>1. UNCHANGED <<list, stump, tainted>> /\ (~mixed' => runner[r].lone)
    BY <1>4 DEF Write
  <2>2. ~mixed' => file' = Text(list)
    BY <1>4, <2>1, LoneWrites
  <2>3. ~stump => Sound(Text(list)) = list
    BY DEF Text, Sound
  <2>4. ~mixed' /\ ~tainted => StrictlySorted(Sound(file'))
    BY <2>2, <2>3 DEF SortedInv
  <2> QED BY <2>1, <2>4 DEF SortedInv, Sound
<1>5. ASSUME NEW r \in Saves, Dump(r) \/ Fail(r) PROVE SortedInv'
  BY <1>5 DEF Dump, Fail, SortedInv, Sound
<1>6. CASE Restart
  <2>1. ~tainted' => ~tainted /\ ~mixed /\ file.ending # "cut" /\ file.ending # "stump"
    BY <1>6 DEF Restart
  <2>2. /\ list' = IF file.ending = "unreadable" THEN <<>> ELSE file.entries
        /\ stump' = (file.ending = "stump")
    BY <1>6 DEF Restart, Restored
  <2>3. ~tainted' => Sound(file) = file.entries
    BY <2>1 DEF Sound
  <2>4. ~tainted' => StrictlySorted(list') /\ ~stump'
    BY <2>1, <2>2, <2>3, EmptyIsSorted DEF SortedInv
  <2>5. UNCHANGED <<file, mixed>>
    BY <1>6 DEF Restart
  <2> QED BY <2>1, <2>4, <2>5 DEF SortedInv, Sound
<1>7. CASE Tick \/ EndWithoutSave \/ UNCHANGED vars
  BY <1>7 DEF Tick, EndWithoutSave, vars, SortedInv, Sound
<1> QED BY <1>1, <1>2, <1>3, <1>w, <1>4, <1>5, <1>6, <1>7 DEF Next
-----------------------------------------------------------------------------
(* What becomes of the saves under way.                                     *)
LEMMA RunnerTypes ==
  ASSUME TypeInv
  PROVE  /\ runner \in [Saves -> Runners] /\ list \in Seq(Items) /\ Len(list) \in Nat
         /\ readings \in Int
         /\ \A r \in Saves : runner[r].dump \in Seq(Items) /\ Len(runner[r].dump) \in Nat
<1>1. runner \in [Saves -> Runners] /\ list \in Seq(Items) /\ readings \in 0..MaxReadings
  BY DEF TypeInv, Runners
<1>2. \A r \in Saves : runner[r].dump \in Seq(Items)
  BY <1>1 DEF Runners
<1> QED BY <1>1, <1>2, BackupAssumption, LenProperties

LEMMA MetIs ==
  ASSUME NEW run \in [Saves -> Runners], NEW r \in Saves
  PROVE  /\ Met(run)[r].at = run[r].at
         /\ Busy(r) => ~Met(run)[r].lone
<1>1. run[r] \in Runners /\ [run[r] EXCEPT !.lone = FALSE].at = run[r].at
      /\ ~[run[r] EXCEPT !.lone = FALSE].lone
  BY DEF Runners
<1> QED BY <1>1 DEF Met

LEMMA LeftBehindIs ==
  ASSUME NEW run \in [Saves -> Runners], NEW r \in Saves
  PROVE  LeftBehind(run)[r].at = run[r].at
<1>1. [run[r] EXCEPT !.live = FALSE, !.left = list].at = run[r].at
  BY DEF Runners
<1> QED BY <1>1 DEF LeftBehind

LEMMA LoneIsAlone ==
  ASSUME RunnersInv, NEW r \in Saves, NEW q \in Saves, q # r, Busy(r), Busy(q)
  PROVE  ~runner[r].lone /\ ~runner[q].lone
BY DEF RunnersInv, LoneInv

(* The save that an insertion starts is alone if no other is under way.     *)
LEMMA CropKeepsRunners ==
  ASSUME TypeInv, RunnersInv, CropAndSave
  PROVE  RunnersInv' /\ ~Quiet'
<1> DEFINE alone == \A r \in Saves : ~Busy(r)
           base == Met(LeftBehind(runner))
           new == [NoRunner EXCEPT !.at = "open", !.lone = alone]
<1>1. /\ runner' = [base EXCEPT ![readings] = new]
      /\ inserting /\ inserting' = FALSE /\ readings' = readings
  BY DEF CropAndSave
<1>2. base \in [Saves -> Runners]
  BY RunnerTypes, LeftBehindTypes, MetTypes
<1>3. readings \in Saves
  BY <1>1 DEF RunnersInv, TypeInv, Saves
<1>4. /\ runner'[readings] = new
      /\ \A q \in Saves \ {readings} : runner'[q] = base[q]
  BY <1>1, <1>2, <1>3
<1>5. /\ new.at = "open" /\ new.live /\ new.dump = <<>> /\ (new.lone <=> alone)
  BY DEF NoRunner
<1>6. ASSUME NEW q \in Saves \ {readings}
      PROVE  /\ Busy(q)' <=> Busy(q)
             /\ Busy(q) => ~(runner'[q].lone)
  <2>1. base[q].at = runner[q].at /\ (Busy(q) => ~base[q].lone)
    BY RunnerTypes, LeftBehindTypes, LeftBehindIs, MetIs
  <2> QED BY <1>4, <2>1 DEF Busy
<1> HIDE DEF base, new
<1>7. Busy(readings)' /\ readings \in Saves'
  BY <1>1, <1>3, <1>4, <1>5 DEF Busy, Saves
<1>8. ASSUME NEW r \in Saves, Busy(r)', runner'[r].lone PROVE LoneInv(r)'
  <2>1. r = readings
    BY <1>6, <1>8
  <2>2. alone
    BY <1>4, <1>5, <1>8, <2>1
  <2>3. \A q \in Saves \ {r} : ~(Busy(q)')
    BY <1>6, <2>1, <2>2
  <2>4. CopiesSoFar(<<>>)'
    <3>1. list' \in Seq(Items)
      BY CroppedTypes DEF CropAndSave
    <3>2. Len(list') \in Nat /\ Len(<<>>) = 0
      BY <3>1, LenProperties, EmptySeq
    <3> QED BY <3>2 DEF CopiesSoFar
  <2> QED BY <1>1, <1>4, <1>5, <2>1, <2>3, <2>4 DEF LoneInv, Saves
<1>9. ASSUME NEW r \in Saves, Busy(r)', ~spoiled' PROVE runner'[r].lone
  <2>1. alone
    BY <1>9 DEF CropAndSave
  <2>2. r = readings
    BY <1>6, <1>9, <2>1
  <2> QED BY <1>4, <1>5, <2>1, <2>2
<1> QED BY <1>1, <1>7, <1>8, <1>9 DEF RunnersInv, Quiet, Saves

(* A save that is alone stays so while it opens the file, dumps the list    *)
(* and writes the beginning.                                                *)
LEMMA SavingKeepsRunners ==
  ASSUME TypeInv, RunnersInv, NEW r \in Saves, Open(r) \/ Dump(r) \/ WritePart(r)
  PROVE  RunnersInv' /\ ~Quiet'
<1>ty. /\ runner \in [Saves -> Runners] /\ list \in Seq(Items) /\ Len(list) \in Nat
       /\ runner[r].dump \in Seq(Items) /\ Len(runner[r].dump) \in Nat
  BY RunnerTypes
<1>1. /\ Busy(r) /\ UNCHANGED <<list, inserting, readings, spoiled>>
      /\ \A q \in Saves \ {r} : runner'[q] = runner[q]
  BY <1>ty DEF Open, Dump, WritePart, Busy
<1>2. /\ Busy(r)' /\ runner'[r].lone = runner[r].lone /\ runner'[r].live = runner[r].live
  BY <1>ty DEF Open, Dump, WritePart, Busy, Runners
<1>3. ASSUME NEW q \in Saves, Busy(q)', runner'[q].lone PROVE LoneInv(q)'
  <2>1. q = r
    BY <1>1, <1>2, <1>3, LoneIsAlone DEF Busy
  <2>2. LoneInv(r) /\ runner[r].lone
    BY <1>1, <1>2, <1>3, <2>1 DEF RunnersInv
  <2>3. /\ ~inserting' /\ runner'[r].live /\ \A p \in Saves \ {r} : ~(Busy(p)')
    BY <1>1, <1>2, <2>2 DEF LoneInv, Busy
  <2>4. CASE Open(r)
    <3>1. runner'[r].at = "dump" /\ runner'[r].dump = runner[r].dump
          /\ file' = Blank /\ ~mixed'
      BY <1>ty, <2>4 DEF Open, Truncated, Runners
    <3>2. CopiesSoFar(runner[r].dump)'
      BY <1>1, <2>2, <3>1 DEF LoneInv, CopiesSoFar
    <3> QED BY <2>1, <2>3, <3>1, <3>2 DEF LoneInv, Saves, Blank
  <2>5. CASE Dump(r) /\ Len(runner[r].dump) < Len(Dumped(r))
    <3> DEFINE longer == Append(runner[r].dump, list[Len(runner[r].dump) + 1])
    <3>1. Dumped(r) = list
      BY <2>2 DEF LoneInv, Dumped
    <3>2. runner' = [runner EXCEPT ![r].dump = longer]
      BY <1>ty, <2>5, <3>1 DEF Dump
    <3>3. runner'[r].at = "dump" /\ runner'[r].dump = longer
      <4> HIDE DEF longer
      <4> QED BY <1>ty, <2>5, <3>2 DEF Dump, Runners
    <3>4. file = Blank /\ ~mixed /\ UNCHANGED <<file, mixed>>
      BY <2>2, <2>5 DEF Dump, LoneInv
    <3>5. CopiesSoFar(longer)
      <4>1. Len(runner[r].dump) + 1 \in 1..Len(list)
        BY <1>ty, <2>5, <3>1
      <4>2. list[Len(runner[r].dump) + 1] \in Items
        BY <1>ty, <4>1, ElementOfSeq
      <4>3. /\ Len(longer) = Len(runner[r].dump) + 1
            /\ \A i \in 1..Len(runner[r].dump) : longer[i] = runner[r].dump[i]
            /\ longer[Len(runner[r].dump) + 1] = list[Len(runner[r].dump) + 1]
        BY <1>ty, <4>2, AppendProperties
      <4> HIDE DEF longer
      <4>4. \A i \in 1..Len(runner[r].dump) : runner[r].dump[i] = list[i]
        BY <2>2 DEF LoneInv, CopiesSoFar
      <4>5. \A i \in 1..Len(longer) : i \in 1..Len(runner[r].dump) \/ i = Len(runner[r].dump) + 1
        BY <1>ty, <4>3
      <4> QED BY <1>ty, <4>1, <4>3, <4>4, <4>5 DEF CopiesSoFar
    <3>6. CopiesSoFar(runner[r].dump)'
      BY <1>1, <3>3, <3>5 DEF CopiesSoFar
    <3> QED BY <2>1, <2>3, <3>3, <3>4, <3>6 DEF LoneInv, Saves, Blank
  <2>6. CASE Dump(r) /\ ~(Len(runner[r].dump) < Len(Dumped(r)))
    <3>1. runner'[r].at = "write" /\ runner'[r].dump = runner[r].dump
      BY <1>ty, <2>6 DEF Dump, Runners
    <3>2. file = Blank /\ ~mixed /\ UNCHANGED <<file, mixed>>
      BY <2>2, <2>6 DEF Dump, LoneInv
    <3>3. Dumped(r) = list
      BY <2>2 DEF LoneInv, Dumped
    <3>4. runner[r].dump = list
      <4>1. Len(runner[r].dump) = Len(list)
        BY <1>ty, <2>2, <2>6, <3>3 DEF LoneInv, CopiesSoFar
      <4> QED BY <1>ty, <2>2, <4>1, SeqEqual DEF LoneInv, CopiesSoFar
    <3>5. CopiesSoFar(runner[r].dump)'
      BY <1>1, <2>2, <3>1 DEF LoneInv, CopiesSoFar
    <3> QED BY <1>1, <2>1, <2>3, <3>1, <3>2, <3>4, <3>5 DEF LoneInv, Saves, Blank
  <2>7. CASE WritePart(r)
    <3>1. runner'[r].at = "flush" /\ runner'[r].dump = runner[r].dump
      BY <1>ty, <2>7 DEF WritePart, Runners
    <3>2. file' \in Cuts(list) /\ ~mixed'
      BY <2>2, <2>7, LoneWritesPart
    <3>3. runner[r].at = "write" /\ runner[r].dump = list
      BY <2>2, <2>7 DEF WritePart, LoneInv
    <3>4. CopiesSoFar(runner[r].dump)'
      BY <1>1, <2>2, <3>1 DEF LoneInv, CopiesSoFar
    <3>5. file' \in Cuts(list)'
      <4>1. Cuts(list)' = Cuts(list)
        BY <1>1 DEF Cuts, CutIn, CutEntries, CutValues
      <4> QED BY <3>2, <4>1
    <3> QED BY <1>1, <2>1, <2>3, <3>1, <3>2, <3>3, <3>4, <3>5 DEF LoneInv, Saves
  <2> QED BY <2>4, <2>5, <2>6, <2>7
<1>4. ASSUME NEW q \in Saves, Busy(q)', ~spoiled', ~inserting' PROVE runner'[q].lone
  <2>1. Busy(q) /\ runner'[q].lone = runner[q].lone
    BY <1>1, <1>2, <1>4 DEF Busy
  <2> QED BY <1>1, <1>4, <2>1 DEF RunnersInv
<1> QED BY <1>1, <1>2, <1>3, <1>4 DEF RunnersInv, Quiet, Saves
(* A save that ends, well or not, leaves the others as they are.            *)
LEMMA EndingKeepsRunners ==
  ASSUME TypeInv, RunnersInv, NEW r \in Saves, Write(r) \/ Fail(r)
  PROVE  RunnersInv'
<1>1. /\ Busy(r) /\ UNCHANGED <<list, inserting, readings>>
      /\ runner' = [runner EXCEPT ![r] = NoRunner]
  BY DEF Write, Fail, Busy
<1>2. /\ ~(Busy(r)')
      /\ \A q \in Saves \ {r} : runner'[q] = runner[q]
  BY <1>1, RunnerTypes DEF Busy, NoRunner
<1>3. ASSUME NEW q \in Saves, Busy(q)' PROVE q # r /\ Busy(q) /\ ~(runner'[q].lone) /\ ~runner[r].lone
  BY <1>1, <1>2, <1>3, LoneIsAlone DEF Busy
<1>4. ASSUME NEW q \in Saves, Busy(q)', ~spoiled', ~inserting' PROVE FALSE
  <2>1. ~runner[r].lone
    BY <1>3, <1>4
  <2>2. ~spoiled
    BY <1>4, <2>1 DEF Write, Fail
  <2> QED BY <1>1, <1>4, <2>1, <2>2 DEF RunnersInv
<1> QED BY <1>1, <1>3, <1>4 DEF RunnersInv, Saves

LEMMA NextRunners ==
  ASSUME TypeInv, RunnersInv, [Next]_vars
  PROVE  RunnersInv'
<1>1. ASSUME NEW e \in Readings, Insert(e) PROVE RunnersInv'
  <2>1. inserting' /\ readings' = readings + 1 /\ runner' = Met(runner)
    BY <1>1 DEF Insert
  <2>2. readings' > 0
    BY <2>1, BackupAssumption DEF TypeInv
  <2>3. ASSUME NEW r \in Saves, Busy(r)' PROVE ~(runner'[r].lone)
    BY <2>1, <2>3, RunnerTypes, MetIs DEF Busy
  <2> QED BY <2>1, <2>2, <2>3 DEF RunnersInv, Saves
<1>2. CASE CropAndSave
  BY <1>2, CropKeepsRunners
<1>3. ASSUME NEW r \in Saves, Open(r) \/ Dump(r) \/ WritePart(r) PROVE RunnersInv'
  BY <1>3, SavingKeepsRunners
<1>4. ASSUME NEW r \in Saves, Write(r) \/ Fail(r) PROVE RunnersInv'
  BY <1>4, EndingKeepsRunners
<1>5. CASE Restart
  <2>1. ~inserting' /\ \A r \in Saves : ~(Busy(r)')
    BY <1>5 DEF Restart, Busy, NoRunner
  <2> QED BY <2>1 DEF RunnersInv, Saves
<1>6. CASE Tick \/ UNCHANGED vars
  <2>1. UNCHANGED <<list, inserting, readings, file, runner, spoiled, mixed>>
    BY <1>6 DEF Tick, vars
  <2>2. Cuts(list)' = Cuts(list)
    BY <2>1 DEF Cuts, CutIn, CutEntries, CutValues
  <2> QED BY <2>1, <2>2 DEF RunnersInv, LoneInv, CopiesSoFar, Busy
<1>7. CASE EndWithoutSave
  <2>1. /\ inserting /\ ~inserting' /\ spoiled' /\ UNCHANGED <<readings, runner>>
    BY <1>7 DEF EndWithoutSave
  <2>2. \A r \in Saves : ~(Busy(r) /\ runner[r].lone)
    BY <2>1 DEF RunnersInv, LoneInv
  <2>3. \A r \in Saves : Busy(r)' <=> Busy(r)
    BY <2>1 DEF Busy
  <2> QED BY <2>1, <2>2, <2>3 DEF RunnersInv, Saves
<1> QED BY <1>1, <1>2, <1>3, <1>4, <1>5, <1>6, <1>7 DEF Next

LEMMA NextCurrent ==
  ASSUME TypeInv, RunnersInv, BackupIsCurrent, [Next]_vars
  PROVE  BackupIsCurrent'
<1>1. ASSUME NEW e \in Readings, Insert(e) PROVE BackupIsCurrent'
  BY <1>1 DEF Insert, BackupIsCurrent, Quiet
<1>2. CASE CropAndSave
  BY <1>2, CropKeepsRunners DEF BackupIsCurrent
<1>3. ASSUME NEW r \in Saves, Open(r) \/ Dump(r) \/ WritePart(r) PROVE BackupIsCurrent'
  BY <1>3, SavingKeepsRunners DEF BackupIsCurrent
<1>4. ASSUME NEW r \in Saves, Write(r) PROVE BackupIsCurrent'
  <2> SUFFICES ASSUME ~inserting', ~spoiled'
               PROVE  Restored(file') = [entries |-> list', stump |-> stump']
    BY DEF BackupIsCurrent, Quiet, Restored
  <2>1. Busy(r) /\ ~inserting /\ UNCHANGED <<list, stump>> /\ (~spoiled \/ runner[r].lone)
    BY <1>4 DEF Write, Busy
  <2>2. runner[r].lone
    BY <2>1 DEF RunnersInv
  <2>3. file' = Text(list)
    BY <1>4, <2>2, LoneWrites
  <2>4. CASE stump = TRUE
    BY <2>1, <2>3, <2>4 DEF Restored, Text
  <2>5. CASE stump = FALSE
    BY <2>1, <2>3, <2>5 DEF Restored, Text
  <2> QED BY <2>4, <2>5 DEF TypeInv
<1>5. ASSUME NEW r \in Saves, Fail(r) PROVE BackupIsCurrent'
  BY <1>5 DEF Fail, BackupIsCurrent
<1>6. CASE Restart
  <2>1. list' = Restored(file).entries /\ stump' = Restored(file).stump /\ file' = file
    BY <1>6 DEF Restart
  <2>2. Restored(file) = [entries |-> Restored(file).entries, stump |-> Restored(file).stump]
    BY DEF Restored
  <2>3. Restored(file)' = Restored(file)
    BY <2>1 DEF Restored
  <2> QED BY <2>1, <2>2, <2>3, Zenon DEF BackupIsCurrent
<1>7. CASE Tick \/ UNCHANGED vars
  BY <1>7 DEF Tick, vars, BackupIsCurrent, Quiet, Busy, Restored
<1>8. CASE EndWithoutSave
  BY <1>8 DEF EndWithoutSave, BackupIsCurrent
<1> QED BY <1>1, <1>2, <1>3, <1>4, <1>5, <1>6, <1>7, <1>8 DEF Next

LEMMA InitBackup == Init => BackupIInv
<1> SUFFICES ASSUME Init PROVE BackupIInv
  OBVIOUS
<1>1. TypeInv
  BY InitBackupTypes
<1>2. RunnersInv
  BY DEF Init, RunnersInv, Busy, NoRunner
<1>3. BackupIsCurrent
  BY DEF Init, BackupIsCurrent, Blank, Restored
<1>4. SortedInv
  <2>1. list = <<>> /\ ~stump /\ file = Blank
    BY DEF Init
  <2> QED BY <2>1, EmptyIsSorted, BlankOrder DEF SortedInv
<1> QED BY <1>1, <1>2, <1>3, <1>4 DEF BackupIInv

LEMMA NextBackup == BackupIInv /\ [Next]_vars => BackupIInv'
BY NextBackupTypes, NextRunners, NextCurrent, NextSorted DEF BackupIInv

(* Between insertions, with no save under way, the file is restored to what *)
(* the list is, so that a restart loses nothing, unless the latest saves    *)
(* failed or ran into one another (timebuffer.py save_runner): for any      *)
(* number of insertions and of restarts.                                    *)
THEOREM BackupFollowsList == Spec => []BackupIsCurrent
<1>1. BackupIInv => BackupIsCurrent
  BY DEF BackupIInv
<1> QED BY <1>1, InitBackup, NextBackup, PTL DEF Spec

(* Wherever the process dies or the disk is full, also within the text of   *)
(* a save (timebuffer.py save_runner), the entries of the file are in order *)
(* but for a last one whose timestamp was cut; and a restart leaves a list  *)
(* that get_index can search (restore), insertions and crops keeping it so, *)
(* unless it took such an entry over, an item that is no entry, or what     *)
(* saves wrote that ran into one another or into an insertion.              *)
THEOREM RestartKeepsOrder == Spec => []RestoredIsSorted
<1>1. BackupIInv => RestoredIsSorted
  BY DEF BackupIInv, SortedInv, RestoredIsSorted
<1> QED BY <1>1, InitBackup, NextBackup, PTL DEF Spec
=============================================================================
