------------------------ MODULE EnergyCalculatorProofs ------------------------
(***************************************************************************)
(* The power buffer with its two writers: types, what holds of the list    *)
(* until the two meet inside insert_sorted, that integrate meets no index  *)
(* past the end unless entries were moved under it, and that a silent      *)
(* meter is reported as the allowed power.                                 *)
(***************************************************************************)
EXTENDS EnergyCalculator, TimeBufferProofs

LEMMA Threads == Mqtt \in Writers /\ Main \in Writers /\ Mqtt # Main /\ Writers = {Mqtt, Main}
BY WritersAssumption

LEMMA TsFromIsInt ==
  ASSUME ts \in Int
  PROVE  TsFrom \in Int
<1>1. ts \div Duration \in Int
  BY DurationAssumption
<1> QED BY <1>1, DurationAssumption DEF TsFrom

(* A search for reading answers an index of the list, if there is any.      *)
LEMMA SeekIs ==
  ASSUME list \in Seq(Readings), NEW t \in Int
  PROVE  Seek(t) \in Nat /\ Len(list) \in Nat /\ (list # <<>> => Seek(t) < Len(list))
<1>1. ReadIndex \in {InsertIndex, ReadIndex}
  OBVIOUS
<1>2. Len(list) \in Nat
  BY TsIsInt, ReadingsAreTimed
<1>3. /\ GetIndex(list, t, ReadIndex) \in 0..Len(list)
      /\ list # <<>> => GetIndex(list, t, ReadIndex) < Len(list)
  BY <1>1, GetIndexInList, ReadingsAreTimed
<1> QED BY <1>2, <1>3 DEF Seek

(* get_value answers the value of a reading, or 0 if there is none.         *)
LEMMA ValueBeforeIs ==
  ASSUME list \in Seq(Readings), NEW t \in Int
  PROVE  ValueBefore(list, t) \in Values \cup {0}
<1> DEFINE i == GetIndex(list, t, InsertIndex)
<1>1. InsertIndex \in {InsertIndex, ReadIndex}
  OBVIOUS
<1>2. Len(list) \in Nat /\ \A j \in 1..Len(list) : list[j].value \in Values
  <2>1. \A j \in 1..Len(list) : list[j] \in Readings
    BY TsIsInt, ReadingsAreTimed
  <2> QED BY <2>1, LenProperties DEF Readings, Entry
<1>3. i \in 0..Len(list)
  BY <1>1, GetIndexInList, ReadingsAreTimed
<1>4. ValueBefore(list, t) = IF list = <<>> THEN 0
                             ELSE IF i >= Len(list) THEN list[Len(list)].value
                             ELSE IF i <= 0 THEN list[1].value
                             ELSE IF list[i+1].ts = t THEN list[i+1].value ELSE list[i].value
  BY Zenon DEF ValueBefore
<1> HIDE DEF i
<1>5. list # <<>> => Len(list) \in 1..Len(list) /\ 1 \in 1..Len(list)
  BY <1>2, EmptySeq
<1>6. i > 0 /\ i < Len(list) => i \in 1..Len(list) /\ i+1 \in 1..Len(list)
  BY <1>2, <1>3
<1> QED BY <1>2, <1>3, <1>4, <1>5, <1>6

-----------------------------------------------------------------------------
(* The types, for any number of meetings of the two threads.                *)
LocalTypes ==
  /\ arrived \in 0..MaxReadings
  /\ phase \in Integrating \cup {"away", "raised", "check", "emulate", "inserting", "report"}
  /\ ts \in 0..MaxNow
  /\ offline \in BOOLEAN
  /\ power \in Values \cup {0}
  /\ query \in [from : Nat, to : Nat, idx : Nat,
                pre : Values \cup {0}, post : Values \cup {0}, sum : Int]
  /\ energy \in Int
  /\ disturbed \in BOOLEAN /\ overlapped \in BOOLEAN
  /\ meanwhile \in {"still", "grown", "moved"}

ECTypeIInv == TypeIInv /\ LocalTypes

LEMMA ECTypesSuffice == ECTypeIInv => ECTypeInv
BY DEF ECTypeIInv, TypeIInv, LocalTypes, ECTypeInv

LEMMA InitECTypes == ECInit => ECTypeIInv
<1> SUFFICES ASSUME ECInit PROVE ECTypeIInv
  OBVIOUS
<1>1. TypeIInv
  BY InitTypes DEF ECInit
<1>2. query \in [from : Nat, to : Nat, idx : Nat,
                pre : Values \cup {0}, post : Values \cup {0}, sum : Int]
  BY DEF ECInit, NoQuery
<1>3. 0 \in 0..MaxReadings /\ 0 \in 0..MaxNow
  BY MaxReadingsAssumption, MaxNowAssumption
<1>4. /\ phase = "away" /\ ts = 0 /\ offline = FALSE /\ power = 0 /\ energy = 0 /\ arrived = 0
      /\ disturbed = FALSE /\ meanwhile = "still" /\ overlapped = FALSE
  BY DEF ECInit
<1>5. offline \in BOOLEAN /\ disturbed \in BOOLEAN /\ overlapped \in BOOLEAN
  BY <1>4
<1>6. /\ arrived \in 0..MaxReadings /\ ts \in 0..MaxNow /\ power \in Values \cup {0}
      /\ energy \in Int /\ meanwhile \in {"still", "grown", "moved"}
  BY <1>3, <1>4
<1>7. phase \in Integrating \cup {"away", "raised", "check", "emulate", "inserting", "report"}
  BY <1>4
<1>8. LocalTypes
  BY <1>2, <1>5, <1>6, <1>7 DEF LocalTypes
<1> QED BY <1>1, <1>8 DEF ECTypeIInv

LEMMA ReadTypes ==
  ASSUME ECTypeIInv, ReadBuffer
  PROVE  LocalTypes'
<1>ty. /\ list \in Seq(Readings) /\ Len(list) \in Nat /\ ts \in Int /\ TsFrom \in Int
       /\ query.from \in Nat /\ query.to \in Nat /\ query.idx \in Nat /\ query.sum \in Int
       /\ \A j \in 1..Len(list) : list[j].ts \in Int /\ list[j].value \in Int
  <2>1. list \in Seq(Readings) /\ ts \in Int
    BY MaxNowAssumption DEF ECTypeIInv, TypeIInv, TypeInv, LocalTypes
  <2>2. Len(list) \in Nat /\ \A j \in 1..Len(list) : list[j] \in Readings
    BY <2>1, TsIsInt, ReadingsAreTimed
  <2>3. \A r \in Readings : r.ts \in Int /\ r.value \in Int
    BY TimesAssumption, MaxPowerAssumption DEF Readings, Entry
  <2> QED BY <2>1, <2>2, <2>3, TsFromIsInt DEF ECTypeIInv, LocalTypes
<1> USE DEF ECTypeIInv
<1>1. CASE SeekFrom
  <2>1. list # <<>> => Seek(TsFrom) \in Nat
    BY <1>ty, SeekIs
  <2> QED BY <1>1, <2>1 DEF SeekFrom, Reading, LocalTypes, Integrating, vars
<1>2. CASE SeekTo
  <2> DEFINE i == Seek(ts)
             last == IF i < Len(list) /\ list[i+1].ts > ts
                     THEN IF i - 1 > query.from THEN i - 1 ELSE query.from
                     ELSE i
  <2>1. i \in Nat
    BY <1>ty, SeekIs
  <2>2. last \in Nat
    BY <2>1, <1>ty
  <2>3. Reading("idx_to", "pre", [query EXCEPT !.to = last])
    BY <1>2 DEF SeekTo
  <2> HIDE DEF last
  <2> QED BY <2>2, <2>3 DEF Reading, LocalTypes, Integrating
<1>3. CASE ReadPre \/ ReadPost
  <2>1. ValueBefore(list, TsFrom) \in Values \cup {0} /\ ValueBefore(list, ts) \in Values \cup {0}
    BY <1>ty, ValueBeforeIs
  <2> QED BY <1>3, <2>1 DEF ReadPre, ReadPost, Reading, LocalTypes, Integrating
<1>4. CASE AddEntry
  <2> DEFINE this == list[query.idx + 1]
             next == list[query.idx + 2]
  <2>1. query.idx + 1 \in 1..Len(list) /\ query.idx + 2 \in 1..Len(list)
    BY <1>4, <1>ty DEF AddEntry
  <2>2. query.sum + this.value * (next.ts - this.ts) \in Int /\ query.idx + 1 \in Nat
    <3>1. this.value \in Int /\ next.ts - this.ts \in Int
      BY <2>1, <1>ty
    <3> HIDE DEF this, next
    <3>2. \A a, b \in Int : a * b \in Int
      OBVIOUS
    <3>3. this.value * (next.ts - this.ts) \in Int
      BY <3>1, <3>2
    <3> QED BY <3>3, <1>ty
  <2>3. Reading("loop", "loop", [query EXCEPT
           !.sum = @ + this.value * (next.ts - this.ts), !.idx = @ + 1])
    BY <1>4 DEF AddEntry
  <2>4. query' = [query EXCEPT !.sum = query.sum + this.value * (next.ts - this.ts),
                               !.idx = query.idx + 1]
    BY <2>3 DEF Reading
  <2> HIDE DEF this, next
  <2> QED BY <2>2, <2>3, <2>4 DEF Reading, LocalTypes, Integrating
<1>5. CASE AddEnds
  <2>1. query.from + 1 \in 1..Len(list) /\ query.to + 1 \in 1..Len(list)
    BY <1>5, <1>ty DEF AddEnds
  <2>2. query.pre \in Int /\ query.post \in Int
    <3>1. query.pre \in Values \cup {0} /\ query.post \in Values \cup {0}
      BY DEF LocalTypes
    <3>2. \A v \in Values \cup {0} : v \in Int
      BY MaxPowerAssumption
    <3> QED BY <3>1, <3>2
  <2>3. Before \in Int /\ Beyond \in Int
    <3>1. /\ list[query.from + 1].ts - TsFrom \in Int
          /\ ts - list[query.to + 1].ts \in Int
      BY <2>1, <1>ty
    <3>2. \A a, b \in Int : a * b \in Int
      OBVIOUS
    <3> QED BY <2>2, <3>1, <3>2 DEF Before, Beyond
  <2> QED BY <1>5, <2>3, <1>ty DEF AddEnds, LocalTypes, NoQuery, Integrating
<1>6. CASE RaiseIndexError
  BY <1>6 DEF RaiseIndexError, Reading, LocalTypes, NoQuery
<1> QED BY <1>1, <1>2, <1>3, <1>4, <1>5, <1>6 DEF ReadBuffer

(* The emulated reading is a reading.                                       *)
Emulated == [ts |-> EmulatedTs, value |-> MaxPower]

LEMMA EmulatedIsReading ==
  ASSUME ts \in 0..MaxNow
  PROVE  Emulated \in Readings /\ EmulatedTs \in Int
BY EmulatedAssumption, MaxPowerAssumption, DelayAssumption, MaxNowAssumption
   DEF Emulated, EmulatedTs, Readings, Entry

LEMMA EmulateIsAStep ==
  ASSUME ECTypeIInv, Emulate
  PROVE  Insert(Main, Emulated) /\ Step(Main)
<1>1. Emulated \in Readings
  BY EmulatedIsReading DEF ECTypeIInv, LocalTypes
<1>2. Insert(Main, Emulated)
  BY DEF Emulate, Emulated
<1> QED BY <1>1, <1>2 DEF Step

(* The flags that record what happened are Booleans after every step.       *)
LEMMA NextFlags ==
  ASSUME LocalTypes, [ECNext]_ecVars
  PROVE  overlapped' \in BOOLEAN /\ disturbed' \in BOOLEAN /\ offline' \in BOOLEAN
<1>0. overlapped \in BOOLEAN /\ disturbed \in BOOLEAN /\ offline \in BOOLEAN
  BY DEF LocalTypes
<1>1. overlapped' \in BOOLEAN
  <2>1. CASE UNCHANGED overlapped
    BY <2>1, <1>0
  <2>2. CASE Watch
    BY <2>2 DEF Watch
  <2> QED BY <2>1, <2>2 DEF ECNext, ecVars, ClockStep, MeterStep, StartStatus, ReadBuffer,
       SeekFrom, SeekTo, ReadPre, ReadPost, AddEntry, AddEnds, RaiseIndexError, Reading,
       CheckMeter, Emulate, EmulateStep, Report
<1>2. disturbed' \in BOOLEAN
  <2>1. CASE UNCHANGED disturbed
    BY <2>1, <1>0
  <2>2. CASE MeterStep
    BY <2>2 DEF MeterStep
  <2>3. CASE StartStatus
    BY <2>3 DEF StartStatus, Busy
  <2>4. CASE Report
    BY <2>4 DEF Report
  <2> QED BY <2>1, <2>2, <2>3, <2>4 DEF ECNext, ecVars, ClockStep, ReadBuffer,
       SeekFrom, SeekTo, ReadPre, ReadPost, AddEntry, AddEnds, RaiseIndexError, Reading,
       CheckMeter, Emulate, EmulateStep
<1>3. offline' \in BOOLEAN
  <2>1. CASE UNCHANGED offline
    BY <2>1, <1>0
  <2>2. CASE CheckMeter
    BY <2>2 DEF CheckMeter, SilentSince
  <2>3. CASE Report
    BY <2>3 DEF Report
  <2> QED BY <2>1, <2>2, <2>3 DEF ECNext, ecVars, ClockStep, MeterStep, StartStatus, ReadBuffer,
       SeekFrom, SeekTo, ReadPre, ReadPost, AddEntry, AddEnds, RaiseIndexError, Reading,
       Emulate, EmulateStep
<1> QED BY <1>1, <1>2, <1>3

LEMMA NextECTypes ==
  ASSUME ECTypeIInv, [ECNext]_ecVars
  PROVE  ECTypeIInv'
<1>ty. TypeIInv /\ LocalTypes
  BY DEF ECTypeIInv
<1>fl. overlapped' \in BOOLEAN /\ disturbed' \in BOOLEAN /\ offline' \in BOOLEAN
  BY <1>ty, NextFlags
<1>ph. phase \in Integrating \cup {"away", "raised", "check", "emulate", "inserting", "report"}
  BY <1>ty DEF LocalTypes
<1>1. CASE ClockStep
  BY <1>1, <1>ty, TickTypes DEF ClockStep, ECTypeIInv, LocalTypes, queryVars
<1>2. CASE MeterStep
  <2>1. TypeIInv'
    BY <1>2, <1>ty, Threads, StepTypes DEF MeterStep
  <2>2. arrived' \in 0..MaxReadings
    BY <1>2, <1>ty, MaxReadingsAssumption DEF MeterStep, LocalTypes
  <2>3. meanwhile' \in {"still", "grown", "moved"}
    BY <1>2, <1>ty DEF MeterStep, LocalTypes
  <2>4. UNCHANGED <<phase, ts, offline, power, query, energy>>
    BY <1>2 DEF MeterStep
  <2>5. LocalTypes'
    BY <2>2, <2>3, <2>4, <1>fl, <1>ty DEF LocalTypes
  <2> QED BY <2>1, <2>5 DEF ECTypeIInv
<1>3. CASE StartStatus
  <2>1. TypeIInv' /\ now \in 0..MaxNow
    BY <1>3, <1>ty, TickTypes DEF StartStatus, TypeIInv, TypeInv
  <2>2. LocalTypes'
    BY <1>3, <2>1, <1>ty, <1>fl DEF StartStatus, LocalTypes, Integrating, queryVars
  <2> QED BY <2>1, <2>2 DEF ECTypeIInv
<1>4. CASE ReadBuffer
  <2>1. UNCHANGED vars
    BY <1>4 DEF ReadBuffer, SeekFrom, SeekTo, ReadPre, ReadPost, AddEntry, AddEnds,
                RaiseIndexError, Reading
  <2> QED BY <1>4, <2>1, <1>ty, TickTypes, ReadTypes DEF ECTypeIInv
<1>5. CASE CheckMeter
  <2>1. TypeIInv'
    BY <1>5, <1>ty, TickTypes DEF CheckMeter
  <2>2. phase' \in {"emulate", "report"} /\ UNCHANGED <<arrived, ts, power, query, energy, meanwhile>>
    BY <1>5 DEF CheckMeter, queryVars
  <2>3. LocalTypes'
    BY <2>2, <1>ty, <1>fl DEF LocalTypes
  <2> QED BY <2>1, <2>3 DEF ECTypeIInv
<1>6. CASE Emulate \/ EmulateStep
  <2>1. Step(Main)
    BY <1>6, EmulateIsAStep DEF EmulateStep
  <2>2. TypeIInv'
    BY <2>1, <1>ty, Threads, StepTypes
  <2>3. /\ phase' \in {"inserting", "report"}
        /\ UNCHANGED <<arrived, ts, offline, power, query, energy, meanwhile>>
    BY <1>6 DEF Emulate, EmulateStep, queryVars
  <2>4. LocalTypes'
    BY <2>3, <1>ty, <1>fl DEF LocalTypes
  <2> QED BY <2>2, <2>4 DEF ECTypeIInv
<1>7. CASE Report
  <2>1. TypeIInv'
    BY <1>7, <1>ty, TickTypes DEF Report
  <2>2. power' \in Values \cup {0}
    <3>1. list \in Seq(Readings) /\ ts \in Int
      BY <1>ty, MaxNowAssumption DEF TypeIInv, TypeInv, LocalTypes
    <3> QED BY <1>7, <3>1, ValueBeforeIs DEF Report
  <2>3. /\ phase' = "away" /\ ts' = 0 /\ energy' = 0 /\ meanwhile' = "still"
        /\ UNCHANGED <<arrived, query>>
    BY <1>7 DEF Report
  <2>4. LocalTypes'
    BY <2>2, <2>3, <1>ty, <1>fl, MaxNowAssumption DEF LocalTypes
  <2> QED BY <2>1, <2>4 DEF ECTypeIInv
<1>8. CASE UNCHANGED ecVars
  <2>1. UNCHANGED vars /\ UNCHANGED <<arrived, phase, ts, offline, power, disturbed, overlapped,
                                     query, energy, meanwhile>>
    BY <1>8 DEF ecVars, queryVars
  <2> QED BY <2>1, <1>ty, TickTypes DEF ECTypeIInv, LocalTypes
<1> QED BY <1>1, <1>2, <1>3, <1>4, <1>5, <1>6, <1>7, <1>8 DEF ECNext

(* What period_status computes has the type it should, in whatever order    *)
(* the two threads change and read the power buffer.                        *)
THEOREM StatusTypeCorrect == ECSpec => []ECTypeInv
BY InitECTypes, NextECTypes, ECTypesSuffice, PTL DEF ECSpec

-----------------------------------------------------------------------------
(* Until the two threads meet inside insert_sorted, one of them is always   *)
(* out of it, and the other one's steps are those of a single writer.       *)
Separate ==
  /\ IInv
  /\ ~(Busy(Mqtt) /\ Busy(Main))
  /\ pc[Mqtt] # "raised" /\ pc[Main] # "raised"

SoundIInv == ECTypeIInv /\ (~overlapped => Separate)

LEMMA OthersPlace ==
  ASSUME TypeInv, NEW w \in Writers, NEW v \in Writers, v # w, Step(w)
  PROVE  pc'[v] = pc[v]
BY DEF TypeInv, Step, Insert, Search, Put, AutoCrop, CopySlice, Rebind, Save, Goto

LEMMA StepSeparate ==
  ASSUME SoundIInv, NEW w \in Writers, Step(w), Watch, ~overlapped'
  PROVE  Alone(w) /\ Separate'
<1>1. ~overlapped /\ ~(\A u \in Writers : Busy(u)')
  BY DEF Watch
<1>2. IInv /\ TypeInv /\ ~(Busy(Mqtt) /\ Busy(Main))
      /\ pc[Mqtt] # "raised" /\ pc[Main] # "raised"
  BY <1>1 DEF SoundIInv, Separate, IInv
<1>3. PICK v \in Writers : v # w /\ Writers = {v, w}
  BY Threads
<1>4. pc'[v] = pc[v]
  BY <1>2, <1>3, OthersPlace
<1>5. ~Busy(v)
  <2> SUFFICES ASSUME Busy(v) PROVE FALSE
    OBVIOUS
  <2>1. pc[w] = "idle"
    BY <1>2, <1>3, Threads DEF Busy
  <2>2. \E e \in Readings : Insert(w, e)
    BY <2>1 DEF Step, Search, Put, AutoCrop, CopySlice, Rebind, Save, Searches
  <2>3. pc'[w] = "idx"
    BY <2>2, <1>2 DEF Insert, Goto, TypeInv
  <2>4. \A u \in Writers : Busy(u)'
    BY <2>3, <1>3, <1>4 DEF Busy
  <2> QED BY <1>1, <2>4
<1>6. Alone(w)
  BY <1>3, <1>5 DEF Alone, Busy
<1>7. IInv' /\ pc'[w] # "raised"
  BY <1>2, <1>6, StepIInv
<1>8. pc[v] = "idle" /\ pc'[v] = "idle"
  BY <1>2, <1>3, <1>4, <1>5, Threads DEF Busy
<1> QED BY <1>3, <1>6, <1>7, <1>8, Threads DEF Separate, Busy

LEMMA QuietSeparate ==
  ASSUME SoundIInv, Tick \/ UNCHANGED vars, overlapped' = overlapped, ~overlapped'
  PROVE  Separate'
<1>1. IInv /\ Separate
  BY DEF SoundIInv, Separate
<1>2. IInv' /\ pc' = pc
  BY <1>1, TickIInv DEF Tick, vars
<1> QED BY <1>1, <1>2 DEF Separate, Busy

LEMMA InitSound == ECInit => SoundIInv
<1> SUFFICES ASSUME ECInit PROVE SoundIInv
  OBVIOUS
<1>1. ECTypeIInv /\ IInv
  BY InitECTypes, InitIInv DEF ECInit
<1>2. pc[Mqtt] = "idle" /\ pc[Main] = "idle"
  BY Threads DEF ECInit, Init
<1> QED BY <1>1, <1>2 DEF SoundIInv, Separate, Busy

(* What the list and the writers do in a step of the system.                *)
LEMMA BufferStep ==
  ASSUME [ECNext]_ecVars
  PROVE  \/ (Tick \/ UNCHANGED vars) /\ overlapped' = overlapped
         \/ Step(Mqtt) /\ Watch /\ MeterStep
         \/ Emulate /\ Watch
         \/ Step(Main) /\ Watch /\ EmulateStep
<1>1. CASE ReadBuffer
  BY <1>1 DEF ReadBuffer, SeekFrom, SeekTo, ReadPre, ReadPost, AddEntry, AddEnds,
              RaiseIndexError, Reading
<1>2. CASE UNCHANGED ecVars
  BY <1>2 DEF ecVars
<1>3. CASE ~ReadBuffer /\ ECNext
  BY <1>3 DEF ECNext, ClockStep, MeterStep, StartStatus, CheckMeter, Emulate, EmulateStep, Report
<1> QED BY <1>1, <1>2, <1>3

LEMMA NextSound ==
  ASSUME SoundIInv, [ECNext]_ecVars
  PROVE  SoundIInv'
<1>1. ECTypeIInv'
  BY NextECTypes DEF SoundIInv
<1>2. ASSUME ~overlapped' PROVE Separate'
  <2>1. CASE (Tick \/ UNCHANGED vars) /\ overlapped' = overlapped
    BY <1>2, <2>1, QuietSeparate
  <2>2. ASSUME NEW w \in Writers, Step(w), Watch PROVE Separate'
    BY <1>2, <2>2, StepSeparate
  <2>3. Emulate => Step(Main)
    BY EmulateIsAStep DEF SoundIInv
  <2> QED BY <2>1, <2>2, <2>3, Threads, BufferStep
<1> QED BY <1>1, <1>2 DEF SoundIInv

(* Until the two threads meet inside insert_sorted the list is sorted       *)
(* (timebuffer.py:119) and no auto_crop meets an empty list                 *)
(* (timebuffer.py:56), however many readings come in and are emulated.      *)
THEOREM SoundWhileSeparate == ECSpec => []SoundUnlessOverlapped
<1>1. SoundIInv => SoundUnlessOverlapped
  <2>1. Writers = {Mqtt, Main}
    BY Threads
  <2> QED BY <2>1 DEF SoundIInv, Separate, IInv, SoundUnlessOverlapped
<1> QED BY <1>1, InitSound, NextSound, PTL DEF ECSpec

(* Until the two threads meet inside insert_sorted they keep what a buffer  *)
(* promises (BufferSpec): whichever of them inserts or crops, and whatever  *)
(* the main thread reads meanwhile, no reading is lost, kept twice or put   *)
(* back by the copy that crop_interval binds (timebuffer.py:119, :160).     *)
THEOREM SeparateImplementsBuffer ==
  ECSpec => /\ Contents!Init
            /\ [][overlapped \/ Contents!Next \/ UNCHANGED <<Entries(list), now>>]_ecVars
<1>1. ECInit => Contents!Init
  BY DEF ECInit, Init, Contents!Init, Entries
<1>2. SoundIInv /\ [ECNext]_ecVars =>
        [overlapped \/ Contents!Next \/ UNCHANGED <<Entries(list), now>>]_ecVars
  <2> SUFFICES ASSUME SoundIInv, [ECNext]_ecVars, ~overlapped
               PROVE  Contents!Next \/ UNCHANGED <<Entries(list), now>>
    OBVIOUS
  <2>1. IInv
    BY DEF SoundIInv, Separate
  <2>2. Emulate => Step(Main)
    BY EmulateIsAStep DEF SoundIInv
  <2>3. [Next]_vars
    BY <2>2, BufferStep, Threads DEF Next
  <2> QED BY <2>1, <2>3, StepRefines
<1> QED BY <1>1, <1>2, InitSound, NextSound, PTL DEF ECSpec

-----------------------------------------------------------------------------
(* While no entry has been moved under integrate, the indexes it holds are  *)
(* those of entries: the list has only grown behind them.                   *)
InRange ==
  /\ phase = "raised" => meanwhile = "moved"
  /\ meanwhile # "moved" =>
       /\ phase \in {"idx_to", "pre", "post", "loop"} => query.from < Len(list)
       /\ phase \in {"pre", "post", "loop"} => query.to < Len(list)

LEMMA ListTypes ==
  ASSUME ECTypeIInv
  PROVE  /\ list \in Seq(Readings) /\ Len(list) \in Nat /\ ts \in Int /\ TsFrom \in Int
         /\ query.from \in Nat /\ query.to \in Nat /\ query.idx \in Nat
         /\ (list # <<>> => Len(list) > 0)
<1>1. list \in Seq(Readings) /\ ts \in Int
  BY MaxNowAssumption DEF ECTypeIInv, TypeIInv, TypeInv, LocalTypes
<1>2. Len(list) \in Nat /\ (list # <<>> => Len(list) # 0)
  BY <1>1, LenProperties, EmptySeq
<1> QED BY <1>1, <1>2, TsFromIsInt DEF ECTypeIInv, LocalTypes

LEMMA SamePlacesGrow ==
  ASSUME NEW L \in Seq(Readings), NEW M \in Seq(Readings), SamePlaces(L, M)
  PROVE  Len(L) <= Len(M)
<1>1. Len(L) \in Nat /\ Len(M) \in Nat /\ DOMAIN L = 1..Len(L) /\ DOMAIN M = 1..Len(M)
  BY LenProperties
<1>2. \A i \in 1..Len(L) : i \in 1..Len(M)
  BY <1>1 DEF SamePlaces
<1>3. Len(L) > 0 => Len(L) \in 1..Len(L)
  BY <1>1
<1> QED BY <1>1, <1>2, <1>3

LEMMA ReadInRange ==
  ASSUME ECTypeIInv, InRange, ReadBuffer
  PROVE  InRange'
<1>ty. /\ list \in Seq(Readings) /\ Len(list) \in Nat /\ ts \in Int /\ TsFrom \in Int
       /\ query.from \in Nat /\ query.to \in Nat /\ query.idx \in Nat
       /\ (list # <<>> => Len(list) > 0)
  BY ListTypes
<1>q. query \in [from : Nat, to : Nat, idx : Nat,
                 pre : Values \cup {0}, post : Values \cup {0}, sum : Int]
  BY DEF ECTypeIInv, LocalTypes
<1>1. UNCHANGED <<list, meanwhile>>
  BY DEF ReadBuffer, SeekFrom, SeekTo, ReadPre, ReadPost, AddEntry, AddEnds,
         RaiseIndexError, Reading, vars
<1>2. CASE SeekFrom
  <2>1. CASE list = <<>>
    <3>1. phase' = "check"
      BY <1>2, <2>1 DEF SeekFrom, Reading
    <3> QED BY <3>1 DEF InRange
  <2>2. CASE list # <<>>
    <3>1. phase' = "idx_to" /\ query' = [query EXCEPT !.from = Seek(TsFrom), !.idx = Seek(TsFrom)]
      BY <1>2, <2>2 DEF SeekFrom, Reading
    <3>2. query'.from = Seek(TsFrom)
      BY <3>1, <1>q
    <3>3. Seek(TsFrom) < Len(list)
      BY <2>2, <1>ty, SeekIs
    <3> QED BY <1>1, <3>1, <3>2, <3>3 DEF InRange
  <2> QED BY <2>1, <2>2
<1>3. CASE SeekTo
  <2> DEFINE i == Seek(ts)
             last == IF i < Len(list) /\ list[i+1].ts > ts
                     THEN IF i - 1 > query.from THEN i - 1 ELSE query.from
                     ELSE i
  <2>1. list # <<>> /\ phase = "idx_to" /\ phase' = "pre" /\ query' = [query EXCEPT !.to = last]
    BY <1>3 DEF SeekTo, Reading
  <2>2. i \in Nat /\ i < Len(list)
    BY <2>1, <1>ty, SeekIs
  <2>3. query.from < Len(list) => last < Len(list)
    BY <2>2, <1>ty
  <2> HIDE DEF last
  <2>4. query'.from = query.from /\ query'.to = last
    BY <2>1, <1>q
  <2> QED BY <1>1, <2>1, <2>3, <2>4 DEF InRange
<1>4. CASE ReadPre \/ ReadPost
  <2>1. /\ query'.from = query.from /\ query'.to = query.to
        /\ phase \in {"pre", "post"} /\ phase' \in {"post", "loop"}
    BY <1>4, <1>q DEF ReadPre, ReadPost, Reading
  <2> QED BY <1>1, <2>1 DEF InRange
<1>5. CASE AddEntry
  <2>1. /\ query'.from = query.from /\ query'.to = query.to
        /\ phase = "loop" /\ phase' = "loop"
    BY <1>5, <1>q DEF AddEntry, Reading
  <2> QED BY <1>1, <2>1 DEF InRange
<1>6. CASE AddEnds
  BY <1>6 DEF AddEnds, InRange
<1>7. CASE RaiseIndexError
  <2>1. phase' = "raised" /\ \E i \in Needed : i >= Len(list)
    BY <1>7 DEF RaiseIndexError, Reading
  <2>2. PICK i \in Needed : i >= Len(list)
    BY <2>1
  <2>3. ASSUME meanwhile # "moved" PROVE FALSE
    <3>1. CASE phase = "idx_to"
      BY <3>1, <2>2, <2>3, <1>ty DEF Needed, InRange
    <3>2. CASE phase = "loop" /\ query.idx < query.to
      <4>1. i = query.idx \/ i = query.idx + 1
        BY <3>2, <2>2, <1>ty DEF Needed
      <4>2. query.to < Len(list)
        BY <3>2, <2>3 DEF InRange
      <4> QED BY <4>1, <4>2, <3>2, <2>2, <1>ty
    <3>3. CASE phase = "loop" /\ query.idx >= query.to
      <4>1. i = query.from \/ i = query.to
        BY <3>3, <2>2, <1>ty DEF Needed
      <4>2. query.from < Len(list) /\ query.to < Len(list)
        BY <3>3, <2>3 DEF InRange
      <4> QED BY <4>1, <4>2, <2>2, <1>ty
    <3>4. CASE phase \notin {"idx_to", "loop"}
      BY <3>4, <2>2 DEF Needed
    <3> QED BY <3>1, <3>2, <3>3, <3>4, <1>ty
  <2> QED BY <1>1, <2>1, <2>3 DEF InRange
<1> QED BY <1>2, <1>3, <1>4, <1>5, <1>6, <1>7 DEF ReadBuffer

LEMMA NextInRange ==
  ASSUME ECTypeIInv, InRange, [ECNext]_ecVars
  PROVE  InRange'
<1>1. CASE ReadBuffer
  BY <1>1, ReadInRange
<1>2. CASE MeterStep
  <2>1. UNCHANGED <<phase, query>>
    BY <1>2 DEF MeterStep
  <2>2. CASE phase \notin Integrating
    <3>1. meanwhile' = meanwhile
      BY <1>2, <2>2 DEF MeterStep
    <3> QED BY <2>1, <2>2, <3>1 DEF InRange, Integrating
  <2>3. ASSUME meanwhile' # "moved", phase \in Integrating
        PROVE  meanwhile # "moved" /\ Len(list) <= Len(list')
    <3>1. meanwhile # "moved" /\ (list' = list \/ SamePlaces(list, list'))
      BY <1>2, <2>3 DEF MeterStep
    <3>2. list \in Seq(Readings) /\ list' \in Seq(Readings)
      BY NextECTypes DEF ECTypeIInv, TypeIInv, TypeInv
    <3>3. Len(list) \in Nat
      BY <3>2, LenProperties
    <3> QED BY <3>1, <3>2, <3>3, SamePlacesGrow
  <2>4. CASE phase \in Integrating
    <3>1. phase' # "raised"
      BY <2>1, <2>4 DEF Integrating
    <3>2. /\ Len(list) \in Nat /\ query.from \in Nat /\ query.to \in Nat
      BY ListTypes
    <3>3. Len(list') \in Nat
      <4>1. list' \in Seq(Readings)
        BY NextECTypes DEF ECTypeIInv, TypeIInv, TypeInv
      <4> QED BY <4>1, LenProperties
    <3> QED BY <2>1, <2>3, <2>4, <3>1, <3>2, <3>3 DEF InRange
  <2> QED BY <2>2, <2>4
<1>3. CASE ClockStep
  BY <1>3 DEF ClockStep, Tick, queryVars, InRange
<1>4. CASE StartStatus \/ CheckMeter \/ Emulate \/ EmulateStep
  <2>1. /\ phase' \in {"idx_from", "emulate", "report", "inserting"}
    BY <1>4 DEF StartStatus, CheckMeter, Emulate, EmulateStep
  <2> QED BY <2>1 DEF InRange
<1>5. CASE Report
  BY <1>5 DEF Report, InRange
<1>6. CASE UNCHANGED ecVars
  BY <1>6 DEF ecVars, vars, queryVars, InRange
<1> QED BY <1>1, <1>2, <1>3, <1>4, <1>5, <1>6 DEF ECNext

(* The main loop ends in an IndexError of integrate (float_tb.py:86) only   *)
(* if a late reading or a crop moved entries between two of its reads;      *)
(* readings that come in behind the last one never end it.                  *)
THEOREM IndexErrorOnlyIfMoved == ECSpec => []RaisesOnlyIfMoved
<1>1. ECInit => ECTypeIInv /\ InRange
  BY InitECTypes DEF ECInit, InRange
<1>2. ECTypeIInv /\ InRange /\ [ECNext]_ecVars => ECTypeIInv' /\ InRange'
  BY NextECTypes, NextInRange
<1>3. InRange => RaisesOnlyIfMoved
  BY DEF InRange, RaisesOnlyIfMoved
<1> QED BY <1>1, <1>2, <1>3, PTL DEF ECSpec

-----------------------------------------------------------------------------
(* The emulated reading, from the status that found the meter silent to the *)
(* report: every older entry is before it, it is inserted at the end, and   *)
(* the crop that follows keeps it.                                          *)

(* Nothing happened to this status but that the meter is silent.            *)
Undisturbed == offline /\ ts = now /\ ~disturbed /\ ~overlapped

AllBefore == \A e \in Entries(list) : e.ts < EmulatedTs
EndsAt(e) == e \in Entries(list) /\ \A f \in Entries(list) : f.ts <= e.ts

OfflineIInv ==
  Undisturbed =>
    /\ phase = "emulate" => AllBefore
    /\ phase = "inserting" =>
         /\ pc[Main] # "idle" /\ entry[Main] = Emulated
         /\ pc[Main] \in {"idx", "put"} => AllBefore
         /\ pc[Main] \in Cropping => cropAt[Main] = now
         /\ pc[Main] \in Cropping \cup {"crop", "save"} => EndsAt(Emulated)
    /\ phase = "report" => \E e \in Entries(list) : EndsAt(e) /\ e.value >= MaxPower /\ e.ts <= ts

(* A status is of the present or of the past.                               *)
TsPast == phase # "away" => ts <= now

OfflineInv == SoundIInv /\ TsPast /\ OfflineIInv

(* A crop keeps what is younger than the buffer's age. *)
KeepsEmulated == Age <= 0 \/ MaxOffline <= Age + 1

LEMMA StatusTypes ==
  ASSUME SoundIInv
  PROVE  /\ list \in Seq(Readings) /\ Len(list) \in Nat /\ ts \in Int /\ now \in Int
         /\ EmulatedTs \in Int /\ Emulated \in Readings
         /\ \A e \in Entries(list) : e \in Readings /\ e.ts \in Int /\ e.value \in Int
         /\ pc[Main] \in Searches \cup {"idle", "put", "crop", "slice", "bind", "save", "raised"}
         /\ MaxPower \in Int /\ MaxOffline \in Nat
<1>1. /\ list \in Seq(Readings) /\ ts \in 0..MaxNow /\ now \in 0..MaxNow
      /\ pc[Main] \in Searches \cup {"idle", "put", "crop", "slice", "bind", "save", "raised"}
  BY Threads DEF SoundIInv, ECTypeIInv, TypeIInv, TypeInv, LocalTypes
<1>2. Len(list) \in Nat /\ \A j \in 1..Len(list) : list[j] \in Readings
  BY <1>1, TsIsInt, ReadingsAreTimed
<1>3. \A r \in Readings : r.ts \in Int /\ r.value \in Int
  BY TimesAssumption, MaxPowerAssumption DEF Readings, Entry
<1>4. \A e \in Entries(list) : e \in Readings /\ e.ts \in Int /\ e.value \in Int
  BY <1>2, <1>3 DEF Entries
<1>5. MaxPower \in Int /\ MaxOffline \in Nat
  BY MaxPowerAssumption, DelayAssumption
<1>6. EmulatedTs \in Int /\ Emulated \in Readings
  BY <1>1, EmulatedIsReading
<1> QED BY <1>1, <1>2, <1>4, <1>5, <1>6, MaxNowAssumption

(* The meter is judged: it is silent, and what it said last is too low to   *)
(* stay in force, or is not.                                                *)
LEMMA CheckKeepsOffline ==
  ASSUME SoundIInv, CheckMeter
  PROVE  OfflineIInv'
<1>1. /\ offline' = SilentSince(list)
      /\ phase' = IF SilentSince(list) /\ IsLow(list) THEN "emulate" ELSE "report"
      /\ UNCHANGED <<list, now, ts, disturbed, overlapped>>
  BY DEF CheckMeter, vars
<1> SUFFICES ASSUME Undisturbed'
             PROVE  /\ phase' = "emulate" => AllBefore'
                    /\ phase' = "report" =>
                         (\E e \in Entries(list) : EndsAt(e) /\ e.value >= MaxPower /\ e.ts <= ts)'
  BY <1>1 DEF OfflineIInv
<1>2. SilentSince(list) /\ ts = now /\ ~overlapped
  BY <1>1 DEF Undisturbed
<1>3. StrictlySorted(list)
  BY <1>2 DEF SoundIInv, Separate, IInv, Sorted
<1>ty. /\ list \in Seq(Readings) /\ Len(list) \in Nat /\ ts \in Int /\ now \in Int
       /\ \A e \in Entries(list) : e.ts \in Int /\ e.value \in Int
       /\ MaxPower \in Int /\ MaxOffline \in Nat
  BY StatusTypes
<1>4. CASE list = <<>>
  <2>1. Entries(list) = {}
    BY <1>4 DEF Entries
  <2>2. phase' = "emulate"
    BY <1>1, <1>2, <1>4 DEF IsLow
  <2> QED BY <2>1, <2>2, <1>1 DEF AllBefore
<1>5. CASE list # <<>>
  <2> DEFINE last == list[Len(list)]
  <2>1. Len(list) \in 1..Len(list) /\ last \in Entries(list)
    <3>1. Len(list) # 0
      BY <1>5, <1>ty, EmptySeq
    <3>2. Len(list) \in 1..Len(list)
      BY <3>1, <1>ty
    <3> QED BY <3>2 DEF Entries
  <2>2. \A f \in Entries(list) : f.ts <= last.ts
    <3> SUFFICES ASSUME NEW j \in 1..Len(list) PROVE list[j].ts <= last.ts
      BY DEF Entries
    <3>1. list[j] \in Entries(list)
      BY DEF Entries
    <3>2. j = Len(list) \/ list[j].ts < last.ts
      BY <2>1, <1>3, <1>ty DEF StrictlySorted
    <3> QED BY <3>1, <3>2, <2>1, <1>ty
  <2>3. last.ts < ts - MaxOffline
    BY <2>1, <1>2, <1>5, <1>ty DEF SilentSince
  <2>4. AllBefore
    BY <2>1, <2>2, <2>3, <1>ty DEF AllBefore, EmulatedTs
  <2>5. ASSUME phase' = "report" PROVE last.value >= MaxPower
    BY <2>5, <2>1, <1>1, <1>2, <1>5, <1>ty DEF IsLow
  <2>6. EndsAt(last) /\ last.ts <= ts
    BY <2>1, <2>2, <2>3, <1>ty DEF EndsAt
  <2>7. AllBefore'
    BY <2>4, <1>1 DEF AllBefore, EmulatedTs
  <2>8. EndsAt(last)'
    BY <2>6, <1>1 DEF EndsAt
  <2> QED BY <2>1, <2>5, <2>6, <2>7, <2>8, <1>1
<1> QED BY <1>4, <1>5

(* ... it is emulated ... *)
LEMMA EmulateKeepsOffline ==
  ASSUME OfflineInv, Emulate
  PROVE  OfflineIInv'
<1>1. /\ Insert(Main, Emulated) /\ phase = "emulate" /\ phase' = "inserting"
      /\ UNCHANGED <<list, now, ts, offline, disturbed>>
  BY DEF Emulate, Insert, Emulated
<1>2. pc'[Main] = "idx" /\ entry'[Main] = Emulated
  <2>1. pc \in [Writers -> Searches \cup
                   {"idle", "put", "crop", "slice", "bind", "save", "raised"}]
        /\ entry \in [Writers -> Readings \cup {NoEntry}]
    BY DEF OfflineInv, SoundIInv, ECTypeIInv, TypeIInv, TypeInv
  <2> QED BY <1>1, <2>1, Threads DEF Insert, Goto
<1>3. Undisturbed' => Undisturbed
  <2>1. ~overlapped' => ~overlapped
    BY DEF Emulate, Watch
  <2> QED BY <1>1, <2>1 DEF Undisturbed
<1>4. Undisturbed' => AllBefore
  BY <1>1, <1>3 DEF OfflineInv, OfflineIInv
<1>5. Emulated' = Emulated /\ (AllBefore => AllBefore')
  BY <1>1 DEF Emulated, EmulatedTs, AllBefore
<1> QED BY <1>1, <1>2, <1>4, <1>5 DEF OfflineIInv, Cropping

(* ... it is inserted behind all others, cut and searched ... *)
LEMMA InsertingKeepsOffline ==
  ASSUME OfflineInv, EmulateStep, KeepsEmulated
  PROVE  OfflineIInv'
<1>1. /\ Step(Main) /\ phase = "inserting" /\ pc[Main] # "idle"
      /\ phase' = IF pc'[Main] = "idle" THEN "report" ELSE "inserting"
      /\ UNCHANGED <<ts, offline, disturbed>>
  BY DEF EmulateStep
<1>2. UNCHANGED now
  BY <1>1 DEF Step, Insert, Search, Put, AutoCrop, CopySlice, Rebind, Save
<1> SUFFICES ASSUME Undisturbed' PROVE OfflineIInv'
  BY DEF OfflineIInv
<1>3. Undisturbed /\ ~overlapped'
  <2>1. ~overlapped' => ~overlapped
    BY DEF EmulateStep, Watch
  <2> QED BY <1>1, <1>2, <2>1 DEF Undisturbed
<1>4. SoundIInv /\ IInv /\ TypeInv /\ WriterInv(Main) /\ StrictlySorted(list)
  BY <1>3, Threads DEF OfflineInv, SoundIInv, Undisturbed, Separate, IInv, Sorted
<1>5. /\ entry[Main] = Emulated
      /\ pc[Main] \in {"idx", "put"} => AllBefore
      /\ pc[Main] \in Cropping => cropAt[Main] = now
      /\ pc[Main] \in Cropping \cup {"crop", "save"} => EndsAt(Emulated)
  BY <1>1, <1>3 DEF OfflineInv, OfflineIInv
<1>6. Emulated' = Emulated /\ EmulatedTs' = EmulatedTs /\ ts = now
  BY <1>1, <1>3 DEF Emulated, EmulatedTs, Undisturbed
<1>7. list' = list => (AllBefore => AllBefore') /\ (EndsAt(Emulated) => EndsAt(Emulated)')
  BY <1>6 DEF AllBefore, EndsAt
<1>ty. /\ list \in Seq(Readings) /\ ts \in Int /\ now \in Int
       /\ EmulatedTs \in Int /\ Emulated \in Readings
       /\ MaxPower \in Int /\ MaxOffline \in Nat
       /\ \A e \in Entries(list) : e.ts \in Int
       /\ pc[Main] \in Searches \cup {"idle", "put", "crop", "slice", "bind", "save", "raised"}
  BY <1>4, StatusTypes
<1>fn. /\ pc \in [Writers -> Searches \cup
                     {"idle", "put", "crop", "slice", "bind", "save", "raised"}]
       /\ entry \in [Writers -> Readings \cup {NoEntry}] /\ cropAt \in [Writers -> 0..MaxNow]
       /\ Main \in Writers
  BY <1>4, Threads DEF TypeInv
<1>8. CASE \E e \in Readings : Insert(Main, e)
  BY <1>1, <1>8 DEF Insert
<1>9. CASE Search(Main)
  <2>1. /\ pc[Main] \in Searches /\ UNCHANGED <<list, entry, cropAt>>
        /\ pc'[Main] = pc[Main] \/ pc'[Main] = After[pc[Main]]
    BY <1>9, <1>fn DEF Search, Goto
  <2>2. \/ pc[Main] = "idx" /\ pc'[Main] \in {"idx", "put"}
        \/ pc[Main] = "from_idx" /\ pc'[Main] \in Cropping
        \/ pc[Main] = "to_idx" /\ pc'[Main] \in Cropping
    BY <2>1 DEF Searches, After, Cropping
  <2>3. phase' = "inserting" /\ pc'[Main] # "idle"
    BY <1>1, <2>2 DEF Cropping
  <2>4. CASE pc[Main] = "idx"
    <3>1. AllBefore'
      BY <1>5, <1>7, <2>1, <2>4
    <3>2. pc'[Main] \in {"idx", "put"}
      BY <2>2, <2>4
    <3> QED BY <1>5, <1>6, <2>1, <2>3, <3>1, <3>2 DEF OfflineIInv, Cropping
  <2>5. CASE pc[Main] \in {"from_idx", "to_idx"}
    <3>1. pc[Main] \in Cropping /\ pc'[Main] \in Cropping
      BY <2>2, <2>5 DEF Cropping
    <3>2. EndsAt(Emulated)' /\ cropAt'[Main] = now'
      BY <1>2, <1>5, <1>7, <2>1, <3>1
    <3> QED BY <1>5, <1>6, <2>1, <2>3, <3>1, <3>2 DEF OfflineIInv, Cropping
  <2> QED BY <2>2, <2>4, <2>5
<1>10. CASE Put(Main)
  <2>1. /\ pc[Main] = "put" /\ pc'[Main] = "crop" /\ UNCHANGED entry
        /\ list' = PutAt(list, found[Main].idx, Emulated)
    BY <1>10, <1>5, <1>fn DEF Put, Goto
  <2>2. Divides(list, found[Main].idx, Emulated.ts)
    BY <1>4, <1>5, <2>1 DEF WriterInv
  <2>3. Entries(list') = {r \in Entries(list) : r.ts # Emulated.ts} \cup {Emulated}
    BY <1>4, <1>ty, <2>1, <2>2, PutAtIs, ReadingsAreTimed
  <2>4. AllBefore /\ Emulated.ts = EmulatedTs
    BY <1>5, <2>1 DEF Emulated
  <2>5. \A f \in Entries(list') : f.ts <= EmulatedTs
    BY <2>3, <2>4, <1>ty DEF AllBefore
  <2>6. EndsAt(Emulated)'
    BY <2>3, <2>4, <2>5, <1>6 DEF EndsAt
  <2> QED BY <1>1, <1>5, <1>6, <2>1, <2>6 DEF OfflineIInv, Cropping
<1>11. CASE AutoCrop(Main)
  <2>1. pc[Main] = "crop" /\ UNCHANGED <<list, entry>>
    BY <1>11 DEF AutoCrop
  <2>2. EndsAt(Emulated)' /\ list # <<>>
    <3>1. EndsAt(Emulated) /\ list # <<>>
      BY <1>5, <1>4, <2>1 DEF WriterInv
    <3> QED BY <3>1, <2>1, <1>7
  <2>3. (pc'[Main] = "from_idx" /\ cropAt'[Main] = now) \/ pc'[Main] = "save"
    BY <1>11, <1>fn, <2>2 DEF AutoCrop, Goto
  <2>4. phase' = "inserting"
    BY <1>1, <2>3
  <2> QED BY <1>2, <1>5, <1>6, <2>1, <2>2, <2>3, <2>4 DEF OfflineIInv, Cropping
<1>12. CASE CopySlice(Main)
  <2>1. pc[Main] = "slice" /\ pc'[Main] = "bind" /\ UNCHANGED <<list, entry, cropAt>>
    BY <1>12, <1>fn DEF CopySlice, Goto
  <2>2. EndsAt(Emulated)' /\ cropAt'[Main] = now'
    BY <1>2, <1>5, <1>7, <2>1 DEF Cropping
  <2> QED BY <1>1, <1>5, <1>6, <2>1, <2>2 DEF OfflineIInv, Cropping
<1>13. CASE Rebind(Main)
  <2>1. pc[Main] = "bind" /\ pc'[Main] = "save" /\ UNCHANGED entry /\ list' = copied[Main]
    BY <1>13, <1>fn DEF Rebind, Goto
  <2>2. Age > 0 /\ Entries(list') = {e \in Entries(list) : InWindow(e, now)}
    BY <1>4, <1>5, <2>1 DEF WriterInv, Cropping
  <2>3. EndsAt(Emulated)
    BY <1>5, <2>1 DEF Cropping
  <2>4. InWindow(Emulated, now)
    BY <1>6, <1>ty, <2>2, AgeAssumption
       DEF InWindow, CropFrom, CropTo, Emulated, EmulatedTs, KeepsEmulated
  <2>5. EndsAt(Emulated)'
    BY <1>6, <2>2, <2>3, <2>4 DEF EndsAt
  <2> QED BY <1>1, <1>5, <1>6, <2>1, <2>5 DEF OfflineIInv, Cropping
<1>14. CASE Save(Main)
  <2>1. pc[Main] = "save" /\ pc'[Main] = "idle" /\ UNCHANGED list
    BY <1>14, <1>fn DEF Save, Goto
  <2>2. EndsAt(Emulated)' /\ Emulated \in Entries(list')
    BY <1>5, <1>6, <1>7, <2>1 DEF EndsAt
  <2>3. Emulated.value >= MaxPower /\ Emulated.ts <= ts'
    BY <1>1, <1>ty DEF Emulated, EmulatedTs
  <2> QED BY <1>1, <1>6, <2>1, <2>2, <2>3 DEF OfflineIInv
<1> QED BY <1>1, <1>8, <1>9, <1>10, <1>11, <1>12, <1>13, <1>14 DEF Step

LEMMA NextTsPast ==
  ASSUME SoundIInv, TsPast, [ECNext]_ecVars
  PROVE  TsPast'
<1>ty. ts \in Int /\ now \in Int
  BY StatusTypes
<1>1. CASE ClockStep
  BY <1>1, <1>ty DEF ClockStep, Tick, TsPast
<1>2. CASE StartStatus
  BY <1>2, <1>ty DEF StartStatus, vars, TsPast
<1>3. CASE Report
  BY <1>3 DEF Report, TsPast
<1>4. CASE MeterStep \/ Emulate \/ EmulateStep
  <2>1. (UNCHANGED <<now, ts>> /\ phase # "away") \/ UNCHANGED <<now, ts, phase>>
    <3>1. (\E w \in Writers : Step(w)) \/ Insert(Main, Emulated)
      BY <1>4, Threads DEF MeterStep, Emulate, EmulateStep, Emulated
    <3>2. UNCHANGED now
      BY <3>1 DEF Step, Insert, Search, Put, AutoCrop, CopySlice, Rebind, Save
    <3> QED BY <1>4, <3>2 DEF MeterStep, Emulate, EmulateStep
  <2> QED BY <2>1 DEF TsPast
<1>5. CASE ReadBuffer \/ CheckMeter \/ UNCHANGED ecVars
  <2>1. (UNCHANGED <<now, ts>> /\ phase # "away") \/ UNCHANGED <<now, ts, phase>>
    BY <1>5 DEF ReadBuffer, SeekFrom, SeekTo, ReadPre, ReadPost, AddEntry, AddEnds,
                RaiseIndexError, Needed, Reading, CheckMeter, ecVars, vars
  <2> QED BY <2>1 DEF TsPast
<1> QED BY <1>1, <1>2, <1>3, <1>4, <1>5 DEF ECNext

LEMMA NextOffline ==
  ASSUME OfflineInv, KeepsEmulated, [ECNext]_ecVars
  PROVE  OfflineInv'
<1>0. SoundIInv' /\ TsPast'
  BY NextSound, NextTsPast DEF OfflineInv
<1>1. CASE ClockStep
  <2>1. ts' = ts /\ now' = now + 1 /\ phase' = phase
    BY <1>1 DEF ClockStep, Tick
  <2>2. phase # "away" => ts' # now'
    BY <2>1, StatusTypes DEF OfflineInv, TsPast
  <2> QED BY <1>0, <2>1, <2>2 DEF OfflineInv, OfflineIInv, Undisturbed
<1>2. CASE MeterStep
  <2>1. phase # "away" => ~Undisturbed'
    BY <1>2 DEF MeterStep, Undisturbed
  <2>2. phase' = phase
    BY <1>2 DEF MeterStep
  <2> QED BY <1>0, <2>1, <2>2 DEF OfflineInv, OfflineIInv
<1>3. CASE StartStatus \/ ReadBuffer \/ Report
  <2>1. phase' \notin {"emulate", "inserting", "report"}
    BY <1>3 DEF StartStatus, ReadBuffer, SeekFrom, SeekTo, ReadPre, ReadPost, AddEntry, AddEnds,
                RaiseIndexError, Reading, Report
  <2> QED BY <1>0, <2>1 DEF OfflineInv, OfflineIInv
<1>4. CASE CheckMeter
  BY <1>0, <1>4, CheckKeepsOffline DEF OfflineInv
<1>5. CASE Emulate
  BY <1>0, <1>5, EmulateKeepsOffline DEF OfflineInv
<1>6. CASE EmulateStep
  BY <1>0, <1>6, InsertingKeepsOffline DEF OfflineInv
<1>7. CASE UNCHANGED ecVars
  <2>1. UNCHANGED <<list, now, pc, entry, cropAt, phase, ts, offline, disturbed, overlapped>>
    BY <1>7 DEF ecVars, vars
  <2> QED BY <1>0, <2>1 DEF OfflineInv, OfflineIInv, Undisturbed, AllBefore, EndsAt, EmulatedTs,
                            Emulated
<1> QED BY <1>1, <1>2, <1>3, <1>4, <1>5, <1>6, <1>7 DEF ECNext

(* ... and read back: the search for the present finds the last entry.      *)
LEMMA ReadsLastBack ==
  ASSUME list \in Seq(Readings), StrictlySorted(list), NEW t \in Int,
         NEW e \in Entries(list), EndsAt(e), e.ts <= t
  PROVE  ValueBefore(list, t) = e.value
<1> DEFINE i == GetIndex(list, t, InsertIndex)
<1>ts. Len(list) \in Nat /\ \A j \in 1..Len(list) : list[j].ts \in Int
  BY TsIsInt, ReadingsAreTimed
<1>1. Divides(list, i, t)
  BY GetIndexDivides, ReadingsAreTimed
<1>2. ValueBefore(list, t) = IF list = <<>> THEN 0
                             ELSE IF i >= Len(list) THEN list[Len(list)].value
                             ELSE IF i <= 0 THEN list[1].value
                             ELSE IF list[i+1].ts = t THEN list[i+1].value ELSE list[i].value
  BY Zenon DEF ValueBefore
<1> HIDE DEF i
<1>3. PICK k \in 1..Len(list) : list[k] = e
  BY DEF Entries
<1>4. \A j \in 1..Len(list) : list[j].ts <= e.ts
  BY DEF EndsAt, Entries
<1>5. k = Len(list) /\ list # <<>>
  <2>1. Len(list) \in 1..Len(list) /\ list # <<>>
    BY <1>3, <1>ts, EmptySeq
  <2>2. ~(list[k].ts < list[Len(list)].ts)
    BY <1>3, <1>4, <1>ts, <2>1
  <2>3. ~(k < Len(list))
    BY <1>3, <2>1, <2>2 DEF StrictlySorted
  <2> QED BY <1>3, <1>ts, <2>1, <2>3
<1>6. i \in 0..Len(list)
  BY <1>1 DEF Divides
<1>7. CASE i >= Len(list)
  BY <1>2, <1>3, <1>5, <1>7
<1>8. CASE i < Len(list)
  <2>1. i+1 \in i+1..Len(list) /\ Len(list) \in i+1..Len(list) /\ i+1 \in 1..Len(list)
    BY <1>6, <1>8, <1>ts
  <2>2. t <= list[i+1].ts /\ t <= list[Len(list)].ts
    BY <1>1, <2>1 DEF Divides
  <2>3. ~(list[i+1].ts < list[Len(list)].ts)
    BY <1>3, <1>5, <1>ts, <2>1, <2>2
  <2>4. i+1 = Len(list)
    <3>1. ~(i+1 < Len(list))
      BY <2>1, <2>3, <1>3, <1>5 DEF StrictlySorted
    <3> QED BY <3>1, <1>6, <1>8, <1>ts
  <2>5. list[i+1].ts = t /\ (i <= 0 => i+1 = 1)
    BY <1>3, <1>5, <1>6, <1>ts, <2>2, <2>4
  <2>6. ValueBefore(list, t) = list[i+1].value
    <3>1. ~(i >= Len(list))
      BY <1>6, <1>8, <1>ts
    <3>2. CASE i <= 0
      BY <1>2, <1>5, <2>5, <3>1, <3>2
    <3>3. CASE ~(i <= 0)
      BY <1>2, <1>5, <2>5, <3>1, <3>3
    <3> QED BY <3>2, <3>3
  <2> QED BY <1>3, <1>5, <2>4, <2>6
<1> QED BY <1>6, <1>7, <1>8, <1>ts

LEMMA ReportReadsBack ==
  ASSUME OfflineInv, [ECNext]_ecVars
  PROVE  [Report /\ offline /\ ts = now /\ ~disturbed /\ ~overlapped
            => power' >= MaxPower]_ecVars
<1> SUFFICES ASSUME Report, Undisturbed PROVE power' >= MaxPower
  BY DEF Undisturbed
<1>1. power' = ValueBefore(list, ts) /\ phase = "report"
  BY DEF Report
<1>2. PICK e \in Entries(list) : EndsAt(e) /\ e.value >= MaxPower /\ e.ts <= ts
  BY <1>1 DEF OfflineInv, OfflineIInv
<1>3. StrictlySorted(list)
  BY DEF OfflineInv, SoundIInv, Undisturbed, Separate, IInv, Sorted
<1>4. list \in Seq(Readings) /\ ts \in Int
  BY StatusTypes DEF OfflineInv
<1>5. ValueBefore(list, ts) = e.value
  BY <1>2, <1>3, <1>4, ReadsLastBack
<1> QED BY <1>1, <1>2, <1>5

(* While the two threads stay apart, a status that finds the meter silent   *)
(* and has no reading come in meanwhile reports at least the allowed power  *)
(* (energy_calc.py:121), if the power buffer keeps readings as long as the  *)
(* meter may be silent: it keeps 7 hours (energy_calc.py), the silence is   *)
(* max_offline_time, by default 10 minutes.                                 *)
THEOREM OfflineIsReported ==
  ASSUME KeepsEmulated
  PROVE  ECSpec => OfflineReportsMaxPower
<1>1. ECInit => OfflineInv
  BY InitSound DEF OfflineInv, OfflineIInv, TsPast, ECInit
<1>2. OfflineInv /\ [ECNext]_ecVars => OfflineInv'
  BY NextOffline
<1>3. OfflineInv /\ [ECNext]_ecVars =>
        [Report /\ offline /\ ts = now /\ ~disturbed /\ ~overlapped
           => power' >= MaxPower]_ecVars
  BY ReportReadsBack
<1> QED BY <1>1, <1>2, <1>3, PTL DEF ECSpec, OfflineReportsMaxPower

-----------------------------------------------------------------------------
(* integrate, read by read, while paho's thread may insert in between.      *)

(* Power of one direction: never negative, and with a greatest value.       *)
OneDirection == Values \subseteq Nat /\ \E g \in Values : \A v \in Values : v <= g
Greatest == Max(Values)

Started == {"idx_to", "pre", "post", "loop"}

(* Unless entries were moved, the indexes in use are in order, no entry     *)
(* before the first one is in the period, and the sum is at most what flows *)
(* at the greatest power between the first entry and the one reached.       *)
Placed ==
  /\ phase \in Started =>
       query.from < Len(list) /\ \A j \in 1..query.from : list[j].ts < TsFrom
  /\ phase \in {"pre", "post", "loop"} =>
       /\ query.from <= query.to /\ query.to < Len(list)
       /\ list[query.to+1].ts <= ts \/ query.to = query.from
  /\ phase = "loop" =>
       /\ query.from <= query.idx /\ query.idx <= query.to
       /\ 0 <= query.sum
       /\ query.sum <= Greatest * (list[query.idx+1].ts - list[query.from+1].ts)

(* If the list is still the one that was searched first, what was read so   *)
(* far is what is read of that list at one go.                              *)
Exact ==
  /\ phase \in Started => list # <<>> /\ query.from = FirstTaken(list, TsFrom)
  /\ phase \in {"pre", "post", "loop"} => query.to = LastTaken(list, TsFrom, ts)
  /\ phase \in {"post", "loop"} => query.pre = InForce(list, TsFrom)
  /\ phase = "loop" =>
       query.post = InForce(list, ts) /\ query.sum = WholeGaps(list, query.from, query.idx)

EnergyIInv ==
  /\ phase \notin Started => query = NoQuery
  /\ phase \in {"idx_to", "pre", "post"} => query.idx = query.from /\ query.sum = 0
  /\ ~overlapped /\ meanwhile # "moved" => Placed
  /\ ~overlapped /\ meanwhile = "still" => Exact

LEMMA GreatestIs ==
  ASSUME OneDirection
  PROVE  Greatest \in Nat /\ \A v \in Values \cup {0} : v \in Nat /\ v <= Greatest
<1>1. PICK g \in Values : \A v \in Values : v <= g
  BY DEF OneDirection
<1>2. Values \subseteq Int /\ Values \subseteq Nat
  BY DEF OneDirection
<1>3. Max(Values) = g
  BY <1>1, <1>2, MaxIs
<1> QED BY <1>1, <1>2, <1>3 DEF Greatest

LEMMA TsFromIsBefore ==
  ASSUME ts \in Int
  PROVE  TsFrom \in Int /\ TsFrom <= ts
<1>1. Duration \in Int /\ Duration > 0
  BY DurationAssumption
<1>2. Duration * (ts \div Duration) <= ts
  BY <1>1, DivisionIs
<1> QED BY <1>2, TsFromIsInt DEF TsFrom

LEMMA ListIsMeteredHere ==
  ASSUME ECTypeIInv, Sorted
  PROVE  /\ Metered(list) /\ list \in Seq(Readings) /\ Timed(Readings)
         /\ \A j \in 1..Len(list) : list[j].ts \in Int /\ list[j].value \in Values
<1>1. list \in Seq(Readings) /\ Len(list) \in Nat /\ (list # <<>> => Len(list) > 0)
  BY ListTypes
<1>2. \A j \in 1..Len(list) : list[j] \in Readings
  BY <1>1, ElementOfSeq
<1>3. \A r \in Readings : r.ts \in Int /\ r.value \in Values /\ r.value \in Int
  BY TimesAssumption, MaxPowerAssumption DEF Readings, Entry
<1> QED BY <1>1, <1>2, <1>3, ReadingsAreTimed DEF Metered, Sorted

LEMMA SoundIsSorted ==
  ASSUME SoundIInv, ~overlapped
  PROVE  ECTypeIInv /\ Sorted
BY DEF SoundIInv, Separate, IInv

(* What a search for reading finds.                                         *)
LEMMA SeekPlaces ==
  ASSUME ECTypeIInv, Sorted, list # <<>>, NEW t \in Int
  PROVE  /\ Seek(t) \in 0..Len(list)-1
         /\ \A j \in 1..Seek(t) : list[j].ts < t
         /\ t <= list[Seek(t)+1].ts \/ Seek(t) = Len(list)-1
<1> DEFINE i == GetIndex(list, t, InsertIndex)
           k == Seek(t)
<1>m. Metered(list) /\ list \in Seq(Readings) /\ Timed(Readings)
  BY ListIsMeteredHere
<1>1. Divides(list, i, t) /\ k = IF i < Len(list) THEN i ELSE Len(list) - 1
  BY <1>m, GetIndexDivides DEF Sorted, Seek
<1>2. Len(list) \in Nat /\ Len(list) > 0
  BY <1>m DEF Metered
<1> HIDE DEF i, k
<1>3. /\ i \in 0..Len(list)
      /\ \A j \in 1..i : list[j].ts < t
      /\ \A j \in i+1..Len(list) : t <= list[j].ts
  BY <1>1 DEF Divides
<1>4. k \in 0..Len(list)-1 /\ \A j \in 1..k : j \in 1..i
  BY <1>1, <1>2, <1>3
<1>5. t <= list[k+1].ts \/ k = Len(list)-1
  <2>1. i < Len(list) => i+1 \in i+1..Len(list)
    BY <1>2, <1>3
  <2> QED BY <2>1, <1>1, <1>3
<1> QED BY <1>3, <1>4, <1>5 DEF k

LEMMA ValueBeforeIsInForce ==
  ASSUME ECTypeIInv, Sorted, list # <<>>, NEW t \in Int
  PROVE  ValueBefore(list, t) = InForce(list, t)
<1> DEFINE i == GetIndex(list, t, InsertIndex)
<1>m. Metered(list) /\ list \in Seq(Readings) /\ Timed(Readings)
  BY ListIsMeteredHere
<1>1. Divides(list, i, t)
  BY <1>m, GetIndexDivides DEF Sorted
<1>2. ValueBefore(list, t) = IF i >= Len(list) THEN list[Len(list)].value
                             ELSE IF i <= 0 THEN list[1].value
                             ELSE IF list[i+1].ts = t THEN list[i+1].value ELSE list[i].value
  BY Zenon DEF ValueBefore
<1> HIDE DEF i
<1> QED BY <1>m, <1>1, <1>2, InForceIs

(* Of a range of readings no more is taken than flows at the greatest power *)
LEMMA NoMoreThan ==
  ASSUME NEW v \in Nat, NEW g \in Nat, v <= g, NEW d \in Nat
  PROVE  0 <= v * d /\ v * d <= g * d /\ v * d \in Int /\ g * d \in Int
<1>1. g - v \in Nat
  OBVIOUS
<1>2. (g - v) * d \in Nat /\ v * d \in Nat /\ g * d \in Nat
  BY <1>1
<1>3. g * d = v * d + (g - v) * d
  OBVIOUS
<1> QED BY <1>2, <1>3

-----------------------------------------------------------------------------
LEMMA InitEnergy == ECInit => EnergyIInv
BY DEF ECInit, EnergyIInv, Placed, Exact, Started

(* A read leaves the list, the ends and the history as they are.            *)
LEMMA ReadKeeps ==
  ASSUME ReadBuffer
  PROVE  /\ list' = list /\ ts' = ts /\ TsFrom' = TsFrom
         /\ meanwhile' = meanwhile /\ overlapped' = overlapped
<1>1. list' = list /\ ts' = ts /\ meanwhile' = meanwhile /\ overlapped' = overlapped
  BY DEF ReadBuffer, SeekFrom, SeekTo, ReadPre, ReadPost, AddEntry, AddEnds,
         RaiseIndexError, Reading, vars
<1> QED BY <1>1 DEF TsFrom

LEMMA SeekFromEnergy ==
  ASSUME SoundIInv, EnergyIInv, SeekFrom
  PROVE  EnergyIInv'
<1>k. /\ list' = list /\ ts' = ts /\ TsFrom' = TsFrom
      /\ meanwhile' = meanwhile /\ overlapped' = overlapped
  BY ReadKeeps DEF ReadBuffer
<1>0. phase = "idx_from" /\ query = NoQuery
  BY DEF SeekFrom, Reading, EnergyIInv, Started
<1>1. CASE list = <<>>
  <2>1. phase' = "check" /\ query' = query
    BY <1>1 DEF SeekFrom, Reading
  <2> QED BY <1>0, <2>1 DEF EnergyIInv, Placed, Exact, Started
<1>2. CASE list # <<>>
  <2>1. phase' = "idx_to" /\ query' = [query EXCEPT !.from = Seek(TsFrom), !.idx = Seek(TsFrom)]
    BY <1>2 DEF SeekFrom, Reading
  <2>2. query'.from = Seek(TsFrom) /\ query'.idx = Seek(TsFrom) /\ query'.sum = 0
    BY <2>1, <1>0 DEF NoQuery
  <2>3. ~overlapped => Placed'
    <3> SUFFICES ASSUME ~overlapped PROVE Placed'
      OBVIOUS
    <3>1. ECTypeIInv /\ Sorted /\ TsFrom \in Int /\ Len(list) \in Nat
      BY SoundIsSorted, ListTypes
    <3>2. Seek(TsFrom) \in 0..Len(list)-1 /\ \A j \in 1..Seek(TsFrom) : list[j].ts < TsFrom
      BY <3>1, <1>2, SeekPlaces
    <3>3. query'.from < Len(list') /\ \A j \in 1..query'.from : list'[j].ts < TsFrom'
      BY <3>1, <3>2, <2>2, <1>k
    <3> QED BY <3>3, <2>1 DEF Placed
  <2>4. Exact'
    BY <2>1, <2>2, <1>2, <1>k DEF Exact, FirstTaken, Seek
  <2> QED BY <2>1, <2>2, <2>3, <2>4, <1>k DEF EnergyIInv, Started
<1> QED BY <1>1, <1>2

LEMMA SeekToEnergy ==
  ASSUME SoundIInv, EnergyIInv, SeekTo
  PROVE  EnergyIInv'
<1>k. /\ list' = list /\ ts' = ts /\ TsFrom' = TsFrom
      /\ meanwhile' = meanwhile /\ overlapped' = overlapped
  BY ReadKeeps DEF ReadBuffer
<1>q. query \in [from : Nat, to : Nat, idx : Nat,
                 pre : Values \cup {0}, post : Values \cup {0}, sum : Int]
  BY DEF SoundIInv, ECTypeIInv, LocalTypes
<1> DEFINE i == Seek(ts)
           last == IF i < Len(list) /\ list[i+1].ts > ts
                   THEN IF i - 1 > query.from THEN i - 1 ELSE query.from
                   ELSE i
<1>1. list # <<>> /\ phase = "idx_to" /\ phase' = "pre" /\ query' = [query EXCEPT !.to = last]
  BY DEF SeekTo, Reading
<1>ty. list \in Seq(Readings) /\ Len(list) \in Nat /\ ts \in Int /\ TsFrom \in Int
  BY ListTypes DEF SoundIInv
<1>s. i \in Nat /\ i < Len(list)
  BY <1>1, <1>ty, SeekIs
<1>i. i = GetIndex(list, ts, ReadIndex)
  BY DEF Seek
<1>l. last = IF list[i+1].ts > ts
             THEN IF i - 1 > query.from THEN i - 1 ELSE query.from ELSE i
  BY <1>s
<1> HIDE DEF last
<1>e. last = LastFull(list, query.from, i, ts)
  <2>1. query.from \in Int /\ i \in Int
    BY <1>q, <1>s
  <2>2. last = IF list[i+1].ts > ts
               THEN IF query.from > i - 1 THEN query.from ELSE i - 1 ELSE i
    BY <1>l, <2>1
  <2> QED BY <2>2, Zenon DEF LastFull
<1>2. /\ query'.from = query.from /\ query'.to = last
      /\ query'.idx = query.idx /\ query'.sum = query.sum
  BY <1>1, <1>q
<1>3. query.idx = query.from /\ query.sum = 0
  BY <1>1 DEF EnergyIInv
<1>4. ~overlapped /\ meanwhile # "moved" => Placed'
  <2> SUFFICES ASSUME ~overlapped, meanwhile # "moved" PROVE Placed'
    OBVIOUS
  <2>1. Placed /\ ECTypeIInv /\ Sorted
    BY SoundIsSorted DEF EnergyIInv
  <2>2. query.from < Len(list) /\ \A j \in 1..query.from : list[j].ts < TsFrom
    BY <2>1, <1>1 DEF Placed, Started
  <2>3. /\ i \in 0..Len(list)-1 /\ \A j \in 1..i : list[j].ts < ts
        /\ ts <= list[i+1].ts \/ i = Len(list)-1
    BY <2>1, <1>1, <1>ty, SeekPlaces
  <2>4. \A j \in 1..Len(list) : list[j].ts \in Int
    BY <2>1, ListIsMeteredHere
  <2>5. query.from \in Nat /\ TsFrom <= ts
    BY <1>q, <1>ty, TsFromIsBefore
  <2> HIDE DEF i
  <2>6. query.from <= i
    <3> SUFFICES ASSUME i < query.from PROVE FALSE
      BY <2>3, <2>5
    <3>1. i+1 \in 1..query.from /\ i+1 \in 1..Len(list) /\ i # Len(list)-1
      BY <2>2, <2>3, <2>5, <1>ty
    <3> QED BY <3>1, <2>2, <2>3, <2>4, <2>5, <1>ty
  <2>7. /\ query.from <= last /\ last < Len(list)
        /\ list[last+1].ts <= ts \/ last = query.from
    <3>1. CASE ~(list[i+1].ts > ts)
      <4>1. last = i /\ i+1 \in 1..Len(list)
        BY <3>1, <1>l, <2>3, <1>ty
      <4> QED BY <4>1, <3>1, <2>3, <2>4, <2>6, <1>ty
    <3>2. CASE list[i+1].ts > ts /\ i - 1 > query.from
      <4>1. last = i-1 /\ i \in 1..i /\ i \in 1..Len(list) /\ last+1 = i
        BY <3>2, <1>l, <2>3, <2>5, <1>ty
      <4>2. list[last+1].ts <= ts
        BY <4>1, <2>3, <2>4, <1>ty
      <4> QED BY <4>1, <4>2, <3>2, <2>3, <2>5, <1>ty
    <3>3. CASE list[i+1].ts > ts /\ ~(i - 1 > query.from)
      BY <3>3, <1>l, <2>2, <2>5, <1>ty
    <3> QED BY <3>1, <3>2, <3>3
  <2> QED BY <1>1, <1>2, <1>k, <2>2, <2>7 DEF Placed
<1>5. ~overlapped /\ meanwhile = "still" => Exact'
  <2> SUFFICES ASSUME ~overlapped, meanwhile = "still" PROVE Exact'
    OBVIOUS
  <2>1. query.from = FirstTaken(list, TsFrom)
    BY <1>1 DEF EnergyIInv, Exact, Started
  <2>2. last = LastTaken(list, TsFrom, ts)
    BY <2>1, <1>e, <1>i DEF LastTaken
  <2> QED BY <1>1, <1>2, <1>k, <2>1, <2>2 DEF Exact
<1> QED BY <1>1, <1>2, <1>3, <1>4, <1>5, <1>k DEF EnergyIInv, Started

LEMMA ReadEndsEnergy ==
  ASSUME OneDirection, SoundIInv, EnergyIInv, ReadPre \/ ReadPost
  PROVE  EnergyIInv'
<1>k. /\ list' = list /\ ts' = ts /\ TsFrom' = TsFrom
      /\ meanwhile' = meanwhile /\ overlapped' = overlapped
  BY ReadKeeps DEF ReadBuffer
<1>q. query \in [from : Nat, to : Nat, idx : Nat,
                 pre : Values \cup {0}, post : Values \cup {0}, sum : Int]
  BY DEF SoundIInv, ECTypeIInv, LocalTypes
<1>ty. list \in Seq(Readings) /\ Len(list) \in Nat /\ ts \in Int /\ TsFrom \in Int
  BY ListTypes DEF SoundIInv
<1>1. /\ query'.from = query.from /\ query'.to = query.to
      /\ query'.idx = query.idx /\ query'.sum = query.sum
  BY <1>q DEF ReadPre, ReadPost, Reading
<1>2. /\ phase \in {"pre", "post"} /\ phase' = (IF phase = "pre" THEN "post" ELSE "loop")
      /\ phase = "pre" => query'.pre = ValueBefore(list, TsFrom)
      /\ phase = "post" => query'.pre = query.pre /\ query'.post = ValueBefore(list, ts)
  BY <1>q DEF ReadPre, ReadPost, Reading
<1>3. query.idx = query.from /\ query.sum = 0
  BY <1>2 DEF EnergyIInv
<1>4. ~overlapped /\ meanwhile # "moved" => Placed'
  <2> SUFFICES ASSUME ~overlapped, meanwhile # "moved" PROVE Placed'
    OBVIOUS
  <2>1. Placed /\ ECTypeIInv /\ Sorted
    BY SoundIsSorted DEF EnergyIInv
  <2>2. /\ query.from < Len(list) /\ \A j \in 1..query.from : list[j].ts < TsFrom
        /\ query.from <= query.to /\ query.to < Len(list)
        /\ list[query.to+1].ts <= ts \/ query.to = query.from
    BY <2>1, <1>2 DEF Placed, Started
  <2>3. query.from \in Nat /\ query.from+1 \in 1..Len(list)
    BY <2>2, <1>q, <1>ty
  <2>4. list[query.from+1].ts \in Int
    BY <2>1, <2>3, ListIsMeteredHere
  <2>5. 0 <= query.sum
        /\ query.sum <= Greatest * (list[query.idx+1].ts - list[query.from+1].ts)
    <3>1. list[query.idx+1].ts - list[query.from+1].ts = 0
      BY <1>3, <2>4
    <3>2. Greatest \in Nat
      BY GreatestIs
    <3> QED BY <1>3, <3>1, <3>2
  <2>6. query.from <= query.idx /\ query.idx <= query.to
    BY <1>3, <2>2, <2>3
  <2> QED BY <1>1, <1>2, <1>k, <2>2, <2>5, <2>6 DEF Placed, Started
<1>5. ~overlapped /\ meanwhile = "still" => Exact'
  <2> SUFFICES ASSUME ~overlapped, meanwhile = "still" PROVE Exact'
    OBVIOUS
  <2>1. Exact /\ Placed /\ ECTypeIInv /\ Sorted
    BY SoundIsSorted DEF EnergyIInv
  <2>2. /\ list # <<>> /\ query.from = FirstTaken(list, TsFrom)
        /\ query.to = LastTaken(list, TsFrom, ts)
        /\ phase = "post" => query.pre = InForce(list, TsFrom)
    BY <2>1, <1>2 DEF Exact, Started
  <2>3. /\ ValueBefore(list, TsFrom) = InForce(list, TsFrom)
        /\ ValueBefore(list, ts) = InForce(list, ts)
    BY <2>1, <2>2, <1>ty, ValueBeforeIsInForce
  <2>4. query.sum = WholeGaps(list, query.from, query.idx)
    <3>1. query.from < Len(list)
      BY <2>1, <1>2 DEF Placed, Started
    <3>2. query.from \in 0..Len(list)-1
      BY <3>1, <1>q, <1>ty
    <3>3. Metered(list)
      BY <2>1, ListIsMeteredHere
    <3>4. WholeGaps(list, query.from, query.from) = 0
      BY <3>2, <3>3, GapsStep
    <3> QED BY <3>4, <1>3
  <2>5. query'.pre = InForce(list, TsFrom) /\ (phase = "post" => query'.post = InForce(list, ts))
    BY <1>2, <2>2, <2>3
  <2> QED BY <1>1, <1>2, <1>k, <2>2, <2>4, <2>5 DEF Exact, Started
<1> QED BY <1>1, <1>2, <1>3, <1>4, <1>5, <1>k DEF EnergyIInv, Started

LEMMA AddEntryEnergy ==
  ASSUME OneDirection, SoundIInv, EnergyIInv, AddEntry
  PROVE  EnergyIInv'
<1>k. /\ list' = list /\ ts' = ts /\ TsFrom' = TsFrom
      /\ meanwhile' = meanwhile /\ overlapped' = overlapped
  BY ReadKeeps DEF ReadBuffer
<1>q. query \in [from : Nat, to : Nat, idx : Nat,
                 pre : Values \cup {0}, post : Values \cup {0}, sum : Int]
  BY DEF SoundIInv, ECTypeIInv, LocalTypes
<1>ty. list \in Seq(Readings) /\ Len(list) \in Nat /\ ts \in Int /\ TsFrom \in Int
  BY ListTypes DEF SoundIInv
<1> DEFINE n == query.idx
           gap == list[n+1].value * (list[n+2].ts - list[n+1].ts)
<1>1. /\ phase = "loop" /\ phase' = "loop" /\ n < query.to /\ n+1 < Len(list)
      /\ query' = [query EXCEPT !.sum = query.sum + gap, !.idx = n + 1]
  BY DEF AddEntry, Reading
<1> HIDE DEF gap
<1>2. /\ query'.from = query.from /\ query'.to = query.to
      /\ query'.pre = query.pre /\ query'.post = query.post
      /\ query'.idx = n+1 /\ query'.sum = query.sum + gap
  BY <1>1, <1>q
<1>i. n \in Nat /\ query.from \in Nat /\ query.to \in Nat /\ query.sum \in Int
      /\ n+1 \in 1..Len(list) /\ n+2 \in 1..Len(list) /\ (n+1)+1 = n+2 /\ n+1 < n+2
  BY <1>q, <1>1, <1>ty
<1>4. ~overlapped /\ meanwhile # "moved" => Placed'
  <2> SUFFICES ASSUME ~overlapped, meanwhile # "moved" PROVE Placed'
    OBVIOUS
  <2>1. Placed /\ ECTypeIInv /\ Sorted
    BY SoundIsSorted DEF EnergyIInv
  <2>2. /\ query.from < Len(list) /\ \A j \in 1..query.from : list[j].ts < TsFrom
        /\ query.from <= query.to /\ query.to < Len(list)
        /\ list[query.to+1].ts <= ts \/ query.to = query.from
        /\ query.from <= n /\ n <= query.to
        /\ 0 <= query.sum
        /\ query.sum <= Greatest * (list[n+1].ts - list[query.from+1].ts)
    BY <2>1, <1>1 DEF Placed, Started
  <2> DEFINE x == list[query.from+1].ts
             y == list[n+1].ts
             z == list[n+2].ts
             v == list[n+1].value
  <2>3. x \in Int /\ y \in Int /\ z \in Int /\ v \in Values
    <3>1. query.from+1 \in 1..Len(list)
      BY <2>2, <1>i, <1>ty
    <3> QED BY <3>1, <1>i, <2>1, ListIsMeteredHere
  <2>4. y < z
    BY <2>1, <1>i DEF Sorted, StrictlySorted
  <2>5. v \in Nat /\ v <= Greatest /\ Greatest \in Nat
    BY <2>3, GreatestIs
  <2>6. gap = v * (z - y) /\ query.sum <= Greatest * (y - x)
    BY <2>2 DEF gap
  <2> HIDE DEF x, y, z, v
  <2>7. z - y \in Nat
    BY <2>3, <2>4
  <2>8. 0 <= gap /\ gap <= Greatest * (z - y) /\ gap \in Int
    BY <2>5, <2>6, <2>7, NoMoreThan
  <2>9. Greatest * (z - x) = Greatest * (y - x) + Greatest * (z - y)
        /\ Greatest * (y - x) \in Int /\ Greatest * (z - y) \in Int
    BY <2>3, <2>5
  <2>10. 0 <= query.sum + gap /\ query.sum + gap <= Greatest * (z - x)
    BY <2>2, <2>6, <2>8, <2>9, <1>i
  <2>11. query.sum + gap <= Greatest * (list[(n+1)+1].ts - list[query.from+1].ts)
    BY <2>10, <1>i DEF x, z
  <2>12. query.from <= n+1 /\ n+1 <= query.to
    BY <2>2, <1>1, <1>i
  <2> QED BY <1>1, <1>2, <1>k, <2>2, <2>10, <2>11, <2>12 DEF Placed, Started
<1>5. ~overlapped /\ meanwhile = "still" => Exact'
  <2> SUFFICES ASSUME ~overlapped, meanwhile = "still" PROVE Exact'
    OBVIOUS
  <2>1. Exact /\ Placed /\ ECTypeIInv /\ Sorted
    BY SoundIsSorted DEF EnergyIInv
  <2>2. /\ list # <<>> /\ query.from = FirstTaken(list, TsFrom)
        /\ query.to = LastTaken(list, TsFrom, ts)
        /\ query.pre = InForce(list, TsFrom) /\ query.post = InForce(list, ts)
        /\ query.sum = WholeGaps(list, query.from, n)
    BY <2>1, <1>1 DEF Exact, Started
  <2>3. query.from <= n /\ query.from \in 0..Len(list)-1 /\ n \in 0..Len(list)-1
    <3>1. query.from <= n
      BY <2>1, <1>1 DEF Placed
    <3> QED BY <3>1, <1>1, <1>i, <1>ty
  <2>4. Metered(list)
    BY <2>1, ListIsMeteredHere
  <2>5. WholeGaps(list, query.from, n+1) = query.sum + gap
    BY <2>2, <2>3, <2>4, <1>1, GapsStep DEF gap
  <2> QED BY <1>1, <1>2, <1>k, <2>2, <2>5 DEF Exact, Started
<1> QED BY <1>1, <1>2, <1>4, <1>5, <1>k DEF EnergyIInv, Started

LEMMA ReadEnergy ==
  ASSUME OneDirection, SoundIInv, EnergyIInv, ReadBuffer
  PROVE  EnergyIInv'
<1>1. CASE AddEnds \/ RaiseIndexError
  <2>1. phase' \in {"check", "raised"} /\ query' = NoQuery
    BY <1>1 DEF AddEnds, RaiseIndexError, Reading
  <2> QED BY <2>1 DEF EnergyIInv, Placed, Exact, Started
<1> QED BY <1>1, SeekFromEnergy, SeekToEnergy, ReadEndsEnergy, AddEntryEnergy DEF ReadBuffer

LEMMA MeterEnergy ==
  ASSUME ECTypeIInv, ECTypeIInv', EnergyIInv, MeterStep
  PROVE  EnergyIInv'
<1>0. /\ phase' = phase /\ ts' = ts /\ query' = query /\ TsFrom' = TsFrom
      /\ ~overlapped' => ~overlapped
  BY DEF MeterStep, Watch, TsFrom
<1>1. CASE phase \notin Started
  BY <1>0, <1>1 DEF EnergyIInv, Placed, Exact, Started
<1>2. CASE phase \in Started /\ list' = list
  <2>1. meanwhile' = meanwhile
    BY <1>2 DEF MeterStep
  <2> QED BY <1>0, <1>2, <2>1 DEF EnergyIInv, Placed, Exact, Started
<1>3. CASE phase \in Started /\ list' # list
  <2>1. /\ meanwhile' # "still"
        /\ meanwhile' # "moved" => meanwhile # "moved" /\ SamePlaces(list, list')
    BY <1>3 DEF MeterStep, Started, Integrating
  <2>2. ASSUME ~overlapped', meanwhile' # "moved" PROVE Placed'
    <3>1. Placed /\ SamePlaces(list, list')
      BY <2>1, <2>2, <1>0 DEF EnergyIInv
    <3>2. /\ list \in Seq(Readings) /\ list' \in Seq(Readings)
          /\ Len(list) \in Nat /\ Len(list') \in Nat /\ DOMAIN list = 1..Len(list)
      <4>1. list \in Seq(Readings) /\ list' \in Seq(Readings)
        BY DEF ECTypeIInv, TypeIInv, TypeInv
      <4> QED BY <4>1, LenProperties
    <3>3. Len(list) <= Len(list')
      BY <3>1, <3>2, SamePlacesGrow
    <3>4. \A j \in 1..Len(list) : list'[j].ts = list[j].ts
      BY <3>1, <3>2 DEF SamePlaces
    <3>q. query.from \in Nat /\ query.to \in Nat /\ query.idx \in Nat
      BY ListTypes
    <3>5. query.from < Len(list) /\ \A j \in 1..query.from : list[j].ts < TsFrom
      BY <3>1, <1>3 DEF Placed
    <3>6. query.from+1 \in 1..Len(list) /\ \A j \in 1..query.from : j \in 1..Len(list)
      BY <3>2, <3>5, <3>q
    <3>7. query.from < Len(list') /\ \A j \in 1..query.from : list'[j].ts < TsFrom
      BY <3>2, <3>3, <3>4, <3>5, <3>6, <3>q
    <3>8. ASSUME phase \in {"pre", "post", "loop"}
          PROVE  /\ query.from <= query.to /\ query.to < Len(list')
                 /\ list'[query.to+1].ts <= ts \/ query.to = query.from
                 /\ query.to+1 \in 1..Len(list)
      <4>1. /\ query.from <= query.to /\ query.to < Len(list)
            /\ list[query.to+1].ts <= ts \/ query.to = query.from
        BY <3>1, <3>8 DEF Placed
      <4>2. query.to+1 \in 1..Len(list)
        BY <4>1, <3>2, <3>q
      <4>3. query.to < Len(list')
        BY <4>1, <3>2, <3>3, <3>q
      <4> QED BY <4>1, <4>2, <4>3, <3>4
    <3>9. ASSUME phase = "loop"
          PROVE  /\ query.from <= query.idx /\ query.idx <= query.to
                 /\ 0 <= query.sum
                 /\ query.sum <= Greatest * (list'[query.idx+1].ts - list'[query.from+1].ts)
      <4>1. /\ query.from <= query.idx /\ query.idx <= query.to
            /\ 0 <= query.sum
            /\ query.sum <= Greatest * (list[query.idx+1].ts - list[query.from+1].ts)
        BY <3>1, <3>9 DEF Placed
      <4>2. query.to+1 \in 1..Len(list)
        BY <3>8, <3>9
      <4>3. query.idx+1 \in 1..Len(list)
        BY <4>1, <4>2, <3>2, <3>q
      <4>4. /\ list'[query.idx+1].ts = list[query.idx+1].ts
            /\ list'[query.from+1].ts = list[query.from+1].ts
        BY <4>3, <3>4, <3>6
      <4> QED BY <4>1, <4>4
    <3> QED BY <1>0, <3>7, <3>8, <3>9 DEF Placed
  <2> QED BY <1>0, <1>3, <2>1, <2>2 DEF EnergyIInv
<1> QED BY <1>1, <1>2, <1>3

LEMMA NextEnergy ==
  ASSUME OneDirection, SoundIInv, EnergyIInv, [ECNext]_ecVars
  PROVE  EnergyIInv'
<1>ty. ECTypeIInv /\ ECTypeIInv'
  BY NextECTypes DEF SoundIInv
<1>1. CASE ReadBuffer
  BY <1>1, ReadEnergy
<1>2. CASE MeterStep
  BY <1>2, <1>ty, MeterEnergy
<1>3. CASE ClockStep \/ UNCHANGED ecVars
  <2>1. /\ list' = list /\ phase' = phase /\ ts' = ts /\ query' = query
        /\ meanwhile' = meanwhile /\ overlapped' = overlapped
    BY <1>3 DEF ClockStep, Tick, ecVars, vars, queryVars
  <2>2. TsFrom' = TsFrom
    BY <2>1 DEF TsFrom
  <2> QED BY <2>1, <2>2 DEF EnergyIInv, Placed, Exact
<1>4. CASE StartStatus \/ CheckMeter \/ Emulate \/ EmulateStep \/ Report
  <2>1. /\ phase \notin Started /\ phase' \notin Started /\ query' = query
    BY <1>4 DEF StartStatus, CheckMeter, Emulate, EmulateStep, Report, queryVars, Started
  <2>2. phase' \notin {"idx_to", "pre", "post", "loop"}
    BY <2>1 DEF Started
  <2> QED BY <2>1, <2>2 DEF EnergyIInv, Placed, Exact, Started
<1> QED BY <1>1, <1>2, <1>3, <1>4 DEF ECNext

(* Absolute differences, as Max computes them.                              *)
LEMMA LeadIs ==
  ASSUME NEW a \in Int, NEW x \in Int
  PROVE  Max({a - x, x - a}) = IF x <= a THEN a - x ELSE x - a
<1> DEFINE D == {a - x, x - a}
<1>1. CASE x <= a
  <2>1. D \subseteq Int /\ a - x \in D /\ \A d \in D : d <= a - x
    BY <1>1
  <2> HIDE DEF D
  <2>2. Max(D) = a - x
    BY <2>1, MaxIs
  <2> QED BY <2>2, <1>1 DEF D
<1>2. CASE ~(x <= a)
  <2>1. D \subseteq Int /\ x - a \in D /\ \A d \in D : d <= x - a
    BY <1>2
  <2> HIDE DEF D
  <2>2. Max(D) = x - a
    BY <2>1, MaxIs
  <2> QED BY <2>2, <1>2 DEF D
<1> QED BY <1>1, <1>2

(* What the ends add and take away, in the three places they may lie.       *)
LEMMA EndsAreBounded ==
  ASSUME NEW g \in Nat, NEW p \in Nat, p <= g, NEW q \in Nat, q <= g,
         NEW a \in Int, NEW t \in Int, a <= t, NEW x \in Int, NEW y \in Int, x <= y,
         NEW s \in Int, 0 <= s, s <= g * (y - x), NEW lead \in Nat,
         lead = (IF x <= a THEN a - x ELSE x - a),
         y <= t \/ x = y
  PROVE  /\ -g * lead <= s + p * (x - a) + q * (t - y)
         /\ s + p * (x - a) + q * (t - y) <= g * (t - a + lead)
<1> DEFINE e == s + p * (x - a) + q * (t - y)
<1>0. -g * lead = -(g * lead) /\ g * lead \in Nat
  OBVIOUS
<1>1. CASE a < x /\ y <= t
  <2>1. lead = x - a /\ x - a \in Nat /\ t - y \in Nat /\ y - x \in Nat
    BY <1>1
  <2>2. /\ 0 <= p * (x - a) /\ p * (x - a) <= g * (x - a) /\ p * (x - a) \in Int /\ g * (x - a) \in Int
        /\ 0 <= q * (t - y) /\ q * (t - y) <= g * (t - y) /\ q * (t - y) \in Int /\ g * (t - y) \in Int
    BY <2>1, NoMoreThan
  <2>3. g * (t - a + lead) = g * (y - x) + g * (x - a) + g * (t - y) + g * lead
        /\ g * (y - x) \in Int
    OBVIOUS
  <2> QED BY <2>2, <2>3, <1>0
<1>2. CASE x <= a /\ y <= t
  <2>1. lead = a - x /\ a - x \in Nat /\ t - y \in Nat /\ y - x \in Nat
    BY <1>2
  <2>2. /\ 0 <= p * (a - x) /\ p * (a - x) <= g * (a - x) /\ p * (a - x) \in Int /\ g * (a - x) \in Int
        /\ 0 <= q * (t - y) /\ q * (t - y) <= g * (t - y) /\ q * (t - y) \in Int /\ g * (t - y) \in Int
    BY <2>1, NoMoreThan
  <2>3. p * (x - a) = -(p * (a - x))
    OBVIOUS
  <2>4. g * (t - a + lead) = g * (y - x) + g * (t - y) /\ g * (y - x) \in Int
    BY <2>1
  <2>5. g * lead = g * (a - x)
    BY <2>1
  <2> QED BY <2>2, <2>3, <2>4, <2>5, <1>0
<1>3. CASE t < y
  <2>1. x = y /\ a < x
    BY <1>3
  <2>2. lead = x - a /\ x - a \in Nat /\ x - t \in Nat /\ t - a \in Nat
    BY <2>1, <1>3
  <2>3. s = 0
    <3>1. g * (y - x) = 0
      BY <2>1
    <3> QED BY <3>1
  <2>4. /\ 0 <= p * (x - a) /\ p * (x - a) <= g * (x - a) /\ p * (x - a) \in Int /\ g * (x - a) \in Int
        /\ 0 <= q * (x - t) /\ q * (x - t) <= g * (x - t) /\ q * (x - t) \in Int /\ g * (x - t) \in Int
        /\ 0 <= g * (t - a) /\ g * (t - a) \in Int
    BY <2>2, NoMoreThan
  <2>5. q * (t - y) = -(q * (x - t))
    BY <2>1
  <2>6. g * (t - a + lead) = g * (t - a) + g * (x - a) /\ g * lead = g * (x - a)
    BY <2>2
  <2>7. g * (x - a) = g * (x - t) + g * (t - a)
    OBVIOUS
  <2> QED BY <2>3, <2>4, <2>5, <2>6, <2>7, <1>0
<1>4. y <= t \/ t < y
  OBVIOUS
<1>5. x <= a \/ a < x
  OBVIOUS
<1> QED BY <1>1, <1>2, <1>3, <1>4, <1>5

LEMMA EnergyFollows ==
  ASSUME OneDirection, SoundIInv, EnergyIInv, AddEnds, ~overlapped
  PROVE  LET first == list[query.from + 1].ts
             lead == Max({TsFrom - first, first - TsFrom})
         IN  /\ meanwhile = "still" => energy' = Flow(list, TsFrom, ts)
             /\ meanwhile = "grown" => /\ -Greatest * lead <= energy'
                                       /\ energy' <= Greatest * (ts - TsFrom + lead)
<1> DEFINE x == list[query.from+1].ts
           y == list[query.to+1].ts
           lead == Max({TsFrom - x, x - TsFrom})
<1>q. query \in [from : Nat, to : Nat, idx : Nat,
                 pre : Values \cup {0}, post : Values \cup {0}, sum : Int]
  BY DEF SoundIInv, ECTypeIInv, LocalTypes
<1>ty. list \in Seq(Readings) /\ Len(list) \in Nat /\ ts \in Int /\ TsFrom \in Int /\ TsFrom <= ts
  BY ListTypes, TsFromIsBefore DEF SoundIInv
<1>s. ECTypeIInv /\ Sorted
  BY SoundIsSorted
<1>1. /\ phase = "loop" /\ query.idx >= query.to
      /\ energy' = query.sum + query.pre * (x - TsFrom) + query.post * (ts - y)
  BY DEF AddEnds, Before, Beyond
<1>2. ASSUME meanwhile # "moved"
      PROVE  /\ query.from < Len(list) /\ query.from <= query.to /\ query.to < Len(list)
             /\ list[query.to+1].ts <= ts \/ query.to = query.from
             /\ query.idx = query.to
             /\ 0 <= query.sum
             /\ query.sum <= Greatest * (list[query.to+1].ts - list[query.from+1].ts)
  <2>1. Placed
    BY <1>2 DEF EnergyIInv
  <2>2. query.idx = query.to
    BY <2>1, <1>1, <1>q DEF Placed
  <2> QED BY <2>1, <2>2, <1>1 DEF Placed, Started
<1>3. ASSUME meanwhile = "still" PROVE energy' = Flow(list, TsFrom, ts)
  <2>1. Exact
    BY <1>3 DEF EnergyIInv
  <2>2. /\ list # <<>> /\ query.from = FirstTaken(list, TsFrom)
        /\ query.to = LastTaken(list, TsFrom, ts)
        /\ query.pre = InForce(list, TsFrom) /\ query.post = InForce(list, ts)
        /\ query.sum = WholeGaps(list, query.from, query.idx)
    BY <2>1, <1>1 DEF Exact, Started
  <2>3. query.idx = query.to
    BY <1>2, <1>3
  <2>4. Metered(list) /\ list \in Seq(Readings) /\ Timed(Readings)
    BY <1>s, ListIsMeteredHere
  <2>5. WholeGaps(list, query.from, query.to) + InForce(list, TsFrom) * (x - TsFrom)
          + InForce(list, ts) * (ts - y) = Flow(list, TsFrom, ts)
    BY <2>2, <2>4, <1>ty, GapsAndEnds
  <2> HIDE DEF x, y
  <2> QED BY <2>2, <2>3, <2>5, <1>1
<1>4. ASSUME meanwhile = "grown"
      PROVE  -Greatest * lead <= energy' /\ energy' <= Greatest * (ts - TsFrom + lead)
  <2>1. /\ query.from < Len(list) /\ query.from <= query.to /\ query.to < Len(list)
        /\ y <= ts \/ query.to = query.from
        /\ 0 <= query.sum /\ query.sum <= Greatest * (y - x)
    BY <1>2, <1>4
  <2>2. query.from+1 \in 1..Len(list) /\ query.to+1 \in 1..Len(list)
    BY <2>1, <1>q, <1>ty
  <2>3. x \in Int /\ y \in Int
    BY <2>2, <1>s, ListIsMeteredHere
  <2>4. x <= y /\ (query.to = query.from => x = y)
    <3>1. query.from = query.to \/ query.from+1 < query.to+1
      BY <2>1, <1>q
    <3>2. query.from+1 < query.to+1 => x < y
      BY <2>2, <1>s DEF Sorted, StrictlySorted
    <3> QED BY <3>1, <3>2, <2>3
  <2>5. lead = (IF x <= TsFrom THEN TsFrom - x ELSE x - TsFrom)
    <3> HIDE DEF x
    <3> QED BY <2>3, <1>ty, LeadIs
  <2> HIDE DEF x, y, lead
  <2>6. lead \in Nat
    BY <2>5, <2>3, <1>ty
  <2>7. /\ Greatest \in Nat /\ query.pre \in Nat /\ query.pre <= Greatest
        /\ query.post \in Nat /\ query.post <= Greatest /\ query.sum \in Int
    BY <1>q, GreatestIs
  <2>8. y <= ts \/ x = y
    BY <2>1, <2>4
  <2>9. /\ -Greatest * lead <= query.sum + query.pre * (x - TsFrom) + query.post * (ts - y)
        /\ query.sum + query.pre * (x - TsFrom) + query.post * (ts - y)
             <= Greatest * (ts - TsFrom + lead)
    BY <2>1, <2>3, <2>4, <2>5, <2>6, <2>7, <2>8, <1>ty, EndsAreBounded
  <2> QED BY <2>9, <1>1
<1> QED BY <1>3, <1>4

(* The energy that period_status starts from (energy_calc.py) is the power  *)
(* in force summed over the period, if the list stays as it is while        *)
(* integrate reads it; if readings come in behind its last entry, or        *)
(* replace one, it is off by no more than what flows between the first      *)
(* entry taken and the start of the period. The power of one direction is   *)
(* not negative: the meter sends import and export as readings of their     *)
(* own, which `input` hands to two calculators (shedder.py:275).            *)
THEOREM EnergyIsExact ==
  ASSUME OneDirection
  PROVE  ECSpec => EnergyIsRight
<1>1. ECInit => SoundIInv /\ EnergyIInv
  BY InitSound, InitEnergy
<1>2. SoundIInv /\ EnergyIInv /\ [ECNext]_ecVars => SoundIInv' /\ EnergyIInv'
  BY NextSound, NextEnergy
<1>3. SoundIInv /\ EnergyIInv /\ [ECNext]_ecVars =>
        [AddEnds /\ ~overlapped =>
           LET greatest == Max(Values)
               first == list[query.from + 1].ts
               lead == Max({TsFrom - first, first - TsFrom})
           IN  /\ meanwhile = "still" =>
                    energy' = Flow(list, TsFrom, ts)
               /\ meanwhile = "grown" =>
                    /\ -greatest * lead <= energy'
                    /\ energy' <= greatest * (ts - TsFrom + lead)]_ecVars
  BY EnergyFollows DEF Greatest
<1> QED BY <1>1, <1>2, <1>3, PTL DEF ECSpec, EnergyIsRight
=============================================================================
