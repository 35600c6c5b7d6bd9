--------------------------- MODULE EnergyCalculator ---------------------------
(***************************************************************************)
(* The power buffer of class EnergyCalculator (shedder/data/energy_calc.py)*)
(* with its two writers: paho's thread inserts the meter's readings        *)
(* (shedder.py `input`), and the main thread runs period_status once per   *)
(* loop, which inserts an emulated reading of the allowed maximum while    *)
(* the meter is silent.                                                    *)
(*                                                                         *)
(* Of period_status, what reads or writes the power buffer: the energy of  *)
(* the period, integrated entry by entry over a list that paho's thread    *)
(* changes meanwhile; metering_offline, the emulated reading and the       *)
(* reported power.  The two averages and the previous period's energy are  *)
(* the same integral between other ends.                                   *)
(***************************************************************************)
EXTENDS TimeBuffer

CONSTANTS Mqtt, Main,   \* the two threads
          MaxReadings,  \* bound on the readings the meter sends
          MaxDelay,     \* how late a reading of the meter may arrive
          MaxOffline,   \* max_offline_time: longest silence of the meter
          Duration,     \* length of a period
          MaxPower      \* max_energy*3600/duration, the allowed power

ASSUME WritersAssumption == Writers = {Mqtt, Main} /\ Mqtt # Main
ASSUME DelayAssumption == MaxDelay \in Nat /\ MaxOffline \in Nat
ASSUME MaxReadingsAssumption == MaxReadings \in Nat
ASSUME MaxPowerAssumption == MaxPower \in Values /\ Values \subseteq Int
ASSUME DurationAssumption == Duration \in Nat \ {0}
(* An emulated reading carries a timestamp like any other. *)
ASSUME EmulatedAssumption == \A t \in 0..MaxNow : t - MaxOffline \in Times

VARIABLES
  arrived,    \* readings the meter has sent
  phase,      \* where the main thread is in period_status
  ts,         \* period_status's ts
  offline,    \* metering_offline
  power,      \* the reported 'power'
  query,      \* the locals of integrate
  energy,     \* the reported 'energy', before it is scaled
  disturbed,  \* history: paho's thread was inserting during this status
  meanwhile,  \* history: what became of the list during this integral
  overlapped  \* history: both threads were inside insert_sorted at once

queryVars == <<query, energy, meanwhile>>
ecVars == <<vars, arrived, phase, ts, offline, power, disturbed, overlapped, queryVars>>

(* The main thread's places in integrate. *)
Integrating == {"idx_from", "idx_to", "pre", "post", "loop"}
NoQuery == [from |-> 0, to |-> 0, pre |-> 0, post |-> 0, idx |-> 0, sum |-> 0]

ECTypeInv ==
  /\ TypeInv
  /\ arrived \in 0..MaxReadings
  /\ phase \in Integrating \cup {"away", "raised", "check", "emulate", "inserting", "report"}
  /\ ts \in 0..MaxNow
  /\ offline \in BOOLEAN
  /\ power \in Values \cup {0}
  /\ query \in [from : Nat, to : Nat, idx : Nat,
                pre : Values \cup {0}, post : Values \cup {0}, sum : Int]
  /\ energy \in Int
  /\ disturbed \in BOOLEAN /\ overlapped \in BOOLEAN
  /\ meanwhile \in {"still", "grown", "moved"}

ECInit ==
  /\ Init
  /\ arrived = 0
  /\ phase = "away" /\ ts = 0 /\ offline = FALSE /\ power = 0
  /\ query = NoQuery /\ energy = 0
  /\ disturbed = FALSE /\ meanwhile = "still" /\ overlapped = FALSE

Busy(w) == pc[w] \notin {"idle", "raised"}
Watch == overlapped' = (overlapped \/ \A w \in Writers : Busy(w)')

-----------------------------------------------------------------------------
(* Every entry of L is at its index in M, perhaps with another value. *)
SamePlaces(L, M) == \A i \in DOMAIN L : i \in DOMAIN M /\ M[i].ts = L[i].ts

(* paho's thread: a reading arrives, with the meter's own timestamp, and is *)
(* inserted.                                                                *)
MeterStep ==
  /\ Step(Mqtt)
  /\ IF pc[Mqtt] = "idle"
     THEN /\ arrived < MaxReadings /\ arrived' = arrived + 1
          /\ entry'[Mqtt].ts \in now-MaxDelay..now
     ELSE UNCHANGED arrived
  /\ Watch
  /\ disturbed' = (disturbed \/ phase # "away")
  /\ meanwhile' = IF phase \notin Integrating \/ list' = list \/ meanwhile = "moved"
                  THEN meanwhile
                  ELSE IF SamePlaces(list, list') THEN "grown" ELSE "moved"
  /\ UNCHANGED <<phase, ts, offline, power, query, energy>>

(* period_status(ts=None) starts. *)
StartStatus ==
  /\ phase = "away"
  /\ phase' = "idx_from" /\ ts' = now
  /\ disturbed' = Busy(Mqtt)
  /\ UNCHANGED <<vars, arrived, offline, power, overlapped, queryVars>>

-----------------------------------------------------------------------------
(* get_value(ts, 'pre'): the reading in force at ts. *)
ValueBefore(L, t) ==
  LET i == GetIndex(L, t, InsertIndex)
  IN  IF L = <<>> THEN 0
      ELSE IF i >= Len(L) THEN L[Len(L)].value
      ELSE IF i <= 0 THEN L[1].value
      ELSE IF L[i+1].ts = t THEN L[i+1].value
      ELSE L[i].value

(* integrate(ts_from, ts), the start of the period being ts_from.  A search *)
(* or a get_value is one step here, in the code several reads of the list.  *)
TsFrom == Duration * (ts \div Duration)

(* Mutant: the index past the end is not pulled back (valid_read_index).    *)
SeekInsertIndex(t) == GetIndex(list, t, InsertIndex)

Seek(t) == GetIndex(list, t, ReadIndex)

Reading(place, next, locals) ==
  /\ phase = place /\ phase' = next
  /\ query' = locals
  /\ UNCHANGED <<vars, arrived, ts, offline, power, disturbed, overlapped, energy, meanwhile>>

SeekFrom ==
  IF list = <<>> THEN Reading("idx_from", "check", query)
  ELSE Reading("idx_from", "idx_to", [query EXCEPT !.from = Seek(TsFrom), !.idx = Seek(TsFrom)])

(* The last entry that counts in full is at or before the end. *)
SeekTo ==
  /\ list # <<>>
  /\ LET i == Seek(ts)
         last == IF i < Len(list) /\ list[i+1].ts > ts
                 THEN IF i - 1 > query.from THEN i - 1 ELSE query.from
                 ELSE i
     IN  Reading("idx_to", "pre", [query EXCEPT !.to = last])

ReadPre == Reading("pre", "post", [query EXCEPT !.pre = ValueBefore(list, TsFrom)])
ReadPost == Reading("post", "loop", [query EXCEPT !.post = ValueBefore(list, ts)])

(* One turn of the loop, while there are entries left of the range. *)
AddEntry ==
  /\ query.idx < query.to /\ query.idx + 1 < Len(list)
  /\ LET this == list[query.idx + 1]
         next == list[query.idx + 2]
     IN  Reading("loop", "loop", [query EXCEPT
           !.sum = @ + this.value * (next.ts - this.ts), !.idx = @ + 1])

(* After the loop, what lies before its first and after its last entry. *)
(* Mutant: the first entry is counted from its own timestamp. *)
NothingBefore == 0

Before == query.pre * (list[query.from + 1].ts - TsFrom)
Beyond == query.post * (ts - list[query.to + 1].ts)

AddEnds ==
  /\ phase = "loop" /\ query.idx >= query.to
  /\ query.from < Len(list) /\ query.to < Len(list)
  /\ energy' = query.sum + Before + Beyond
  /\ query' = NoQuery /\ phase' = "check"
  /\ UNCHANGED <<vars, arrived, ts, offline, power, disturbed, overlapped, meanwhile>>

(* An index past the end is an IndexError, which ends the main loop. *)
Needed ==
  CASE phase = "idx_to" -> {0}
    [] phase = "loop" /\ query.idx < query.to -> {query.idx, query.idx + 1}
    [] phase = "loop" /\ query.idx >= query.to -> {query.from, query.to}
    [] OTHER -> {}

RaiseIndexError ==
  /\ \E i \in Needed : i >= Len(list)
  /\ Reading(phase, "raised", NoQuery)

ReadBuffer == SeekFrom \/ SeekTo \/ ReadPre \/ ReadPost \/ AddEntry \/ AddEnds \/ RaiseIndexError

-----------------------------------------------------------------------------

(* get_last_tuple, and the decisions taken on what it returned. *)
SilentSince(L) == L = <<>> \/ now - L[Len(L)].ts > MaxOffline

(* Mutant: a last reading stays in force, however low. *)
NeverLow(L) == L = <<>>

IsLow(L) == L = <<>> \/ L[Len(L)].value < MaxPower

CheckMeter ==
  /\ phase = "check"
  /\ offline' = SilentSince(list)
  /\ phase' = IF SilentSince(list) /\ IsLow(list)
              THEN "emulate" ELSE "report"
  /\ UNCHANGED <<vars, arrived, ts, power, disturbed, overlapped, queryVars>>

(* insert_power of the allowed maximum, max_offline_time back. *)
(* Mutant: twice as far back. *)
EmulatedTooEarly == ts - 2 * MaxOffline

EmulatedTs == ts - MaxOffline

Emulate ==
  /\ phase = "emulate"
  /\ Insert(Main, [ts |-> EmulatedTs, value |-> MaxPower])
  /\ phase' = "inserting"
  /\ Watch
  /\ UNCHANGED <<arrived, ts, offline, power, disturbed, queryVars>>

EmulateStep ==
  /\ phase = "inserting" /\ pc[Main] # "idle"
  /\ Step(Main)
  /\ phase' = IF pc'[Main] = "idle" THEN "report" ELSE "inserting"
  /\ Watch
  /\ UNCHANGED <<arrived, ts, offline, power, disturbed, queryVars>>

Report ==
  /\ phase = "report"
  /\ power' = ValueBefore(list, ts)
  /\ phase' = "away" /\ ts' = 0 /\ offline' = FALSE /\ energy' = 0
  /\ disturbed' = FALSE /\ meanwhile' = "still"
  /\ UNCHANGED <<vars, arrived, overlapped, query>>

ClockStep ==
  /\ Tick
  /\ UNCHANGED <<arrived, phase, ts, offline, power, disturbed, overlapped, queryVars>>

ECNext ==
  \/ ClockStep \/ MeterStep
  \/ StartStatus \/ ReadBuffer \/ CheckMeter \/ Emulate \/ EmulateStep \/ Report

ECSpec == ECInit /\ [][ECNext]_ecVars

-----------------------------------------------------------------------------
(* While the two threads have not been inside insert_sorted together, the   *)
(* list is sorted (timebuffer.py:119) and auto_crop has met no empty list   *)
(* (timebuffer.py:56), which would end the main loop or paho's thread.      *)
SoundUnlessOverlapped ==
  ~overlapped => Sorted /\ \A w \in Writers : pc[w] # "raised"

(* The energy that period_status starts from is the sum over the period of  *)
(* the power in force, if the list stays as it is; readings that come in    *)
(* behind the last entry, or replace one, between the reads of integrate    *)
(* can falsify it by no more than what flowed in the stretch between the    *)
(* first entry used and the start of the period.                            *)
EnergyIsRight ==
  [][AddEnds /\ ~overlapped =>
     LET greatest == Max(Values)
         first == list[query.from + 1].ts
         lead == Max({TsFrom - first, first - TsFrom})
     IN  /\ meanwhile = "still" =>
              energy' = Flow(list, TsFrom, ts)
         /\ meanwhile = "grown" =>
              /\ -greatest * lead <= energy'
              /\ energy' <= greatest * (ts - TsFrom + lead)]_ecVars

(* The main loop does not end in an IndexError of integrate, but when a     *)
(* late reading or a crop moves entries under it (float_tb.py:86).          *)
RaisesOnlyIfMoved == phase = "raised" /\ ~overlapped => meanwhile = "moved"

(* A status that finds the meter silent, finishes in the tick it started in *)
(* and has no reading come in meanwhile reports at least the allowed power, *)
(* "to avoid over-usage" (energy_calc.py:121): the reading it emulates, cut *)
(* and searched like any other, is the one it reads back.                   *)
OfflineReportsMaxPower ==
  [][Report /\ offline /\ ts = now /\ ~disturbed /\ ~overlapped
       => power' >= MaxPower]_ecVars
=============================================================================
