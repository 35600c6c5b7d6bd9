---------------------------- MODULE FloatTimeBuffer ----------------------------
(***************************************************************************)
(* The queries of class FloatTimeBuffer (shedder/data/float_tb.py) over    *)
(* every list that insert_sorted can build, one thread at a time.          *)
(*                                                                         *)
(* A buffer of power readings holds a reading until the next one; a buffer *)
(* of energy readings (accumulated=True) holds the meter's counter.        *)
(* Results that the code computes in floating point are integers in units  *)
(* of 1/Scale here; Scale is a common multiple of the divisors that occur. *)
(***************************************************************************)
EXTENDS SortedList, FiniteSetsExt

CONSTANTS Moments,  \* timestamps of readings and of queries
          Amounts,  \* values of readings
          Scale     \* units per 1 in a result

ASSUME FloatAssumption ==
  /\ Moments \subseteq Nat \ {0} /\ Amounts \subseteq Int /\ Scale \in Nat \ {0}
  /\ \A s, t \in Moments : s < t => Scale % (t - s) = 0

VARIABLE sortedList  \* self.sorted_list

Measured == Entry(Moments, Amounts)

FloatInit == sortedList = <<>>
FloatNext == \E e \in Measured : sortedList' = InsertSorted(sortedList, e)
FloatSpec == FloatInit /\ [][FloatNext]_sortedList

-----------------------------------------------------------------------------
(* get_value between two readings, by its selection argument. *)
(* Mutant: the slope with the wrong sign. *)
BetweenFalling(pre, post, ts, selection) ==
  CASE selection = "pre"   -> Scale * pre.value
    [] selection = "post"  -> Scale * post.value
    [] selection = "avg"   -> (Scale * (pre.value + post.value)) \div 2
    [] selection = "inter" -> Scale * pre.value
         - (Scale * (post.value - pre.value) * (ts - pre.ts)) \div (post.ts - pre.ts)

Between(pre, post, ts, selection) ==
  CASE selection = "pre"   -> Scale * pre.value
    [] selection = "post"  -> Scale * post.value
    [] selection = "avg"   -> (Scale * (pre.value + post.value)) \div 2
    [] selection = "inter" -> Scale * pre.value
         + (Scale * (post.value - pre.value) * (ts - pre.ts)) \div (post.ts - pre.ts)

GetValue(L, ts, selection) ==
  LET idx == GetIndex(L, ts, InsertIndex)
  IN  IF L = <<>>               THEN 0
      ELSE IF idx >= Len(L)     THEN Scale * L[Len(L)].value
      ELSE IF idx <= 0          THEN Scale * L[1].value
      ELSE IF L[idx+1].ts = ts  THEN Scale * L[idx+1].value
      ELSE Between(L[idx], L[idx+1], ts, selection)

(* integrate of a power buffer: whole gaps between readings, and what is   *)
(* missing or too much at either end.                                      *)
(* Mutant: an end on a reading is treated like one after it. *)
LastFullBefore(L, idxFrom, idxEnd, to) ==
  IF L[idxEnd+1].ts >= to THEN IF idxFrom > idxEnd - 1 THEN idxFrom ELSE idxEnd - 1
  ELSE idxEnd

LastFull(L, idxFrom, idxEnd, to) ==
  IF L[idxEnd+1].ts > to THEN IF idxFrom > idxEnd - 1 THEN idxFrom ELSE idxEnd - 1
  ELSE idxEnd

WholeGaps(L, idxFrom, idxTo) ==
  MapThenSumSet(LAMBDA i : L[i+1].value * (L[i+2].ts - L[i+1].ts), idxFrom..idxTo-1)

HoldIntegral(L, from, to) ==
  LET idxFrom == GetIndex(L, from, ReadIndex)
      idxEnd  == GetIndex(L, to, ReadIndex)
      idxTo   == LastFull(L, idxFrom, idxEnd, to)
  IN  Scale * WholeGaps(L, idxFrom, idxTo)
        + GetValue(L, from, "pre") * (L[idxFrom+1].ts - from)
        + GetValue(L, to, "pre") * (to - L[idxTo+1].ts)

Integrate(L, accumulated, from, to) ==
  IF L = <<>> THEN 0
  ELSE IF accumulated THEN GetValue(L, to, "inter") - GetValue(L, from, "inter")
  ELSE HoldIntegral(L, from, to)

-----------------------------------------------------------------------------
(* Of accumulated readings get_max and get_min compare the increases from   *)
(* each reading of the interval to the next one in it.                      *)
(* Mutant: the last reading is left in the list. *)
IncreasesAndLast(M) ==
  [i \in 1..Len(M) |->
     IF i < Len(M) THEN [M[i] EXCEPT !.value = M[i+1].value - M[i].value] ELSE M[i]]

Increases(M) ==
  [i \in 1..Len(M)-1 |-> [M[i] EXCEPT !.value = M[i+1].value - M[i].value]]

Measurements(L, accumulated, from, to) ==
  LET M == GetInterval(L, from, to)
  IN  IF accumulated /\ M # <<>> THEN Increases(M) ELSE M

(* sorted(s, key=itemgetter(1)), or its reverse: equals keep their order.   *)
Ascending == 1
Descending == -1

Ahead(s, way, j, i) ==
  way * s[j].value < way * s[i].value \/ (s[j].value = s[i].value /\ j < i)

Ordered(s, way) ==
  [k \in 1..Cardinality(DOMAIN s) |->
     s[CHOOSE i \in DOMAIN s : Cardinality({j \in DOMAIN s : Ahead(s, way, j, i)}) = k - 1]]

(* max and min return the first of equals, the head of that order. None is  *)
(* <<>>, a result otherwise is a sequence of one entry.                     *)
Best(M, way) == IF M = <<>> THEN <<>> ELSE <<Ordered(M, way)[1]>>

GetMax(L, accumulated, from, to) == Best(Measurements(L, accumulated, from, to), Descending)
GetMin(L, accumulated, from, to) == Best(Measurements(L, accumulated, from, to), Ascending)

(* The best of every period of the given duration that has one, best first. *)
Starts(from, to, duration) == {f \in from..to-1 : (f - from) % duration = 0}

PeriodMaxList(L, accumulated, from, to, duration) ==
  LET best == [f \in Starts(from, to, duration) |-> GetMax(L, accumulated, f, f + duration)]
      found == {f \in DOMAIN best : best[f] # <<>>}
  IN  Ordered([f \in found |-> best[f][1]], Descending)

PeriodMinList(L, accumulated, from, to, duration) ==
  LET best == [f \in Starts(from, to, duration) |-> GetMin(L, accumulated, f, f + duration)]
      found == {f \in DOMAIN best : best[f] # <<>>}
  IN  Ordered([f \in found |-> best[f][1]], Ascending)

-----------------------------------------------------------------------------
(* get_index finds the index that divides the list at ts, from 0 to the end *)
(* and with valid_read_index never past the last entry.                     *)
IndexDivides ==
  \A t \in Moments :
    /\ Divides(sortedList, GetIndex(sortedList, t, InsertIndex), t)
    /\ sortedList # <<>> =>
         GetIndex(sortedList, t, ReadIndex) =
           Min({GetIndex(sortedList, t, InsertIndex), Len(sortedList) - 1})

(* integrate of power is the sum over every tick of the power in force,     *)
(* wherever the ends lie: on a reading, in one gap, before the first        *)
(* reading or after the last (float_tb.py:61).                              *)
IntegralIsSumOfPower ==
  sortedList # <<>> =>
    \A a, b \in Moments : a <= b =>
      Integrate(sortedList, FALSE, a, b) = Scale * Flow(sortedList, a, b)

(* While the meter's counter does not run backward, no interval consumes a  *)
(* negative energy, whatever the gaps between the readings: interpolation   *)
(* and the clamping at either end keep the order of the readings.           *)
CounterNeverRunsBackward ==
  (\A i, j \in 1..Len(sortedList) : i < j => sortedList[i].value <= sortedList[j].value) =>
    \A a, b \in Moments : a <= b => Integrate(sortedList, TRUE, a, b) >= 0

InOnePeriod(a, b, from, duration) ==
  \E n \in 0..b : a >= from + n * duration /\ b <= from + (n + 1) * duration

PeriodMaxima(from, to, duration) ==
  {sortedList[i+1].value - sortedList[i].value :
     i \in {k \in 1..Len(sortedList)-1 :
              /\ from <= sortedList[k].ts /\ sortedList[k+1].ts <= to
              /\ InOnePeriod(sortedList[k].ts, sortedList[k+1].ts, from, duration)}}

MaximaOverPeriods ==
  \A from, to \in Moments : \A duration \in 1..2 :
    from < to /\ (to - from) % duration = 0 =>
      LET maxima == PeriodMaxList(sortedList, TRUE, from, to, duration)
          truth  == PeriodMaxima(from, to, duration)
      IN  IF truth = {} THEN maxima = <<>>
          ELSE maxima # <<>> /\ maxima[1].value = Max(truth)

MinimaOverPeriods ==
  \A from, to \in Moments : \A duration \in 1..2 :
    from < to /\ (to - from) % duration = 0 =>
      LET minima == PeriodMinList(sortedList, FALSE, from, to, duration)
          values == {sortedList[i].value : i \in {k \in 1..Len(sortedList) : sortedList[k].ts \in from..to}}
      IN  IF values = {} THEN minima = <<>>
          ELSE minima # <<>> /\ minima[1].value = Min(values)

(* The value that heads a list of maxima over periods is the largest        *)
(* increase between two successive readings that lie in one period, both    *)
(* ends included; so an increase across a boundary counts in no period.     *)
(* The minima over periods of power readings are listed smallest first, and *)
(* the first one is the smallest reading of the whole range.                *)
ExtremesOverPeriods == MaximaOverPeriods /\ MinimaOverPeriods
=============================================================================
