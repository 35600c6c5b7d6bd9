------------------------------ MODULE SortedList ------------------------------
(***************************************************************************)
(* The list operations of class TimeBuffer (shedder/data/timebuffer.py),   *)
(* as pure operators.  A buffer is a sequence of entries [ts, value]; an   *)
(* index is the code's own, counted from 0, so the entry at index i is     *)
(* L[i + 1].                                                               *)
(*                                                                         *)
(* get_index is a binary search by recursion.  IndexCall is ONE call of    *)
(* it, as seen by a thread that reads the shared list: it answers, or says *)
(* over which part of the list it calls itself again.  GetIndex is the     *)
(* whole recursion on a list that nobody changes meanwhile.                *)
(***************************************************************************)
EXTENDS Integers, Sequences, SequencesExt

Entry(Ts, Val) == [ts : Ts, value : Val]

(* The default to_idx=None of get_index: up to the last entry. *)
WholeList == -1

Found(i) == [done |-> TRUE, from |-> i, to |-> i]
Again(from, to) == [done |-> FALSE, from |-> from, to |-> to]

(* from_idx and to_idx are pulled into the list as it is at this call. *)
ClampIdx(L, i) == IF i < 0 THEN 0 ELSE IF i >= Len(L) THEN Len(L) - 1 ELSE i

(* For a ts after the last entry get_index answers the index past the end,  *)
(* or with valid_read_index the last one: how far past the last.            *)
InsertIndex == 1
ReadIndex == 0

(* Mutant: an exact hit in the middle is answered by the index after it. *)
IndexCallPastHit(L, ts, from, to, past) ==
  LET f == ClampIdx(L, from)
      t == IF to = WholeList THEN Len(L) - 1 ELSE ClampIdx(L, to)
      m == f + (t - f) \div 2
  IN  IF L = <<>>              THEN Found(0)
      ELSE IF ts <= L[f+1].ts  THEN Found(f)
      ELSE IF ts > L[t+1].ts   THEN Found(t + past)
      ELSE IF t - f <= 1       THEN Found(t)
      ELSE IF ts = L[m+1].ts   THEN Found(m + 1)
      ELSE IF ts < L[m+1].ts   THEN Again(f, m)
      ELSE                          Again(m, t)

IndexCall(L, ts, from, to, past) ==
  LET f == ClampIdx(L, from)
      t == IF to = WholeList THEN Len(L) - 1 ELSE ClampIdx(L, to)
      m == f + (t - f) \div 2
  IN  IF L = <<>>              THEN Found(0)
      ELSE IF ts <= L[f+1].ts  THEN Found(f)
      ELSE IF ts > L[t+1].ts   THEN Found(t + past)
      ELSE IF t - f <= 1       THEN Found(t)
      ELSE IF ts = L[m+1].ts   THEN Found(m)
      ELSE IF ts < L[m+1].ts   THEN Again(f, m)
      ELSE                          Again(m, t)

(* The (from_idx, to_idx) that get_index may be called with.                *)
Bounds(L) == (0..Len(L)) \X (WholeList..Len(L))

GetIndex(L, ts, past) ==
  LET search[b \in Bounds(L)] ==
        LET c == IndexCall(L, ts, b[1], b[2], past)
        IN  IF c.done THEN c.from ELSE search[<<c.from, c.to>>]
  IN  search[<<0, WholeList>>]

-----------------------------------------------------------------------------
(* insert_sorted's last step, at an index found earlier: the entry with the *)
(* same timestamp is overwritten, else the entry goes in before idx (Python *)
(* appends when idx is past the end).                                       *)
Overwrites(L, idx, e) == idx < Len(L) /\ L[idx+1].ts = e.ts

(* Mutants: the entry is built the wrong way round; an entry with the same  *)
(* timestamp stays (overwrite=False).                                       *)
PutSwapped(L, idx, e) ==
  InsertAt(L, IF idx > Len(L) THEN Len(L) + 1 ELSE idx + 1, [ts |-> e.value, value |-> e.ts])
PutBeside(L, idx, e) == InsertAt(L, IF idx > Len(L) THEN Len(L) + 1 ELSE idx + 1, e)

PutAt(L, idx, e) ==
  IF Overwrites(L, idx, e) THEN [L EXCEPT ![idx+1] = e]
  ELSE InsertAt(L, IF idx > Len(L) THEN Len(L) + 1 ELSE idx + 1, e)

(* The slice sorted_list[from:to] of get_interval; an entry exactly at toTs *)
(* is included.                                                             *)
(* Mutant: the entry at the end of the interval is not included. *)
EndIndexOpen(L, to, toTs) == to

EndIndex(L, to, toTs) == IF to < Len(L) /\ L[to+1].ts = toTs THEN to + 1 ELSE to

Slice(L, from, to, toTs) ==
  LET end == EndIndex(L, to, toTs)
  IN  SubSeq(L, from + 1, IF end > Len(L) THEN Len(L) ELSE end)

GetInterval(L, fromTs, toTs) ==
  IF L = <<>> THEN <<>>
  ELSE LET last == IF toTs <= 0 THEN L[Len(L)].ts ELSE toTs
       IN  Slice(L, GetIndex(L, fromTs, InsertIndex), GetIndex(L, last, InsertIndex), last)

InsertSorted(L, e) == PutAt(L, GetIndex(L, e.ts, InsertIndex), e)

(* auto_crop at time `now` of a buffer that keeps `age`; age <= 0 keeps all. *)
NeedsCrop(L, age, now) == age > 0 /\ L[1].ts < now - age
CropFrom(age, now) == now - age - 1
CropTo(now) == now + 1

(* What "sorted by ts" means once equal timestamps are overwritten. *)
StrictlySorted(L) == \A i, j \in 1..Len(L) : i < j => L[i].ts < L[j].ts

(* The power in force at t: of the last reading at or before t, or of the   *)
(* first reading before there is one.                                       *)
InForce(L, t) ==
  LET past == {i \in 1..Len(L) : L[i].ts <= t}
  IN  L[IF past = {} THEN 1 ELSE Max(past)].value

(* What flows from tick a to tick b: the power in force, summed up.         *)
Flow(L, a, b) == MapThenSumSet(LAMBDA t : InForce(L, t), a..b-1)

Entries(L) == {L[i] : i \in 1..Len(L)}

(* Index i separates the entries before ts from the others: what get_index  *)
(* returns.                                                                 *)
Divides(L, i, ts) ==
  /\ i \in 0..Len(L)
  /\ \A j \in 1..i : L[j].ts < ts
  /\ \A j \in i+1..Len(L) : ts <= L[j].ts

(* The bounds of a recursive call of get_index have ts between them.        *)
Encloses(L, f, t, ts) ==
  /\ f \in 0..Len(L)-1 /\ t \in 0..Len(L)-1 /\ f < t
  /\ L[f+1].ts < ts /\ ts <= L[t+1].ts
=============================================================================
