------------------------------ MODULE BufferSpec ------------------------------
(***************************************************************************)
(* What a TimeBuffer promises, without threads, indexes or sorting: it     *)
(* holds at most one reading per timestamp; an insert puts one reading in, *)
(* in place of an older one with the same timestamp; now and then readings *)
(* outside the window around some earlier moment are dropped, if the       *)
(* oldest one is older than the buffer's age.                              *)
(***************************************************************************)
EXTENDS Integers

CONSTANTS Times, Values, Age, MaxNow

VARIABLES readings,  \* the set of readings held
          now        \* the clock

Readings == [ts : Times, value : Values]

Init == readings = {} /\ now = 0

Insert(e) ==
  /\ readings' = {r \in readings : r.ts # e.ts} \cup {e}
  /\ UNCHANGED now

Crop ==
  /\ Age > 0
  /\ \E moment \in 0..now :
        /\ \E r \in readings : r.ts < moment - Age
        /\ readings' = {r \in readings : moment - Age - 1 <= r.ts /\ r.ts <= moment + 1}
  /\ UNCHANGED now

Tick == now < MaxNow /\ now' = now + 1 /\ UNCHANGED readings

Next == Tick \/ Crop \/ \E e \in Readings : Insert(e)

Spec == Init /\ [][Next]_<<readings, now>>
=============================================================================
