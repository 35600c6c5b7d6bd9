------------------------------- MODULE MCWorlds -------------------------------
(***************************************************************************)
(* The surroundings in which TLC checks Shedder.  Each fixes what the      *)
(* owners, the users, the hour and the metering may do, so that the case   *)
(* it is for happens in a state space that can be searched.                *)
(***************************************************************************)
EXTENDS Integers

CONSTANTS Fleet, MinCurrent, MaxCurrent

(* Statuses of the metering. *)
Metered(import, export, load) ==
  [offline |-> FALSE, import |-> import, export |-> export, load |-> load]
Offline == [Metered(TRUE, "below", "within") EXCEPT !.offline = TRUE]
Over == Metered(TRUE, "below", "over")
Under == Metered(TRUE, "below", "under")
Surplus == Metered(FALSE, "trigger", "under")
SomeSurplus == Metered(FALSE, "level", "within")
NoSurplus == Metered(FALSE, "below", "within")
Imports == Metered(TRUE, "below", "within")

(* All cars alike, or one of them in sun mode. *)
Car(charging, amps, sun) == [home |-> TRUE, charging |-> charging, amps |-> amps, sun |-> sun]
All(charging, amps, sun) == {[v \in Fleet |-> Car(charging, amps, sun)]}
OneInSunMode(amps) == {[v \in Fleet |-> Car("charging", amps, v = s)] : s \in Fleet}

On == {[enabled |-> TRUE, included |-> Fleet]}
OnOff == {[enabled |-> e, included |-> Fleet] : e \in BOOLEAN}
AnySettings == [enabled : BOOLEAN, included : SUBSET Fleet]

(* Every call succeeds and control stays on, unless said otherwise. *)
Calm(cars, statuses, hours) ==
  [cars |-> cars, statuses |-> statuses, hours |-> hours, settings |-> On,
   stale |-> FALSE, outcomes |-> {"ok"}, moves |-> {}]

LiveWorld ==
  [load     |-> [Calm(All("charging", MinCurrent + 1, FALSE), {Offline, Over}, {FALSE})
                   EXCEPT !.moves = {"start", "stop"}],
   spare    |-> [Calm(All("charging", MinCurrent, FALSE), {Under}, {FALSE})
                   EXCEPT !.moves = {"start", "stop"}],
   sun      |-> [Calm(All("stopped", MaxCurrent, TRUE), {Surplus}, {TRUE})
                   EXCEPT !.moves = {"complete"}],
   clouds   |-> [Calm(All("charging", MaxCurrent, TRUE), {Imports, NoSurplus}, {TRUE})
                   EXCEPT !.moves = {"complete"}],
   disabled |-> [Calm(OneInSunMode(MinCurrent), {Surplus, Offline}, BOOLEAN)
                   EXCEPT !.settings = OnOff]]

(* For the histories: the weather changes; calls fail and replies are lost; *)
(* owners drive, or set current and mode; users change the settings.        *)
HistoryWorld ==
  [weather  |-> [Calm(All("stopped", MaxCurrent, TRUE), {Surplus, Imports}, BOOLEAN)
                   EXCEPT !.moves = {"start"}, !.outcomes = {"ok", "refused"}],
   faults   |-> [Calm(All("charging", MinCurrent + 1, FALSE), {Over, Under}, {FALSE})
                   EXCEPT !.stale = TRUE, !.outcomes = {"ok", "refused", "lost"}],
   drivers  |-> [Calm(All("charging", MinCurrent, FALSE), {Over}, {FALSE})
                   EXCEPT !.moves = {"drive", "complete"}],
   currents |-> [Calm(All("charging", MinCurrent, FALSE), {Over}, {FALSE})
                   EXCEPT !.moves = {"start", "amps"}],
   modes    |-> [Calm(OneInSunMode(MinCurrent), {Over, Surplus}, {TRUE})
                   EXCEPT !.moves = {"start", "mode"}],
   users    |-> [Calm(OneInSunMode(MinCurrent), {Surplus, Offline, SomeSurplus, NoSurplus}, BOOLEAN)
                   EXCEPT !.settings = AnySettings]]

SunHoursWorld == [load |-> Calm(OneInSunMode(MinCurrent), {Over}, {TRUE})]

UnreadWorld ==
  [unread |-> [Calm(All("charging", MaxCurrent, FALSE), {Over, Under}, {FALSE})
                 EXCEPT !.stale = TRUE]]
=============================================================================
