-------------------------- MODULE MCEnergyCalculator --------------------------
(* Small instances of EnergyCalculator for TLC. *)
EXTENDS EnergyCalculator

(* An emulated reading may lie before the start of the clock. *)
MCTimes == (-MaxOffline)..MaxNow
=============================================================================
