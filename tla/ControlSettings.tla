--------------------------- MODULE ControlSettings ---------------------------
(***************************************************************************)
(* The settings that control messages change (shedder/shedder.py:          *)
(* get_dynamic_settings, merge_dicts, store_dynamic_settings and the first *)
(* half of input), in memory and in the control file.                      *)
(*                                                                         *)
(* paho's thread changes them in memory and then rewrites the file, which  *)
(* it truncates first; the main thread reads the file once, at its start.  *)
(* A setting is its default, another value of its type, or a value that    *)
(* the control loop cannot calculate with; input checks nothing.           *)
(***************************************************************************)
EXTENDS Integers, FiniteSets

CONSTANTS Keys   \* the settings

ASSUME SettingsAssumption == Keys # {}

VARIABLES
  control,  \* dynamic_settings['control'] of the running process
  file,     \* the control file
  storing,  \* where paho's thread is in store_dynamic_settings
  unsaved   \* history: the latest store failed

settingsVars == <<control, file, storing, unsaved>>

Values == {"default", "other", "useless"}
Settings == [Keys -> Values]
Defaults == [k \in Keys |-> "default"]

(* A file may hold some of the settings, as one seeded by hand does; an     *)
(* empty one is parsed to None.                                             *)
Texts == UNION {[K -> Values] : K \in (SUBSET Keys) \ {{}}}
Absent == [state |-> "absent", text |-> <<>>]
Empty == [state |-> "empty", text |-> <<>>]
Holding(text) == [state |-> "text", text |-> text]
Files == {Absent, Empty} \cup {Holding(text) : text \in Texts}

SettingsTypeInv ==
  /\ control \in Settings
  /\ file \in Files
  /\ storing \in {"no", "open", "write"}
  /\ unsaved \in BOOLEAN

SettingsInit ==
  /\ control = Defaults
  /\ \E K \in SUBSET Keys :
       file = IF K = {} THEN Absent ELSE Holding([k \in K |-> "other"])
  /\ storing = "no" /\ unsaved = FALSE

(* merge_dicts: what dest has stays. *)
(* Mutant: nothing is merged in. *)
MergeNothing(dest, source) == dest

Merge(dest, source) == [k \in Keys |-> IF k \in DOMAIN dest THEN dest[k] ELSE source[k]]

(* Mutants: a file that is not there is not caught; the file's settings are *)
(* merged into the defaults.                                                *)
LoadableIfThere(f) == f.state = "text"
LoadedUnder(f) == Merge(Defaults, f.text)

(* get_dynamic_settings.  On None it raises, outside its try. *)
Loadable(f) == f.state # "empty"
Loaded(f) == Merge(f.text, Defaults)

(* input, on a control message. *)
Update(change) ==
  /\ storing = "no"
  /\ control' = Merge(change, control)
  /\ storing' = "open"
  /\ UNCHANGED <<file, unsaved>>

StoreOpen ==
  /\ storing = "open"
  /\ file' = Empty /\ storing' = "write"
  /\ UNCHANGED <<control, unsaved>>

StoreWrite ==
  /\ storing = "write"
  /\ file' = Holding(control)
  /\ storing' = "no" /\ unsaved' = FALSE
  /\ UNCHANGED control

(* Opening or writing fails: except passes. *)
StoreFails ==
  /\ storing # "no"
  /\ storing' = "no" /\ unsaved' = TRUE
  /\ UNCHANGED <<control, file>>

(* A process that has just read the file. *)
StartWith(f) ==
  /\ control' = Loaded(f)
  /\ unsaved' = FALSE
  /\ UNCHANGED <<file, storing>>

(* The process ends, and its threads where they stand. *)
AbandonStore == storing' = "no" /\ UNCHANGED <<control, file, unsaved>>
=============================================================================
