----------------------------- MODULE BufferBackup -----------------------------
(***************************************************************************)
(* The backup file of a TimeBuffer (shedder/data/timebuffer.py: save,      *)
(* save_runner, restore).                                                  *)
(*                                                                         *)
(* Every insert_sorted starts a thread of its own that truncates the file, *)
(* dumps the list and writes the dump.  The dump walks over the list       *)
(* object while insert_sorted may change it in place; a crop leaves it the *)
(* old object.  Two such threads write to the file each from its start.    *)
(* The process may die at any time, and the disk be full: the file then    *)
(* ends at any character of the text, and is restored as far as it goes.   *)
(*                                                                         *)
(* The text of an entry is "- - ts", a line break and "  - value".  Ended  *)
(* in the value or before it, it is an entry with another value or none;   *)
(* in the timestamp, one with an earlier timestamp; before that, an item   *)
(* that is no entry, and every search that comes to it raises.             *)
(*                                                                         *)
(* The buffer here has one writer, whose searches TimeBuffer shows to be   *)
(* exact, so an insertion is two steps: into the list, and the crop.       *)
(***************************************************************************)
EXTENDS SortedList

CONSTANTS Times, Values, Age,
          CutTimes,     \* what the first digits of a timestamp read as
          NoValue,      \* an entry that ends before its value
          MaxNow,       \* bound on the clock
          MaxReadings,  \* bound on the insertions
          MaxRestarts   \* bound on the restarts

ASSUME BackupAssumption ==
  /\ Times \subseteq Int /\ CutTimes \subseteq Int /\ Age \in Int
  /\ MaxNow \in Nat /\ MaxReadings \in Nat /\ MaxRestarts \in Nat

VARIABLES
  list,       \* self.sorted_list
  stump,      \* it ends with an item that is no entry
  inserting,  \* insert_sorted is between its insertion and its crop
  now, readings, restarts,
  file,       \* the backup: its entries, and how it ends
  runner,     \* per insertion: the thread that saves after it
  spoiled,    \* history: the file may be behind the list for good
  mixed,      \* history: the file was written by a save that met another one
  tainted     \* history: the list was restored from such a file, or from one
              \* that ends in the timestamp of an entry or before it

vars == <<list, stump, inserting, now, readings, restarts, file, runner, spoiled, mixed, tainted>>

Readings == Entry(Times, Values)
Items == Entry(Times \cup CutTimes, Values \cup {NoValue})
Saves == 1..MaxReadings

(* How a file ends: after an entry or in its value; in a timestamp; in an   *)
(* item that is no entry; or so that it cannot be parsed at all.            *)
Endings == {"whole", "cut", "stump", "unreadable"}
Files == [entries : Seq(Items), ending : Endings]
Blank == [entries |-> <<>>, ending |-> "whole"]

(* A thread dumps the live list, or the object that a crop left behind.     *)
NoRunner == [at |-> "none", live |-> TRUE, left |-> <<>>, dump |-> <<>>, lone |-> TRUE]
Busy(r) == runner[r].at \in {"open", "dump", "write", "flush"}

TypeInv ==
  /\ list \in Seq(Items) /\ stump \in BOOLEAN
  /\ inserting \in BOOLEAN
  /\ now \in 0..MaxNow /\ readings \in 0..MaxReadings /\ restarts \in 0..MaxRestarts
  /\ file \in Files
  /\ runner \in [Saves -> [at : {"none", "open", "dump", "write", "flush"}, live : BOOLEAN,
                           left : Seq(Items), dump : Seq(Items), lone : BOOLEAN]]
  /\ spoiled \in BOOLEAN /\ mixed \in BOOLEAN /\ tainted \in BOOLEAN

Init ==
  /\ list = <<>> /\ stump = FALSE /\ inserting = FALSE
  /\ now = 0 /\ readings = 0 /\ restarts = 0
  /\ file = Blank
  /\ runner = [r \in Saves |-> NoRunner]
  /\ spoiled = FALSE /\ mixed = FALSE /\ tainted = FALSE

-----------------------------------------------------------------------------
(* A save that something happens to is not alone any more. *)
Met(run) == [r \in Saves |-> IF Busy(r) THEN [run[r] EXCEPT !.lone = FALSE] ELSE run[r]]

(* A search looks at the first item, and unless it ends there at the last.  *)
Searchable(ts) == stump => list # <<>> /\ ts <= list[1].ts

(* insert_sorted changes the list object in place, or its search raises and *)
(* it ends. *)
Insert(e) ==
  /\ ~inserting /\ readings < MaxReadings /\ Searchable(e.ts)
  /\ readings' = readings + 1
  /\ list' = InsertSorted(list, e)
  /\ inserting' = TRUE
  /\ runner' = Met(runner)
  /\ UNCHANGED <<stump, now, restarts, file, spoiled, mixed, tainted>>

(* The list that auto_crop leaves. *)
Cropped ==
  IF NeedsCrop(list, Age, now) THEN GetInterval(list, CropFrom(Age, now), CropTo(now))
  ELSE list

(* crop_interval binds a new object; a dump under way keeps the old one. *)
LeftBehind(run) ==
  [r \in Saves |-> IF run[r].at = "dump" /\ run[r].live /\ NeedsCrop(list, Age, now)
                   THEN [run[r] EXCEPT !.live = FALSE, !.left = list] ELSE run[r]]

(* The searches of auto_crop come to the last item, so one that is no entry *)
(* ends insert_sorted after its insertion.                                  *)
CropRaises == stump /\ NeedsCrop(list, Age, now)

EndWithoutSave ==
  /\ inserting /\ CropRaises
  /\ inserting' = FALSE /\ spoiled' = TRUE
  /\ UNCHANGED <<list, stump, now, readings, restarts, file, runner, mixed, tainted>>

(* auto_crop, then save starts a thread. *)
CropAndSave ==
  /\ inserting /\ ~CropRaises
  /\ inserting' = FALSE
  /\ list' = Cropped
  /\ LET alone == \A r \in Saves : ~Busy(r)
     IN  /\ runner' = [Met(LeftBehind(runner)) EXCEPT
                         ![readings] = [NoRunner EXCEPT !.at = "open", !.lone = alone]]
         /\ spoiled' = (spoiled \/ ~alone)
  /\ UNCHANGED <<stump, now, readings, restarts, file, mixed, tainted>>

-----------------------------------------------------------------------------
(* Mutant: the file is opened for update. *)
Untruncated(f) == f

Truncated(f) == Blank

Open(r) ==
  /\ runner[r].at = "open"
  /\ file' = Truncated(file) /\ mixed' = FALSE
  /\ runner' = [runner EXCEPT ![r].at = "dump"]
  /\ UNCHANGED <<list, stump, inserting, now, readings, restarts, spoiled, tainted>>

Dumped(r) == IF runner[r].live THEN list ELSE runner[r].left

(* yaml.dump takes the next entry, or has met the end of the list. *)
Dump(r) ==
  /\ runner[r].at = "dump"
  /\ runner' = IF Len(runner[r].dump) < Len(Dumped(r))
               THEN [runner EXCEPT ![r].dump = Append(@, Dumped(r)[Len(@) + 1])]
               ELSE [runner EXCEPT ![r].at = "write"]
  /\ UNCHANGED <<list, stump, inserting, now, readings, restarts, file, spoiled, mixed, tainted>>

(* The text of a dump. *)
Text(dump) == [entries |-> dump, ending |-> IF stump THEN "stump" ELSE "whole"]

(* What its beginning reads as when it ends in its k-th entry: in front of  *)
(* the timestamp, in the timestamp, or behind it.                           *)
CutEntries == [ts : CutTimes, value : {NoValue}]
CutValues(e) == [ts : {e.ts}, value : Values \cup {NoValue}]

CutIn(dump, k) ==
  LET before == SubSeq(dump, 1, k - 1)
  IN  {[entries |-> before, ending |-> "stump"]}
      \cup {[entries |-> Append(before, e), ending |-> "cut"] : e \in CutEntries}
      \cup {[entries |-> Append(before, e), ending |-> "whole"] : e \in CutValues(dump[k])}

Cuts(dump) == UNION {CutIn(dump, k) : k \in 1..Len(dump)}

(* A text goes over what another save has put into the file since this one  *)
(* opened it; the rest of a longer text remains, from some character on.    *)
Overlaid(old, new) ==
  LET rest == SubSeq(old.entries, Len(new.entries) + 1, Len(old.entries))
      end  == IF rest = <<>> THEN new.ending ELSE old.ending
  IN  {[entries |-> new.entries \o rest, ending |-> e] : e \in {end, "unreadable"}}

(* A part of the text is in the file; the rest is to come. *)
WritePart(r) ==
  /\ runner[r].at = "write"
  /\ file' \in IF file = Blank THEN Cuts(runner[r].dump)
               ELSE UNION {Overlaid(file, part) : part \in Cuts(runner[r].dump)}
  /\ mixed' = (mixed \/ ~runner[r].lone)
  /\ runner' = [runner EXCEPT ![r].at = "flush"]
  /\ UNCHANGED <<list, stump, inserting, now, readings, restarts, spoiled, tainted>>

(* All of it is: the rest behind a part of itself; or one has got mixed up  *)
(* with what another save has written, or truncated, meanwhile.             *)
Write(r) ==
  /\ runner[r].at \in {"write", "flush"}
  /\ LET dump  == runner[r].dump
         alone == IF runner[r].at = "write" THEN file = Blank ELSE file \in Cuts(dump)
     IN  file' \in IF alone THEN {Text(dump)} ELSE Overlaid(file, Text(dump))
  /\ mixed' = (mixed \/ ~runner[r].lone)
  /\ spoiled' = (spoiled /\ ~runner[r].lone)
  /\ runner' = [runner EXCEPT ![r] = NoRunner]
  /\ UNCHANGED <<list, stump, inserting, now, readings, restarts, tainted>>

(* The directory is gone or the disk full: logged and forgotten, and a part *)
(* of the text that has been written stays.                                 *)
Fail(r) ==
  /\ runner[r].at \in {"open", "write", "flush"}
  /\ runner' = [runner EXCEPT ![r] = NoRunner]
  /\ spoiled' = TRUE
  /\ UNCHANGED <<list, stump, inserting, now, readings, restarts, file, mixed, tainted>>

(* What restore makes of the file: what can be parsed, or nothing. *)
Restored(f) ==
  [entries |-> IF f.ending = "unreadable" THEN <<>> ELSE f.entries, stump |-> f.ending = "stump"]

(* The process dies with its threads and is started again. *)
Restart ==
  /\ restarts < MaxRestarts
  /\ restarts' = restarts + 1
  /\ list' = Restored(file).entries /\ stump' = Restored(file).stump
  /\ inserting' = FALSE
  /\ runner' = [r \in Saves |-> NoRunner]
  /\ spoiled' = FALSE
  /\ tainted' = (tainted \/ mixed \/ file.ending \in {"cut", "stump"})
  /\ UNCHANGED <<now, readings, file, mixed>>

Tick ==
  /\ now < MaxNow
  /\ now' = now + 1
  /\ UNCHANGED <<list, stump, inserting, readings, restarts, file, runner, spoiled, mixed, tainted>>

Next ==
  \/ \E e \in Readings : Insert(e)
  \/ CropAndSave \/ EndWithoutSave
  \/ \E r \in Saves : Open(r) \/ Dump(r) \/ WritePart(r) \/ Write(r) \/ Fail(r)
  \/ Restart \/ Tick

Spec == Init /\ [][Next]_vars

-----------------------------------------------------------------------------
Quiet == ~inserting /\ \A r \in Saves : ~Busy(r)

(* Between insertions, with no save under way, the file is the list, so     *)
(* that a restart then loses nothing; unless the latest saves failed or ran *)
(* into one another: the next one that is alone puts it right.              *)
BackupIsCurrent ==
  Quiet /\ ~spoiled => Restored(file) = [entries |-> list, stump |-> stump]

(* The entries of a file whose timestamps are whole. *)
Sound(f) ==
  IF f.ending = "cut" THEN SubSeq(f.entries, 1, Len(f.entries) - 1) ELSE f.entries

(* A restart at any moment, also in the middle of a save that a full disk   *)
(* or the end of the process cuts short, finds a file whose entries are in  *)
(* order but for the last, whose timestamp may have been cut; and leaves a  *)
(* list that get_index can search unless it was.  That is as long as no     *)
(* save ran into another or into an insertion: what such saves wrote may be *)
(* in any order.                                                            *)
RestoredIsSorted ==
  ~tainted => StrictlySorted(list) /\ ~stump /\ (~mixed => StrictlySorted(Sound(file)))
=============================================================================
