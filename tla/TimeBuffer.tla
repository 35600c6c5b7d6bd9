------------------------------ MODULE TimeBuffer ------------------------------
(***************************************************************************)
(* One TimeBuffer object (shedder/data/timebuffer.py) written by threads.  *)
(*                                                                         *)
(* insert_sorted takes no lock.  The threads that call it are paho's       *)
(* network thread (shedder.py `input`) and, for the power buffers, also    *)
(* the main thread (period_status inserts an emulated reading while the    *)
(* meter is silent).  A step here is what a thread does to the shared list *)
(* between two places where the interpreter may switch threads: one call   *)
(* of the recursive get_index, one mutation, one copy, one rebinding of    *)
(* the attribute.  crop_interval searches twice, copies a slice, and then  *)
(* rebinds the attribute to the copy.                                      *)
(*                                                                         *)
(* save() starts a thread that only reads the list.                        *)
(***************************************************************************)
EXTENDS SortedList

CONSTANTS Writers,   \* threads that call insert_sorted on this buffer
          Times,     \* timestamps a reading may carry
          Values,    \* values of a reading
          Age,       \* the buffer's age; <= 0 keeps everything
          MaxNow     \* bound on the clock

ASSUME TimesAssumption == Times \subseteq Int
ASSUME AgeAssumption == Age \in Int
ASSUME MaxNowAssumption == MaxNow \in Nat

VARIABLES
  list,    \* self.sorted_list
  now,     \* time.time(), in ticks
  pc,      \* per writer: where in insert_sorted it is
  entry,   \* per writer: vt, the entry being inserted
  from,    \* per writer: from_idx of the next get_index call
  to,      \* per writer: to_idx of the next get_index call
  found,   \* per writer: what each of the searches returned
  cropAt,  \* per writer: the time auto_crop read
  copied   \* per writer: the slice crop_interval is about to bind

vars == <<list, now, pc, entry, from, to, found, cropAt, copied>>

Readings == Entry(Times, Values)
NoEntry == [ts |-> 0, value |-> 0]

(* The three get_index searches of insert_sorted, named for their result:  *)
(* where to insert; the first and the last index that a crop keeps.        *)
Searches == {"idx", "from_idx", "to_idx"}
After == [idx |-> "put", from_idx |-> "to_idx", to_idx |-> "slice"]
NothingFound == [s \in Searches |-> 0]

TypeInv ==
  /\ list \in Seq(Readings)
  /\ now \in 0..MaxNow
  /\ pc \in [Writers -> Searches \cup
                {"idle", "put", "crop", "slice", "bind", "save", "raised"}]
  /\ entry \in [Writers -> Readings \cup {NoEntry}]
  /\ from \in [Writers -> Nat]
  /\ to \in [Writers -> Nat \cup {WholeList}]
  /\ found \in [Writers -> [Searches -> Nat]]
  /\ cropAt \in [Writers -> 0..MaxNow]
  /\ copied \in [Writers -> Seq(Readings)]

Init ==
  /\ list = <<>>
  /\ now = 0
  /\ pc = [w \in Writers |-> "idle"]
  /\ entry = [w \in Writers |-> NoEntry]
  /\ from = [w \in Writers |-> 0]
  /\ to = [w \in Writers |-> WholeList]
  /\ found = [w \in Writers |-> NothingFound]
  /\ cropAt = [w \in Writers |-> 0]
  /\ copied = [w \in Writers |-> <<>>]

-----------------------------------------------------------------------------
Goto(w, label) == pc' = [pc EXCEPT ![w] = label]

(* insert_sorted(ts, value) is called. *)
Insert(w, e) ==
  /\ pc[w] = "idle"
  /\ entry' = [entry EXCEPT ![w] = e]
  /\ Goto(w, "idx")
  /\ UNCHANGED <<list, now, from, to, found, cropAt, copied>>

SearchedTs(w) ==
  CASE pc[w] = "idx"      -> entry[w].ts
    [] pc[w] = "from_idx" -> CropFrom(Age, cropAt[w])
    [] pc[w] = "to_idx"   -> CropTo(cropAt[w])

(* One call of get_index: it returns to the caller, or calls itself again. *)
Search(w) ==
  /\ pc[w] \in Searches
  /\ LET call == IndexCall(list, SearchedTs(w), from[w], to[w], InsertIndex)
     IN  IF call.done
         THEN /\ found' = [found EXCEPT ![w][pc[w]] = call.from]
              /\ from' = [from EXCEPT ![w] = 0]
              /\ to' = [to EXCEPT ![w] = WholeList]
              /\ Goto(w, After[pc[w]])
         ELSE /\ from' = [from EXCEPT ![w] = call.from]
              /\ to' = [to EXCEPT ![w] = call.to]
              /\ UNCHANGED <<found, pc>>
  /\ UNCHANGED <<list, now, entry, cropAt, copied>>

(* The list is mutated in place. *)
Put(w) ==
  /\ pc[w] = "put"
  /\ list' = PutAt(list, found[w].idx, entry[w])
  /\ Goto(w, "crop")
  /\ UNCHANGED <<now, entry, from, to, found, cropAt, copied>>

(* auto_crop reads sorted_list[0]; on an empty list that is an IndexError,  *)
(* which no caller catches.                                                 *)
AutoCrop(w) ==
  /\ pc[w] = "crop"
  /\ IF Age > 0 /\ list = <<>>
     THEN Goto(w, "raised") /\ UNCHANGED cropAt
     ELSE IF NeedsCrop(list, Age, now)
          THEN Goto(w, "from_idx") /\ cropAt' = [cropAt EXCEPT ![w] = now]
          ELSE Goto(w, "save") /\ UNCHANGED cropAt
  /\ UNCHANGED <<list, now, entry, from, to, found, copied>>

(* get_interval copies the slice between the two indexes it found ... *)
CopySlice(w) ==
  /\ pc[w] = "slice"
  /\ copied' = [copied EXCEPT ![w] =
                  Slice(list, found[w].from_idx, found[w].to_idx, CropTo(cropAt[w]))]
  /\ Goto(w, "bind")
  /\ UNCHANGED <<list, now, entry, from, to, found, cropAt>>

(* ... and crop_interval makes that copy the list. *)
Rebind(w) ==
  /\ pc[w] = "bind"
  /\ list' = copied[w]
  /\ Goto(w, "save")
  /\ UNCHANGED <<now, entry, from, to, found, cropAt, copied>>

(* The backup thread is started and insert_sorted returns. *)
Save(w) ==
  /\ pc[w] = "save"
  /\ Goto(w, "idle")
  /\ entry' = [entry EXCEPT ![w] = NoEntry]
  /\ found' = [found EXCEPT ![w] = NothingFound]
  /\ cropAt' = [cropAt EXCEPT ![w] = 0]
  /\ copied' = [copied EXCEPT ![w] = <<>>]
  /\ UNCHANGED <<list, now, from, to>>

Tick ==
  /\ now < MaxNow
  /\ now' = now + 1
  /\ UNCHANGED <<list, pc, entry, from, to, found, cropAt, copied>>

Step(w) ==
  \/ \E e \in Readings : Insert(w, e)
  \/ Search(w)
  \/ Put(w)
  \/ AutoCrop(w)
  \/ CopySlice(w)
  \/ Rebind(w)
  \/ Save(w)

Next == Tick \/ \E w \in Writers : Step(w)

Spec == Init /\ [][Next]_vars

-----------------------------------------------------------------------------
(* The list is sorted by timestamp, no timestamp twice: what get_index      *)
(* needs to find anything, and what insert_sorted says it keeps             *)
(* (timebuffer.py:119).                                                     *)
Sorted == StrictlySorted(list)

(* The contents of the list follow BufferSpec: no reading is lost, kept     *)
(* twice or put back by the copy that crop_interval binds.                  *)
Contents == INSTANCE BufferSpec WITH readings <- Entries(list)
ImplementsBuffer == Contents!Spec

-----------------------------------------------------------------------------
(* The strengthening of Sorted that the steps of ONE writer preserve: each  *)
(* search is within bounds that enclose its target, an index found by a     *)
(* finished search still divides the list, and the copy about to be bound   *)
(* is the window of the list that auto_crop asked for.                      *)
Cropping == {"from_idx", "to_idx", "slice", "bind"}

InWindow(e, moment) == CropFrom(Age, moment) <= e.ts /\ e.ts <= CropTo(moment)

WriterInv(w) ==
  /\ pc[w] \notin {"idle", "raised"} => entry[w] \in Readings
  /\ pc[w] = "crop" => list # <<>>
  /\ pc[w] \in Cropping =>
       Age > 0 /\ cropAt[w] <= now /\ list # <<>> /\ NeedsCrop(list, Age, cropAt[w])
  /\ IF to[w] = WholeList THEN from[w] = 0
     ELSE pc[w] \in Searches /\ Encloses(list, from[w], to[w], SearchedTs(w))
  /\ pc[w] = "put" => Divides(list, found[w].idx, entry[w].ts)
  /\ pc[w] \in {"to_idx", "slice"} =>
       Divides(list, found[w].from_idx, CropFrom(Age, cropAt[w]))
  /\ pc[w] = "slice" => Divides(list, found[w].to_idx, CropTo(cropAt[w]))
  /\ pc[w] = "bind" =>
       /\ StrictlySorted(copied[w])
       /\ Entries(copied[w]) = {e \in Entries(list) : InWindow(e, cropAt[w])}

IInv == TypeInv /\ Sorted /\ \A w \in Writers : WriterInv(w)

(* The energy buffers have one writer: only paho's thread inserts in them.  *)
OneWriter == \A u, w \in Writers : u = w
=============================================================================
