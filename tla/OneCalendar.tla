----------------------------- MODULE OneCalendar -----------------------------
(***************************************************************************)
(* The upgrade from several calendars to one.  When the service starts it  *)
(* converts the archive, the configuration and the dropped files           *)
(* (context_service.py migrate_calendar, calendar_archive.py migrate), and *)
(* afterwards its worker moves the notes and their records from the former *)
(* event ids to the new ones (migrate_event_ids), beside people who edit   *)
(* the notes.  Files are replaced one by one: a crash may come between any *)
(* two, and everything is begun again.                                     *)
(***************************************************************************)
EXTENDS Naturals, FiniteSets

CONSTANTS Notes, Receipts, Old, Renamed,   \* the former ids and what becomes of each
          MaxEdits, MaxFaults, None

VARIABLES file, mirror,   \* catalog.json and the rows
          labels,     \* the receipts that carry the name of their former calendar
          sources, dropbox, migrated,   \* the old sources are configured; the items converted; the marker
          backups,    \* what was kept of before
          notes, assoc, final, moved,   \* the notes, associations.json, finalized.json, the marker
          pc, job,
          returned, skipped,    \* notes that were given a former id by hand, or cannot be written
          leave

vars == <<file, mirror, labels, sources, dropbox, migrated, backups, notes, assoc, final, moved, pc, job,
          returned, skipped, leave>>

calendar == <<file, mirror, labels, sources, dropbox, migrated>>
records == <<assoc, final>>

Former == [version |-> 1, events |-> Old, aliases |-> {}, conflicts |-> {}, named |-> TRUE]
NoBackups == [state |-> None, catalog |-> None, receipts |-> None, ids |-> None]
NoJob == [todo |-> {}, note |-> None, seen |-> 0, value |-> None, complete |-> TRUE, assoc |-> None, final |-> None]
Start(at) ==
  /\ file = Former /\ mirror = Former /\ labels = {} /\ sources = TRUE /\ dropbox = "former"
  /\ migrated = FALSE /\ moved = FALSE /\ backups = NoBackups
  /\ \E has \in (IF at = "off" THEN {[n \in Notes |-> CHOOSE e \in Old : TRUE]} ELSE [Notes -> Old]) :
       /\ notes = [n \in Notes |-> [event |-> has[n], version |-> 1, fit |-> TRUE]]
       /\ assoc = [n \in Notes |-> {has[n]}] /\ final = assoc
  /\ pc = at /\ job = NoJob /\ returned = {} /\ skipped = {}
  /\ leave = [edits |-> MaxEdits, faults |-> MaxFaults]
Init == Start("start")

May(what) == leave[what] > 0 /\ leave' = [leave EXCEPT ![what] = @ - 1]
Goes(from, to) == pc = from /\ pc' = to

-----------------------------------------------------------------------------
(* migrate_calendar: what was before is kept once, then nothing is done that was done before *)

KeepOnce(which, value) == backups' = [backups EXCEPT ![which] = IF @ = None THEN value ELSE @]
KeepAgain(which, value) == backups' = [backups EXCEPT ![which] = value]
Keep(which, value) == KeepOnce(which, value)

Starts ==
  /\ pc = "start"
  /\ IF migrated THEN pc' = "idle" /\ UNCHANGED backups
     ELSE /\ Keep("state", <<sources, dropbox>>)
          /\ pc' = IF file.version = 2 THEN "sources" ELSE "catalog"
  /\ UNCHANGED <<calendar, notes, records, moved, job, returned, skipped, leave>>
KeepCatalog == /\ Goes("catalog", "receipts") /\ Keep("catalog", file.version)
               /\ UNCHANGED <<calendar, notes, records, moved, job, returned, skipped, leave>>
KeepReceipts == /\ Goes("receipts", "label") /\ Keep("receipts", labels)
                /\ UNCHANGED <<calendar, notes, records, moved, job, returned, skipped, leave>>
(* The names are those of the configured sources *)
Label == /\ pc = "label" /\ \E r \in Receipts : labels' = IF sources THEN labels \cup {r} ELSE labels
         /\ pc' = IF labels' = Receipts THEN "promote" ELSE "label"
         /\ UNCHANGED <<file, mirror, sources, dropbox, migrated, backups, notes, records, moved, job, returned,
                        skipped, leave>>

(* Of two events that become one, the later may conflict with the former *)
Clashes == {e \in Old : \E f \in Old : f < e /\ Renamed[f] = Renamed[e]}
Promote ==
  /\ Goes("promote", "commit")
  /\ \E lost \in SUBSET Clashes :
       file' = [version |-> 2, events |-> {Renamed[e] : e \in Old}, aliases |-> Old, conflicts |-> lost,
                named |-> sources]
  /\ UNCHANGED <<mirror, labels, sources, dropbox, migrated, backups, notes, records, moved, job, returned,
                 skipped, leave>>
Commit == /\ Goes("commit", "sources") /\ mirror' = file
          /\ UNCHANGED <<file, labels, sources, dropbox, migrated, backups, notes, records, moved, job,
                         returned, skipped, leave>>
ClearSources == /\ Goes("sources", "items") /\ sources' = FALSE
                /\ UNCHANGED <<file, mirror, labels, dropbox, migrated, backups, notes, records, moved, job,
                               returned, skipped, leave>>
ConvertItems == /\ Goes("items", "mark") /\ dropbox' = "converted"
                /\ UNCHANGED <<file, mirror, labels, sources, migrated, backups, notes, records, moved, job,
                               returned, skipped, leave>>
MarkMigrated == /\ Goes("mark", "idle") /\ migrated' = TRUE
                /\ UNCHANGED <<file, mirror, labels, sources, dropbox, backups, notes, records, moved, job,
                               returned, skipped, leave>>

-----------------------------------------------------------------------------
(* migrate_event_ids, with the service's lock: the records stay as they were read *)

(* The rows of another catalog are made anew from the file *)
WithoutAliases(f) == [f EXCEPT !.aliases = {}]
Rebuilt(f) == f
Catalog == IF mirror.version = file.version THEN mirror ELSE Rebuilt(file)

IdsBegin ==
  /\ pc = "idle" /\ ~moved
  /\ mirror' = Catalog
  /\ IF mirror'.aliases = {} THEN pc' = "moved" /\ UNCHANGED <<job, backups>>
     ELSE /\ Keep("ids", <<assoc, final>>)
          /\ job' = [NoJob EXCEPT !.todo = Notes, !.assoc = assoc, !.final = final] /\ pc' = "notes"
  /\ UNCHANGED <<file, labels, sources, dropbox, migrated, notes, records, moved, returned, skipped, leave>>

NextNote == CHOOSE n \in job.todo : \A m \in job.todo : n <= m
ReadNote ==
  /\ pc = "notes" /\ job.todo # {}
  /\ LET n == notes[NextNote]
     IN IF n.event \in mirror.aliases
        THEN /\ job' = [job EXCEPT !.note = NextNote, !.seen = n.version, !.value = n.event]
             /\ pc' = "patch" /\ UNCHANGED skipped
        ELSE job' = [job EXCEPT !.todo = @ \ {NextNote}] /\ UNCHANGED <<pc, skipped>>
  /\ UNCHANGED <<calendar, backups, notes, records, moved, returned, leave>>

Regardless == TRUE
StillSo == notes[job.note].version = job.seen
Done(complete) == job' = [job EXCEPT !.todo = @ \ {job.note}, !.complete = @ /\ complete]
(* A note that is not fit to be written is passed over, one that has changed is for another time *)
PatchNote ==
  /\ Goes("patch", "notes")
  /\ LET n == job.note
     IN CASE ~StillSo -> Done(FALSE) /\ UNCHANGED <<notes, skipped>>
          [] StillSo /\ ~notes[n].fit -> Done(TRUE) /\ skipped' = skipped \cup {n} /\ UNCHANGED notes
          [] OTHER -> /\ notes' = [notes EXCEPT ![n].event = Renamed[job.value], ![n].version = @ + 1]
                      /\ Done(TRUE) /\ UNCHANGED skipped
  /\ UNCHANGED <<calendar, backups, records, moved, returned, leave>>
PatchFails ==
  /\ Goes("patch", "notes") /\ May("faults") /\ Done(FALSE)
  /\ UNCHANGED <<calendar, backups, notes, records, moved, returned, skipped>>

NotesEnd ==
  /\ pc = "notes" /\ job.todo = {} /\ pc' = IF job.complete THEN "assoc" ELSE "idle"
  /\ UNCHANGED <<calendar, backups, notes, records, moved, job, returned, skipped, leave>>
Translated(ids) == {IF i \in mirror.aliases THEN Renamed[i] ELSE i : i \in ids}
WriteAssoc == /\ Goes("assoc", "final") /\ assoc' = [n \in Notes |-> Translated(job.assoc[n])]
              /\ UNCHANGED <<calendar, backups, notes, final, moved, job, returned, skipped, leave>>
WriteFinal == /\ Goes("final", "moved") /\ final' = [n \in Notes |-> Translated(job.final[n])]
              /\ UNCHANGED <<calendar, backups, notes, assoc, moved, job, returned, skipped, leave>>
MarkMoved == /\ Goes("moved", "idle") /\ moved' = TRUE
             /\ UNCHANGED <<calendar, backups, notes, records, job, returned, skipped, leave>>

-----------------------------------------------------------------------------
(* Somebody chooses another event, puts an older version back, deletes the property, or writes
   what cannot be read *)
Edit(n) ==
  /\ pc # "off" /\ May("edits")
  /\ \E event \in Old \cup {Renamed[e] : e \in Old} \cup {0}, fit \in BOOLEAN :
       /\ notes' = [notes EXCEPT ![n] = [event |-> event, version |-> @.version + 1, fit |-> fit]]
       /\ returned' = IF event \in Old THEN returned \cup {n} ELSE returned \ {n}
  /\ UNCHANGED <<calendar, backups, records, moved, pc, job, skipped>>

Crash == /\ pc \notin {"off", "start"} /\ May("faults") /\ pc' = "start" /\ job' = NoJob
         /\ UNCHANGED <<calendar, backups, notes, records, moved, returned, skipped>>

Upgrade == Starts \/ KeepCatalog \/ KeepReceipts \/ Label \/ Promote \/ Commit \/ ClearSources \/ ConvertItems
           \/ MarkMigrated
Ids == IdsBegin \/ ReadNote \/ PatchNote \/ NotesEnd \/ WriteAssoc \/ WriteFinal \/ MarkMoved
Next == Upgrade \/ Ids \/ PatchFails \/ Crash \/ \E n \in Notes : Edit(n)
(* The service starts, and its worker runs *)
Fairness == WF_vars(Upgrade \/ Ids)
Spec == Init /\ [][Next]_vars /\ Fairness

-----------------------------------------------------------------------------
TypeOK == /\ labels \subseteq Receipts /\ job.todo \subseteq Notes
          /\ file.version \in {1, 2} /\ mirror.version \in {1, 2}

(* What is kept of before is from before *)
KeptAsItWas ==
  /\ backups.state \in {None, <<TRUE, "former">>} /\ backups.catalog \in {None, 1}
  /\ backups.receipts \in {None, {}}
  /\ backups.ids # None => \A n \in Notes, i \in {1, 2} : backups.ids[i][n] \subseteq Old
(* The converted calendar says which calendar everything came from, and its rows are its file *)
Converted == /\ mirror.version = file.version => mirror = file
             /\ file.version = 2 => file.named /\ labels = Receipts
(* When the worker is done nothing refers to a former id but what nobody could write, or somebody
   has written since *)
NothingFormer ==
  moved => \A n \in Notes : /\ (assoc[n] \cup final[n]) \cap Old = {}
                            /\ notes[n].event \in Old => n \in returned \cup skipped
(* A note keeps the event somebody chose *)
ChoiceStands == \A n \in Notes : PatchNote /\ notes'[n] # notes[n] =>
                  notes[n].event \in Old /\ notes'[n].event = Renamed[notes[n].event]

(* The upgrade loses nothing and comes to its end, wherever it was interrupted. *)
UpgradeStands == [](KeptAsItWas /\ Converted /\ NothingFormer) /\ [][ChoiceStands]_vars
                 /\ []<>(moved \/ pc = "off")
=============================================================================
