------------------------------ MODULE Calendars ------------------------------
(***************************************************************************)
(* How a dropped export becomes part of the calendar: the folder's scan    *)
(* and the intake's items (dropbox.py), the receipts, the catalog and its  *)
(* mirror in the database (calendar_archive.py, calendar_mirror.py), and   *)
(* the worker of the context service that takes them through, beside the   *)
(* owner who dismisses, uploads and retries.                               *)
(*                                                                         *)
(* Two locks: the service's, held over whole steps of the intake, and the  *)
(* archive's.  An export is its bytes; of their contents only whether they *)
(* can be imported matters.                                                *)
(***************************************************************************)
EXTENDS Naturals, FiniteSets

CONSTANTS Exports, MaxDrops, MaxRequests, MaxFaults, None

VARIABLES drops,      \* the files of the folder: as they are, as the scan saw and as it took them
          items,      \* what the intake shows of each
          past,       \* and what it has shown
          receipts,   \* the archive's receipts
          damaged,    \* originals that fail their check
          catalog, mirror,    \* the file and the rows: the imports and a signature
          worker, owner,      \* what each does
          import,     \* the import under way, which holds the archive's lock
          late,       \* failures dismissed between the check of a retry and the retry
          leave

vars == <<drops, items, past, receipts, damaged, catalog, mirror, worker, owner, import, late, leave>>

Completed == {"succeeded", "already_imported"}
NoItem == [state |-> "none", part |-> FALSE]
NoReceipt == [state |-> "none", dismissed |-> FALSE, retryable |-> FALSE, counted |-> FALSE]
NoImport == [pc |-> "none", who |-> None, of |-> None]
Asleep == [pc |-> "idle", of |-> None, visited |-> {}, saw |-> [e \in Exports |-> None]]
Quiet == [pc |-> "idle", of |-> None]

Start(pc) ==
  /\ drops = [e \in Exports |-> [sig |-> 0, seen |-> 0, taken |-> 0]]
  /\ items = [e \in Exports |-> NoItem] /\ past = [e \in Exports |-> NoItem]
  /\ receipts = [e \in Exports |-> NoReceipt] /\ damaged = {} /\ late = {}
  /\ catalog = [sig |-> 0, imports |-> {}] /\ mirror = catalog
  /\ worker = [Asleep EXCEPT !.pc = pc] /\ owner = Quiet /\ import = NoImport
  /\ leave = [drops |-> MaxDrops, requests |-> MaxRequests, faults |-> MaxFaults]
Init == Start("idle")

May(what) == leave[what] > 0 /\ leave' = [leave EXCEPT ![what] = @ - 1]
On == worker.pc # "off"
(* The service's lock is held by whoever is inside one of these *)
Held == worker.pc \in {"taken", "submit", "save", "follow", "saving"} \/ owner.pc \in {"clear", "forget"}
Unlocked == import.pc = "none"

intake == <<items, past>>
archive == <<receipts, catalog, mirror>>

-----------------------------------------------------------------------------
(* A device puts the export into the folder, again, or takes it away *)

Drop(e) ==
  /\ On /\ May("drops")
  /\ \/ drops' = [drops EXCEPT ![e].sig = MaxDrops - leave.drops + 1]
     \/ drops[e].sig # 0 /\ drops' = [drops EXCEPT ![e].sig = 0]
  /\ UNCHANGED <<intake, archive, damaged, worker, owner, import, late>>

-----------------------------------------------------------------------------
(* Dropbox.scan: bytes unchanged for 30 s are submitted, and not looked at again *)

Visited(e) == [worker EXCEPT !.pc = "scan", !.of = None, !.visited = @ \cup {e}]
Wakes == /\ worker.pc = "idle" /\ worker' = [worker EXCEPT !.pc = "scan", !.visited = {}]
         /\ UNCHANGED <<drops, intake, archive, damaged, owner, import, late, leave>>

First(S) == CHOOSE e \in S : \A f \in S : e <= f
Visits(e) == worker.pc = "scan" /\ e \notin worker.visited /\ e = First(Exports \ worker.visited)
Skip(e) ==
  /\ Visits(e)
  /\ LET d == drops[e]
     IN /\ d.sig = 0 \/ d.sig = d.taken \/ d.sig # d.seen
        /\ drops' = IF d.sig = 0 \/ d.sig = d.taken THEN drops ELSE [drops EXCEPT ![e].seen = d.sig]
  /\ worker' = Visited(e)
  /\ UNCHANGED <<intake, archive, damaged, owner, import, late, leave>>

Imports(e) == receipts[e].state = "succeeded"
Duplicate(e) == Imports(e) \/ past[e].state \in Completed \/ items[e].state \in Completed
Under(e) == items[e].state \in {"pending", "importing"}
Item(state, part) == [state |-> state, part |-> part]
Enters(e) ==
  /\ ~Held
  /\ items' = [items EXCEPT ![e] = IF Under(e) THEN @
                                   ELSE IF Duplicate(e) THEN Item("already_imported", Imports(e) \/ past[e].part)
                                   ELSE Item("pending", FALSE)]
Submit(e) ==
  /\ Visits(e)
  /\ drops[e].sig # 0 /\ drops[e].sig = drops[e].seen /\ drops[e].sig # drops[e].taken
  /\ Enters(e)
  /\ worker' = [worker EXCEPT !.pc = "taken", !.of = e]
  /\ UNCHANGED <<drops, past, archive, damaged, owner, import, late, leave>>
Taken ==
  /\ worker.pc = "taken"
  /\ drops' = [drops EXCEPT ![worker.of].taken = drops[worker.of].seen]
  /\ worker' = Visited(worker.of)
  /\ UNCHANGED <<intake, archive, damaged, owner, import, late, leave>>

ScanEnds ==
  /\ worker.pc = "scan" /\ worker.visited = Exports /\ ~Held
  /\ drops' = [e \in Exports |-> IF drops[e].sig = 0 THEN [sig |-> 0, seen |-> 0, taken |-> 0] ELSE drops[e]]
  /\ worker' = [worker EXCEPT !.pc = "process"]
  /\ UNCHANGED <<intake, archive, damaged, owner, import, late, leave>>

-----------------------------------------------------------------------------
(* Dropbox.process: one waiting item, then what the receipts say of all; before the import
   of the tick and, as worker.of says, after it *)

Waiting == {e \in Exports : items[e].state = "pending"}
Expire == \E old \in SUBSET {e \in Exports : items[e].state \in Completed} :
            /\ old # {} /\ items' = [e \in Exports |-> IF e \in old THEN NoItem ELSE items[e]]
            /\ worker.pc = "process" /\ ~Held
            /\ UNCHANGED <<drops, past, archive, damaged, worker, owner, import, late, leave>>
Process ==
  /\ worker.pc \in {"process", "again"} /\ ~Held
  /\ LET next(pc, e) == worker' = [worker EXCEPT !.pc = pc, !.of = e,
                                                 !.visited = IF worker.pc = "again" THEN {} ELSE @]
     IN \/ Waiting = {} /\ next("follow", None) /\ UNCHANGED items
        \/ \E e \in Waiting : next("submit", e) /\ UNCHANGED items
        \/ \E e \in Waiting :
             /\ receipts[e].state = "none" /\ next("follow", None)
             /\ \E s \in {"unsupported", "succeeded"} : items' = [items EXCEPT ![e] = Item(s, FALSE)]
  /\ UNCHANGED <<drops, past, archive, damaged, owner, import, late, leave>>

(* CalendarArchive.submit *)
Received(r) ==
  IF r.state = "none" THEN [r EXCEPT !.state = "pending"]
  ELSE IF r.state = "failed" /\ r.retryable THEN [r EXCEPT !.state = "pending", !.dismissed = FALSE]
  ELSE [r EXCEPT !.dismissed = FALSE]
ArchiveSubmit ==
  /\ worker.pc = "submit" /\ Unlocked
  /\ receipts' = [receipts EXCEPT ![worker.of] = Received(@)]
  /\ worker' = [worker EXCEPT !.pc = "save"]
  /\ UNCHANGED <<drops, intake, damaged, catalog, mirror, owner, import, late, leave>>
Save ==
  /\ worker.pc = "save"
  /\ items' = [items EXCEPT ![worker.of] = Item("importing", TRUE)]
  /\ worker' = [worker EXCEPT !.pc = "follow", !.of = None]
  /\ UNCHANGED <<drops, past, archive, damaged, owner, import, late, leave>>

Follow ==
  /\ worker.pc = "follow"
  /\ worker' = [worker EXCEPT !.pc = "saving", !.saw = [e \in Exports |-> receipts[e].state]]
  /\ UNCHANGED <<drops, intake, archive, damaged, owner, import, late, leave>>
Followed(i, saw) ==
  IF i.part /\ i.state \in {"importing", "failed"} /\ saw = "succeeded" THEN Item("succeeded", TRUE)
  ELSE IF i.state = "importing" /\ saw = "failed" THEN Item("failed", TRUE)
  ELSE i
FollowSaves ==
  /\ worker.pc = "saving"
  /\ items' = [e \in Exports |-> Followed(items[e], worker.saw[e])]
  /\ past' = [e \in Exports |-> IF items'[e].state \in {"none", "pending", "importing"} THEN past[e] ELSE items'[e]]
  /\ worker' = [Asleep EXCEPT !.pc = IF worker.visited = {} THEN "idle" ELSE "pick"]
  /\ UNCHANGED <<drops, archive, damaged, owner, import, late, leave>>

(* tick: the first pending receipt *)
Pending == {e \in Exports : receipts[e].state = "pending"}
Pick ==
  /\ worker.pc = "pick"
  /\ worker' = IF Pending = {} THEN Asleep ELSE [worker EXCEPT !.pc = "import", !.of = First(Pending)]
  /\ UNCHANGED <<drops, intake, archive, damaged, owner, import, late, leave>>

-----------------------------------------------------------------------------
(* CalendarArchive.process, for the worker or the owner *)

Asks(who) == IF who = "worker" THEN worker.pc = "import" ELSE owner.pc = "retry"
Of(who) == IF who = "worker" THEN worker.of ELSE owner.of
(* Whoever asked goes on; an exception ends the tick *)
Ends(who, raised) ==
  /\ import' = NoImport
  /\ IF who = "worker"
     THEN worker' = (IF raised THEN Asleep ELSE [worker EXCEPT !.pc = "again", !.of = None]) /\ UNCHANGED owner
     ELSE owner' = Quiet /\ UNCHANGED worker
Succeeded(r) == [r EXCEPT !.state = "succeeded"]

(* The mirror is rebuilt when the catalog is not the one it was made from *)
Trusted == mirror
Fresh == IF mirror.sig = catalog.sig THEN mirror ELSE catalog
ImportBegins(who) ==
  LET e == Of(who)
  IN /\ Asks(who) /\ Unlocked
     /\ mirror' = Fresh
     /\ IF e \in Fresh.imports
        THEN receipts' = [receipts EXCEPT ![e] = Succeeded(@)] /\ Ends(who, FALSE)
        ELSE IF e \in damaged THEN Ends(who, TRUE) /\ UNCHANGED receipts
        ELSE /\ import' = [pc |-> "parse", who |-> who, of |-> e]
             /\ UNCHANGED <<receipts, worker, owner>>
     /\ UNCHANGED <<drops, intake, damaged, catalog, late, leave>>

(* The original cannot be imported, for now or for good *)
ParseFails ==
  /\ import.pc = "parse"
  /\ \E retryable \in BOOLEAN :
       /\ retryable => leave.faults > 0
       /\ leave' = [leave EXCEPT !.faults = IF retryable THEN @ - 1 ELSE @]
       /\ receipts' = [receipts EXCEPT ![import.of] = [@ EXCEPT !.state = "failed", !.dismissed = FALSE,
                                                                 !.retryable = retryable]]
  /\ Ends(import.who, FALSE)
  /\ UNCHANGED <<drops, intake, damaged, catalog, mirror, late>>

(* The count is on the receipt, and the events in the file, before the rows are committed *)
CountLater(r) == r
Counted(r) == [r EXCEPT !.counted = TRUE]
Count ==
  /\ import.pc = "parse" /\ import' = [import EXCEPT !.pc = "promote"]
  /\ receipts' = [receipts EXCEPT ![import.of] = Counted(@)]
  /\ UNCHANGED <<drops, intake, damaged, catalog, mirror, worker, owner, late, leave>>
Promote ==
  /\ import.pc = "promote" /\ import' = [import EXCEPT !.pc = "commit"]
  /\ catalog' = [sig |-> catalog.sig + 1, imports |-> mirror.imports \cup {import.of}]
  /\ UNCHANGED <<drops, intake, receipts, damaged, mirror, worker, owner, late, leave>>
Commit ==
  /\ import.pc = "commit" /\ import' = [import EXCEPT !.pc = "receipt"] /\ mirror' = catalog
  /\ UNCHANGED <<drops, intake, receipts, damaged, catalog, worker, owner, late, leave>>
CommitFails ==
  /\ import.pc = "commit" /\ May("faults") /\ Ends(import.who, TRUE)
  /\ UNCHANGED <<drops, intake, archive, damaged, late>>
Receipt ==
  /\ import.pc = "receipt"
  /\ receipts' = [receipts EXCEPT ![import.of] = Succeeded(@)]
  /\ Ends(import.who, FALSE)
  /\ UNCHANGED <<drops, intake, damaged, catalog, mirror, late, leave>>

-----------------------------------------------------------------------------
(* The owner's requests *)

Request == On /\ owner.pc = "idle" /\ May("requests")
Deliver(e) == /\ Request /\ Enters(e)
              /\ UNCHANGED <<drops, past, archive, damaged, worker, owner, import, late>>
Upload(e) ==
  /\ Request /\ Unlocked /\ receipts' = [receipts EXCEPT ![e] = Received(@)]
  /\ UNCHANGED <<drops, intake, damaged, catalog, mirror, worker, owner, import, late>>

(* A failure that was dismissed is not tried again; the check holds no lock *)
Retry(e) ==
  /\ Request /\ receipts[e].state # "none" /\ ~receipts[e].dismissed
  /\ owner' = [pc |-> "retry", of |-> e]
  /\ UNCHANGED <<drops, intake, archive, damaged, worker, import, late>>

(* Another tab dismisses a failure while a retry waits *)
Acknowledged(e) ==
  /\ receipts' = [receipts EXCEPT ![e].dismissed = receipts[e].state = "failed" \/ @]
  /\ late' = IF \E who \in {"worker", "owner"} : Asks(who) /\ Of(who) = e THEN late \cup {e} ELSE late
DismissesBeside(e) ==
  /\ owner.pc = "retry" /\ owner.of = e /\ May("requests") /\ Unlocked /\ ~Held
  /\ receipts[e].state = "failed" /\ Acknowledged(e)
  /\ items' = IF items[e].state \in {"importing", "failed"} /\ items[e].part
              THEN [items EXCEPT ![e] = NoItem] ELSE items
  /\ past' = IF items' = items THEN past ELSE [past EXCEPT ![e] = Item("failed", TRUE)]
  /\ UNCHANGED <<drops, damaged, catalog, mirror, worker, owner, import>>

(* dismiss_import and Dropbox.dismiss: the receipt, then the item *)
DismissBegins(e) ==
  /\ Request /\ ~Held
  /\ \/ receipts[e].state = "failed" /\ owner' = [pc |-> "clear", of |-> e]
     \/ items[e].state = "failed" /\ owner' = [pc |-> "clear", of |-> e]
     \/ items[e].state \in Completed \cup {"unsupported"} /\ owner' = [pc |-> "forget", of |-> e]
  /\ UNCHANGED <<drops, intake, archive, damaged, worker, import, late>>
Clears ==
  /\ owner.pc = "clear" /\ Unlocked /\ Acknowledged(owner.of)
  /\ owner' = [owner EXCEPT !.pc = "forget"]
  /\ UNCHANGED <<drops, intake, damaged, catalog, mirror, worker, import, leave>>
Forgets ==
  /\ owner.pc = "forget" /\ owner' = Quiet
  /\ LET i == items[owner.of]
         gone == i.state \in {"failed", "unsupported"} \cup Completed \/ (i.state = "importing" /\ i.part)
     IN /\ items' = IF gone THEN [items EXCEPT ![owner.of] = NoItem] ELSE items
        /\ past' = IF ~gone THEN past
                   ELSE [past EXCEPT ![owner.of] = IF i.state = "importing" THEN Item("failed", TRUE) ELSE i]
  /\ UNCHANGED <<drops, archive, damaged, worker, import, late, leave>>

-----------------------------------------------------------------------------
(* Faults.  Only what the scan has seen is in memory. *)

Crash ==
  /\ On /\ May("faults")
  /\ worker' = Asleep /\ owner' = Quiet /\ import' = NoImport
  /\ drops' = [e \in Exports |-> [drops[e] EXCEPT !.seen = 0]]
  /\ UNCHANGED <<intake, archive, damaged, late>>
Damage(e) == /\ receipts[e].state = "pending" /\ e \notin damaged /\ May("faults") /\ damaged' = damaged \cup {e}
             /\ UNCHANGED <<drops, intake, archive, worker, owner, import, late>>

Scan == Wakes \/ (\E e \in Exports : Skip(e) \/ Submit(e)) \/ Taken \/ ScanEnds
Intake == Process \/ ArchiveSubmit \/ Save \/ Follow \/ FollowSaves \/ Pick
Archive == (\E who \in {"worker", "owner"} : ImportBegins(who)) \/ Count \/ Promote \/ Commit \/ Receipt
Owner == Clears \/ Forgets
Asked == \E e \in Exports : Deliver(e) \/ Upload(e) \/ Retry(e) \/ DismissesBeside(e) \/ DismissBegins(e)
Next == Scan \/ Intake \/ Expire \/ Archive \/ ParseFails \/ CommitFails \/ Owner \/ Asked \/ Crash
        \/ \E e \in Exports : Drop(e) \/ Damage(e)

(* The worker runs; an import that is not refused goes through *)
Fairness == WF_vars(Scan) /\ WF_vars(Intake) /\ WF_vars(Archive) /\ WF_vars(Owner)
Spec == Init /\ [][Next]_vars /\ Fairness

-----------------------------------------------------------------------------
TypeOK ==
  /\ catalog.imports \subseteq Exports
  /\ \A e \in Exports :
       /\ items[e].state \in {"none", "pending", "importing", "failed", "unsupported"} \cup Completed
       /\ receipts[e].state \in {"none", "pending", "failed", "succeeded"}

(* What counts as imported is in the calendar, with its events counted, whatever crashed on the way *)
Imported == \A e \in Exports : Imports(e) => e \in catalog.imports /\ receipts[e].counted
(* Readers trust a mirror that carries the signature of the file *)
MirrorFits == mirror.sig = catalog.sig => mirror = catalog
(* Nothing that was dropped waits for ever; a damaged original stops the worker for all *)
Settled == damaged # {} \/ \A e \in Exports : ~Under(e)
(* "A dismissed failure ... cannot be silently reopened by retrying there"
   (docs/calendar-enrichment.md:37) *)
Reopened(e) == receipts[e].dismissed /\ ~receipts'[e].dismissed
StaysDismissed == \A e \in Exports : Reopened(e) /\ import.of = e => e \in late

(* A dropped export is imported once, or has failed for everybody to see: what counts as
   imported is in the calendar, the mirror that readers trust is the calendar, no dropped file
   waits for ever, and a failure the owner has dismissed does not come back by itself. *)
ImportsStand == [](Imported /\ MirrorFits) /\ [][StaysDismissed]_vars /\ []<>Settled
=============================================================================
