-------------------------------- MODULE MCParts --------------------------------
(* Components that share no state, one instance of each: a behaviour is a behaviour of
   the one that `part' names, and the others stay as they begin.  The locks and the gate
   are the parts of MCStoreLocks, with the note lifecycle off. *)
EXTENDS MCStoreLocks

VARIABLES
  vault, newest, tree, commits, removal, pending, row, receipts, returned, pass, restore, seen, allowed,
  files, irow, write, pages, source, filing, entries, marks, jobs, strays, ileave,
  cnote, evidence, finalized, dossier, followup, generation, cfiling, check, resolve, last, raced, cleave,
  drops, items, past, imports, damaged, calendar, cmirror, intake, keeper, import, late, xleave,
  ufile, umirror, labels, usources, dropbox, migrated, backups, unotes, uassoc, ufinal, moved, upc, ujob,
  ureturned, skipped, uleave,
  former, kept, current, anotes, apc, ajob, missed, overtaken, aleave

Hist == INSTANCE NoteHistory
  WITH Places <- {1, 2}, MaxVersion <- 1, MaxWrites <- 3, MaxCommits <- 4, MaxFaults <- 1
Index == INSTANCE SearchIndex
  WITH Places <- {1, 2}, Workers <- {1, 2}, MaxWrites <- 1, MaxRequests <- 1, MaxFaults <- 1,
       row <- irow, leave <- ileave
Confs == INSTANCE Confirmations
  WITH MaxEdits <- 1, MaxEvidence <- 1, MaxResolves <- 1, MaxFaults <- 1,
       note <- cnote, filing <- cfiling, leave <- cleave
Cals == INSTANCE Calendars
  WITH Exports <- {1}, MaxDrops <- 1, MaxRequests <- 3, MaxFaults <- 1,
       receipts <- imports, catalog <- calendar, mirror <- cmirror, worker <- intake, owner <- keeper,
       leave <- xleave
Upg == INSTANCE OneCalendar
  WITH Notes <- {1, 2}, Receipts <- {1, 2}, Old <- {1, 2}, Renamed <- [e \in {1, 2} |-> 11],
       MaxEdits <- 1, MaxFaults <- 2, file <- ufile, mirror <- umirror, sources <- usources,
       notes <- unotes, assoc <- uassoc, final <- ufinal, pc <- upc, job <- ujob,
       returned <- ureturned, leave <- uleave
Att == INSTANCE Attachments
  WITH Files <- {1, 2, 3}, Artifact <- {1}, Of <- [f \in {1, 2, 3} |-> IF f = 2 THEN None ELSE 1],
       Notes <- {1, 2}, Embeds <- {1}, Batch <- 2, MaxEdits <- 1, MaxFaults <- 1,
       files <- former, notes <- anotes, pc <- apc, job <- ajob, leave <- aleave

history == <<vault, newest, tree, commits, removal, pending, row, receipts, returned, pass, restore,
             seen, allowed>>
index == <<files, irow, write, pages, source, filing, entries, marks, jobs, strays, ileave>>
confirmations == <<cnote, evidence, finalized, dossier, followup, generation, cfiling, check, resolve,
                   last, raced, cleave>>
calendars == <<drops, items, past, imports, damaged, calendar, cmirror, intake, keeper, import, late, xleave>>
upgrade == <<ufile, umirror, labels, usources, dropbox, migrated, backups, unotes, uassoc, ufinal, moved,
             upc, ujob, ureturned, skipped, uleave>>
attachments == <<former, kept, current, anotes, apc, ajob, missed, overtaken, aleave>>
allVars == <<MCVars, history, index, confirmations, calendars, upgrade, attachments>>

Run(name) == IF part = name THEN "idle" ELSE "off"
Nothing == Init /\ queue = [l \in Locks |-> <<>>]
           /\ todo = [t \in Tasks |-> <<>>] /\ inside = [t \in Tasks |-> <<>>]
Others == {"history", "index", "confirmations", "calendars", "upgrade", "attachments"}
AllInit ==
  /\ MCInit \/ (part \in Others /\ Nothing)
  /\ Hist!Start(Run("history")) /\ Index!Start(Run("index"))
  /\ Confs!Start(Run("confirmations")) /\ Cals!Start(Run("calendars"))
  /\ Upg!Start(IF part = "upgrade" THEN "start" ELSE "off") /\ Att!Start(Run("attachments"))
AllNext ==
  \/ MCNext /\ UNCHANGED <<history, index, confirmations, calendars, upgrade, attachments>>
  \/ part = "history" /\ Hist!Next /\ UNCHANGED <<MCVars, index, confirmations, calendars, upgrade, attachments>>
  \/ part = "index" /\ Index!Next /\ UNCHANGED <<MCVars, history, confirmations, calendars, upgrade, attachments>>
  \/ part = "confirmations" /\ Confs!Next /\ UNCHANGED <<MCVars, history, index, calendars, upgrade, attachments>>
  \/ part = "calendars" /\ Cals!Next /\ UNCHANGED <<MCVars, history, index, confirmations, upgrade, attachments>>
  \/ part = "upgrade" /\ Upg!Next /\ UNCHANGED <<MCVars, history, index, confirmations, calendars, attachments>>
  \/ part = "attachments" /\ Att!Next /\ UNCHANGED <<MCVars, history, index, confirmations, calendars, upgrade>>

(* A component that is off has no fair step *)
AllSpec == /\ AllInit /\ [][AllNext]_allVars
           /\ Hist!Fairness /\ Index!Fairness /\ Confs!Fairness /\ Cals!Fairness /\ Upg!Fairness
           /\ Att!Fairness
           /\ \A t \in Tasks : WF_MCVars(Handlers(Step(t)))

IndexConverges == part = "index" => Index!IndexConverges
HistoryAndConfirmationsHold == Hist!HistoryHolds /\ Confs!ConfirmationsHold
ImportsAndUpgradesStand == Cals!ImportsStand /\ Upg!UpgradeStands /\ Att!AttachmentsFollow
=============================================================================
