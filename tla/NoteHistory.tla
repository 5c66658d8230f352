----------------------------- MODULE NoteHistory -----------------------------
(***************************************************************************)
(* How a deleted note stays recoverable: the Git helper that takes         *)
(* snapshots of the notes filesystem (coppermind_git), the passes that     *)
(* read a removal in its history as a deletion and keep a receipt with the *)
(* bytes (reconciler.py, note_history.py), the loss and recovery of the    *)
(* database, and restore_note.  One note, whose versions are numbered in   *)
(* the order they were written; at each of Places there is one or no file  *)
(* that carries its identity.                                              *)
(*                                                                         *)
(* Three processes: the helper, the store and the devices.  A pass and a   *)
(* restore hold the reconcile lock, so there is one of them at a time.     *)
(***************************************************************************)
EXTENDS Naturals, Sequences, SequencesExt

CONSTANTS Places,            \* numbers, in the order Git lists paths
          MaxVersion, MaxWrites, MaxCommits, MaxFaults, None

VARIABLES vault,     \* the notes filesystem
          newest,    \* the newest version written
          tree,      \* the tree of Git's HEAD
          commits,   \* how many commits there are
          removal,   \* the newest commit that removed the note, and what it removed
          pending,   \* the helper's pending_tree
          row,       \* the notes row
          receipts,  \* note-recovery/<id>-<commit>.json, oldest first
          returned,  \* note-recovery/observed/<id>.json
          pass,      \* the reconciler's pass under way, and what it has read
          restore,   \* the restore under way, and the version previewed for it
          seen,      \* history: the version a pass saw last, and after how many commits
          allowed    \* what may still happen

vars == <<vault, newest, tree, commits, removal, pending, row, receipts, returned,
          pass, restore, seen, allowed>>

git == <<tree, commits, removal, pending>>
store == <<row, receipts, returned, pass, restore, seen>>

Empty == [p \in Places |-> None]
NoPass == [pc |-> "idle", found |-> None, evidence |-> None, row |-> None]
NoRestore == [pc |-> "idle", token |-> None]
FileAt(p) == [place |-> p, c |-> vault[p], n |-> commits]
First(places) == CHOOSE p \in places : \A q \in places : p <= q

(* The store begins its passes at "idle"; "off" is a store that does not run *)
Start(pc) ==
  /\ vault = [Empty EXCEPT ![First(Places)] = 0] /\ newest = 0
  /\ tree = vault /\ commits = 1 /\ removal = None /\ pending = None
  /\ row = [place |-> First(Places), c |-> 0, state |-> "ok"]
  /\ receipts = <<>> /\ returned = None
  /\ pass = [NoPass EXCEPT !.pc = pc] /\ restore = NoRestore
  /\ seen = [c |-> 0, n |-> 1]
  /\ allowed = [writes |-> MaxWrites, faults |-> MaxFaults]

Init == Start("idle")

Fault == allowed.faults > 0 /\ allowed' = [allowed EXCEPT !.faults = @ - 1]

-----------------------------------------------------------------------------
(* Devices: an edit, a deletion, a move, and an old version that comes back *)

Write(files) ==
  /\ allowed.writes > 0 /\ allowed' = [allowed EXCEPT !.writes = @ - 1]
  /\ vault' = files
  /\ UNCHANGED <<git, store>>

Edit(p) == /\ vault[p] # None /\ newest < MaxVersion
           /\ newest' = newest + 1
           /\ Write([vault EXCEPT ![p] = newest + 1])
Delete(p) == vault[p] # None /\ Write([vault EXCEPT ![p] = None]) /\ UNCHANGED newest
Move(p, q) == /\ vault[p] # None /\ vault[q] = None
              /\ Write([vault EXCEPT ![p] = None, ![q] = vault[p]]) /\ UNCHANGED newest
Return(p, c) == vault[p] = None /\ Write([vault EXCEPT ![p] = c]) /\ UNCHANGED newest

Device == \E p \in Places : \/ Edit(p) \/ Delete(p)
                            \/ \E q \in Places : Move(p, q)
                            \/ \E c \in 0..newest : Return(p, c)

-----------------------------------------------------------------------------
(* The Git helper: what is staged in two scans running is committed *)

Staged == vault
Removes == {p \in Places : tree[p] # None /\ Staged[p] = None}
Snapshot ==
  /\ commits < MaxCommits
  /\ pending' = None /\ tree' = Staged /\ commits' = commits + 1
  /\ removal' = IF Removes = {} THEN removal
                ELSE [n |-> commits + 1,
                      at |-> [p \in Places |-> IF p \in Removes THEN tree[p] ELSE None]]

Scan ==
  /\ IF Staged = tree THEN pending' = None /\ UNCHANGED <<tree, commits, removal>>
     ELSE IF Staged = pending THEN Snapshot
     ELSE pending' = Staged /\ UNCHANGED <<tree, commits, removal>>
  /\ UNCHANGED <<vault, newest, store, allowed>>

(* A restart of the helper forgets the tree that was settling; its commits stay *)
HelperRestarts ==
  /\ Fault /\ pending' = None
  /\ UNCHANGED <<vault, newest, tree, commits, removal, store>>

(* GitHistory.refresh: the removals of a note that HEAD does not hold.  `found' are the
   places the newest one took it from, all of one blob. *)
History ==
  IF tree # Empty \/ removal = None THEN [n |-> 0, c |-> None, found |-> {}, ok |-> TRUE]
  ELSE LET b == removal.at[First({p \in Places : removal.at[p] # None})]
       IN [n |-> removal.n, c |-> b, found |-> {p \in Places : removal.at[p] = b}, ok |-> TRUE]
Unreadable == [n |-> 0, c |-> None, found |-> {}, ok |-> FALSE]

-----------------------------------------------------------------------------
(* A pass of the reconciler *)

Passing(pc) == pass.pc = pc
Go(pc) == pass' = [pass EXCEPT !.pc = pc]
EndPass == pass' = NoPass
Retained(n) == \E k \in DOMAIN receipts : receipts[k].n = n
ConflictsByNote(r) == \E k \in DOMAIN receipts : receipts[k] # r
Conflicts(r) == \E k \in DOMAIN receipts : receipts[k].n = r.n /\ receipts[k] # r
Keep(r) == receipts' = IF Retained(r.n) THEN receipts ELSE Append(receipts, r)

(* recover_rows: an identity whose row is lost is seeded from its newest receipt, from a
   later observation, or from a removal the store has not met yet *)
SeededDeleted(h) == LET r == Last(receipts) IN [place |-> r.place, c |-> r.c, state |-> "deleted"]
Seeded(h) ==
  LET r == Last(receipts)
  IN IF h.found # {} /\ h.n # r.n
     THEN [place |-> First(h.found), c |-> h.c, state |-> "missing"]
     ELSE IF returned # None /\ returned.after >= Len(receipts)
     THEN [place |-> returned.place, c |-> returned.c, state |-> "missing"]
     ELSE [place |-> r.place, c |-> r.c, state |-> "deleted"]

BeginPass ==
  /\ Passing("idle") /\ Go("walk")
  /\ row' = IF row = None /\ receipts # <<>> THEN Seeded(History) ELSE row
  /\ UNCHANGED <<vault, newest, git, receipts, returned, restore, seen, allowed>>

(* The row's own file before a copy elsewhere *)
Walk ==
  /\ Passing("walk")
  /\ \E p \in Places \cup {None} :
       /\ IF p = None THEN vault = Empty ELSE vault[p] # None
       /\ (p # None /\ row # None) => (vault[row.place] # None => p = row.place)
       /\ pass' = [pass EXCEPT !.pc = IF p = None THEN "ask" ELSE "apply",
                               !.found = IF p = None THEN None ELSE FileAt(p)]
  /\ UNCHANGED <<vault, newest, git, row, receipts, returned, restore, seen, allowed>>

AskGit ==
  /\ Passing("ask")
  /\ pass' = [pass EXCEPT !.pc = "apply", !.evidence = History]
  /\ UNCHANGED <<vault, newest, git, row, receipts, returned, restore, seen, allowed>>

GitFails ==
  /\ Passing("ask") /\ Fault
  /\ pass' = [pass EXCEPT !.pc = "apply", !.evidence = Unreadable]
  /\ UNCHANGED <<vault, newest, git, row, receipts, returned, restore, seen>>

InState(state) == [place |-> row.place, c |-> row.c, state |-> state]
Propose(r) == pass' = [pass EXCEPT !.pc = "commit", !.row = r]

(* The file is there: what the row does not say yet is written, and remembered beside the
   receipts of earlier deletions *)
ApplyFound ==
  /\ Passing("apply") /\ pass.found # None
  /\ LET r == [place |-> pass.found.place, c |-> pass.found.c, state |-> "ok"]
     IN IF row = r THEN EndPass /\ UNCHANGED returned
        ELSE /\ Propose(r)
             /\ returned' = IF receipts = <<>> THEN returned
                            ELSE [place |-> r.place, c |-> r.c, after |-> Len(receipts)]
  /\ UNCHANGED <<vault, newest, git, row, receipts, restore, seen, allowed>>

(* It is gone: deleted when the newest removal in Git has the row's path and bytes; a row
   deleted before follows a newer removal, and stays as it is while Git cannot be read *)
ApplyAbsent ==
  /\ Passing("apply") /\ pass.found = None
  /\ LET e == pass.evidence
         here == row # None /\ row.place \in e.found /\ row.c = e.c
         there == row # None /\ ~here /\ row.state = "deleted" /\ e.found # {}
         r == [n |-> e.n, c |-> e.c, place |-> IF here THEN row.place ELSE First(e.found)]
     IN IF here /\ row.state = "deleted" /\ Retained(e.n)
        THEN EndPass /\ UNCHANGED receipts
        ELSE IF here \/ there
        THEN IF Conflicts(r) THEN EndPass /\ UNCHANGED receipts
             ELSE Keep(r) /\ Propose([place |-> r.place, c |-> r.c, state |-> "deleted"])
        ELSE /\ UNCHANGED receipts
             /\ IF row = None \/ row = InState("missing") \/ (row = InState("deleted") /\ ~e.ok)
                THEN EndPass ELSE Propose(InState("missing"))
  /\ UNCHANGED <<vault, newest, git, row, returned, restore, seen, allowed>>

Commit ==
  /\ Passing("commit") /\ EndPass
  /\ row' = pass.row
  /\ seen' = IF pass.found = None THEN seen ELSE [c |-> pass.found.c, n |-> pass.found.n]
  /\ UNCHANGED <<vault, newest, git, receipts, returned, restore, allowed>>

CommitFails ==
  /\ Passing("commit") /\ Fault /\ EndPass /\ restore' = NoRestore
  /\ UNCHANGED <<vault, newest, git, row, receipts, returned, seen>>

-----------------------------------------------------------------------------
(* Restore, over two passes *)

Matching == /\ row # None /\ row.state = "deleted" /\ receipts # <<>>
            /\ Last(receipts).place = row.place /\ Last(receipts).c = row.c

Preview ==
  /\ restore.pc = "idle" /\ Matching
  /\ restore' = [pc |-> "idle", token |-> Last(receipts)]
  /\ UNCHANGED <<vault, newest, git, row, receipts, returned, pass, seen, allowed>>

RestoreBegins ==
  /\ restore.pc = "idle" /\ restore.token # None /\ Passing("idle")
  /\ restore' = [restore EXCEPT !.pc = "scan"]
  /\ row' = IF row = None /\ receipts # <<>> THEN Seeded(History) ELSE row
  /\ Go("walk")
  /\ UNCHANGED <<vault, newest, git, receipts, returned, seen, allowed>>

(* What was previewed must still be what there is to restore *)
RestoreChecks ==
  /\ restore.pc = "scan" /\ Passing("idle")
  /\ restore' = IF Matching /\ Last(receipts) = restore.token
                THEN [restore EXCEPT !.pc = "create"] ELSE NoRestore
  /\ UNCHANGED <<vault, newest, git, row, receipts, returned, pass, seen, allowed>>

(* The authorisation is recorded, the file created where there is none *)
Create ==
  /\ restore.pc = "create" /\ restore' = NoRestore
  /\ LET r == restore.token
     IN vault' = IF vault[r.place] = None THEN [vault EXCEPT ![r.place] = r.c] ELSE vault
  /\ UNCHANGED <<newest, git, row, receipts, returned, pass, seen, allowed>>

StoreRestarts ==
  /\ Fault /\ EndPass /\ restore' = [restore EXCEPT !.pc = "idle"]
  /\ UNCHANGED <<vault, newest, git, row, receipts, returned, seen>>

(* The database is lost and comes back empty *)
DatabaseIsLost ==
  /\ Fault /\ row' = None /\ EndPass /\ restore' = [restore EXCEPT !.pc = "idle"]
  /\ UNCHANGED <<vault, newest, git, receipts, returned, seen>>

Passes == BeginPass \/ Walk \/ AskGit \/ ApplyFound \/ ApplyAbsent \/ Commit
Restores == Preview \/ RestoreBegins \/ RestoreChecks \/ Create
Faults == HelperRestarts \/ GitFails \/ CommitFails \/ StoreRestarts \/ DatabaseIsLost
Reconciles == restore.pc # "create" /\ Passes
Next == Reconciles \/ Device \/ Scan \/ Restores \/ Faults

Spec == Init /\ [][Next]_vars

(* The helper polls, and a pass follows a pass *)
Fairness == /\ WF_vars(Scan) /\ WF_vars(Reconciles) /\ WF_vars(RestoreChecks) /\ WF_vars(Create)
FairSpec == Spec /\ Fairness

-----------------------------------------------------------------------------
TypeOK ==
  /\ vault \in [Places -> {None} \cup 0..newest] /\ newest \in 0..MaxVersion
  /\ row # None => row.place \in Places /\ row.state \in {"ok", "missing", "deleted"}
  /\ \A k \in DOMAIN receipts : receipts[k].n \in 1..commits

(* The bytes of a note called deleted are never lost: a receipt holds what the row names,
   through failed commits, restarts, returns, newer deletions and the loss of the database
   (reconciler.py:563-612). *)
DeletedIsRestorable ==
  (row # None /\ row.state = "deleted") =>
    \E k \in DOMAIN receipts : receipts[k].place = row.place /\ receipts[k].c = row.c

(* An old deletion never wins: what a restore writes is the version the passes saw last,
   or one that Git has seen removed since (note_history.py:331-343, 402-411). *)
NothingOlderIsRestored ==
  [][\A p \in Places : (restore.pc = "create" /\ restore'.pc = "idle" /\ vault'[p] # vault[p])
       => vault'[p] = seen.c \/ restore.token.n > seen.n]_vars

(* A note that stays away, with the bytes of its row in Git, is in the end called deleted
   and offered for restore *)
DeletionIsReported ==
  <>[](vault = Empty /\ tree = Empty /\ removal # None /\ row # None
       /\ removal.at[row.place] = row.c)
    => []<>(row = None \/ Matching)

(* The receipts of deletions tell the truth, and in the end they tell it *)
HistoryHolds == NothingOlderIsRestored /\ DeletionIsReported
=============================================================================
