------------------------------ MODULE Artifacts ------------------------------
(***************************************************************************)
(* artifacts.py: the archive of an artifact (its manifest and revisions),  *)
(* the browsable copy in the notes filesystem, the record and the row; the *)
(* requests that store, revise and remove, the sweep of every reconciler   *)
(* pass, and the recovery of all rows from the archives.                   *)
(*                                                                         *)
(* `work' is the operation that holds the artifact lock.  Devices write    *)
(* the copies at any moment, and the store may fail or restart at any.     *)
(***************************************************************************)
EXTENDS Naturals, Sequences, FiniteSets, SequencesExt

CONSTANTS Artifact,           \* identities, numbers: a fresh one is the smallest unused
          Bytes, Filenames,   \* what is uploaded: bytes under a filename
          Paths,              \* places for a copy, numbers in the order names are tried
          MaxRevisions, MaxRequests, MaxWrites, MaxFaults, MaxCommits,
          Edited,             \* bytes a person wrote
          None

VARIABLES archive,   \* the manifests; `stray': a revision directory none of them records
          copies,    \* the files at Paths
          records,   \* state/artifacts/<id>.json
          rows,      \* the artifacts table
          snapshot,  \* Git: its HEAD, and for each path the commit that removed it last
          work,      \* who holds the artifact lock, and what it has decided
          sweeper,   \* the sweep under way: the rows it read and those still to visit
          rebuild,   \* the archives a recovery has verified before it gets the lock
          wrote,     \* history: whose copy was taken away and when, and how it got there
          leave      \* what may still happen

vars == <<archive, copies, records, rows, snapshot, work, sweeper, rebuild, wrote, leave>>
disk == <<archive, copies, records>>

Idle == [pc |-> "idle", i |-> None, b |-> None, name |-> None, p |-> None, row |-> None,
         since |-> None, then |-> "idle", by |-> None]
NoSweep == [rows |-> [i \in Artifact |-> None], todo |-> {}]

(* "off" is a store that does not run *)
Start(pc) ==
  /\ archive = [i \in Artifact |-> None] /\ copies = [p \in Paths |-> None]
  /\ records = [i \in Artifact |-> None] /\ rows = [i \in Artifact |-> None]
  /\ snapshot = [head |-> [p \in Paths |-> None], gone |-> [p \in Paths |-> 0], n |-> 0]
  /\ work = [Idle EXCEPT !.pc = pc] /\ sweeper = NoSweep /\ rebuild = None
  /\ wrote = [taken |-> {}, early |-> {}, undated |-> {}, excuses |-> {}]
  /\ leave = [requests |-> MaxRequests, writes |-> MaxWrites, faults |-> MaxFaults]

Init == Start("idle")

Current(i) == Last(archive[i].revs)
Live(i) == archive[i] # None /\ ~archive[i].removed
RecordCurrent(r, a) == r # None /\ r.rev = Len(a.revs)
RowOf(a, r) == [rev |-> r.rev, b |-> a.revs[r.rev], name |-> a.name, path |-> a.path, state |-> r.state]
Record(i, state) == [rev |-> Len(archive[i].revs), state |-> state]

At(pc) == work.pc = pc
Go(pc) == work' = [work EXCEPT !.pc = pc]
Release == work' = Idle
(* The names a copy may take; unlike Paths, there is always one more *)
FreeOver == {p \in Paths : copies[p] \in {None, Edited}}
Free == {p \in Paths : copies[p] = None}
(* The path is also another artifact's *)
Shared(p) == {"shared" : k \in {k \in Artifact \ {work.i} : Live(k) /\ archive[k].path = p}}
Request == leave.requests > 0 /\ Free # {} /\ leave' = [leave EXCEPT !.requests = @ - 1]
Fault == leave.faults > 0 /\ leave' = [leave EXCEPT !.faults = @ - 1]

(* stored_at, taken when the request begins: the first commit that is no older.  Git dates by
   the second, and a commit may be under way, so the last one may count as well *)
Since == {snapshot.n, snapshot.n + 1} \ {0}

(* The store puts a copy of the artifact at p: what was taken before is not this one.  Git may
   have recorded the removal of an earlier file there since the request began *)
Midway(p) == snapshot.gone[p] >= work.since
Puts(early, undated) ==
  wrote' = [wrote EXCEPT !.taken = {t \in @ : t[1] # work.i},
              !.early = IF early THEN @ \cup {work.i} ELSE @ \ {work.i},
              !.undated = IF undated THEN @ \cup {work.i} ELSE @ \ {work.i}]
(* Whose copy is taken with the file at p, since which of Git's commits *)
Owners(p) == {i \in Artifact : IF i = work.i /\ work.pc \in {"manifest", "revise"} THEN p = work.p
                                ELSE archive[i] # None /\ archive[i].path = p}
TakenFrom(p) == Owners(p) \X {snapshot.n}

(* The row goes into the transaction; what the operation goes on with after its commit *)
Mirror(i, row, then) == work' = [work EXCEPT !.pc = "commit", !.i = i, !.row = row, !.then = then]

-----------------------------------------------------------------------------
(* _store_revision: new, a revision, or a replay *)

Replays(b, name) == {i \in Artifact : rows[i] # None /\ rows[i].b = b /\ rows[i].name = name}

Decide(i, b, name) ==
  IF Current(i) = b
  THEN LET r == IF RecordCurrent(records[i], archive[i]) THEN records[i] ELSE Record(i, "ok")
       IN /\ records' = [records EXCEPT ![i] = r]
          /\ work' = [Idle EXCEPT !.pc = "commit", !.i = i, !.row = RowOf(archive[i], r)]
  ELSE /\ \E since \in Since :
            work' = [Idle EXCEPT !.pc = "bring", !.i = i, !.b = b, !.name = name, !.since = since]
       /\ UNCHANGED records

Create(b, name) ==
  /\ At("idle") /\ Request
  /\ IF Replays(b, name) # {} THEN \E i \in Replays(b, name) : archive[i] # None /\ Decide(i, b, name)
     ELSE \E i \in Artifact :
            /\ archive[i] = None /\ \A k \in Artifact : k < i => archive[k] # None
            /\ \E since \in Since :
                 work' = [Idle EXCEPT !.pc = "place", !.i = i, !.b = b, !.name = name, !.since = since]
            /\ UNCHANGED records
  /\ UNCHANGED <<archive, copies, rows, snapshot, sweeper, rebuild, wrote>>

Revise(i, b) ==
  /\ At("idle") /\ Request /\ Live(i) /\ Len(archive[i].revs) < MaxRevisions
  /\ Decide(i, b, archive[i].name)
  /\ UNCHANGED <<archive, copies, rows, snapshot, sweeper, rebuild, wrote>>

-----------------------------------------------------------------------------
(* _create_new: the bytes, the copy at the first free name, then the manifest *)

Place ==
  /\ At("place")
  /\ \E p \in Free : /\ \A q \in Free : p <= q
                     /\ copies' = [copies EXCEPT ![p] = work.b]
                     /\ work' = [work EXCEPT !.pc = "manifest", !.p = p]
                     /\ Puts(Midway(p), FALSE)
  /\ UNCHANGED <<archive, records, rows, snapshot, sweeper, rebuild, leave>>

WriteManifest ==
  /\ At("manifest") /\ Go("record")
  /\ archive' = [archive EXCEPT ![work.i] =
       [revs |-> <<work.b>>, name |-> work.name, path |-> work.p, removed |-> FALSE,
        stray |-> FALSE, at |-> work.since]]
  /\ UNCHANGED <<copies, records, rows, snapshot, sweeper, rebuild, wrote, leave>>

(* The text is extracted by a subprocess, then the record written and the row proposed *)
WriteRecord ==
  /\ At("record")
  /\ LET r == Record(work.i, "ok")
     IN /\ records' = [records EXCEPT ![work.i] = r]
        /\ Mirror(work.i, RowOf(archive[work.i], r), "idle")
  /\ UNCHANGED <<archive, copies, rows, snapshot, sweeper, rebuild, wrote, leave>>

(* Whatever fails before the row is written takes back all of it, the copy by its name *)
CreateFails ==
  /\ At("manifest") \/ (At("record") /\ Len(archive[work.i].revs) = 1)
  /\ Fault /\ Release
  /\ archive' = [archive EXCEPT ![work.i] = None] /\ records' = [records EXCEPT ![work.i] = None]
  /\ copies' = [copies EXCEPT ![work.p] = None]
  /\ wrote' = [wrote EXCEPT !.excuses = @ \cup Shared(work.p)
                                          \cup (IF copies[work.p] = work.b THEN {} ELSE {"cleanup"})]
  /\ UNCHANGED <<rows, snapshot, sweeper, rebuild>>

-----------------------------------------------------------------------------
(* _add_revision *)

BringOver ==
  /\ At("bring")
  /\ LET a == archive[work.i]
     IN IF a.stray THEN Release /\ UNCHANGED <<copies, wrote>>
        ELSE /\ copies' = [copies EXCEPT ![a.path] = work.b]
             /\ work' = [work EXCEPT !.pc = "revise", !.p = a.path]
             /\ Puts(Midway(a.path), TRUE)
  /\ UNCHANGED <<archive, records, rows, snapshot, sweeper, rebuild, leave>>

(* _bring_browse_current: the copy is replaced while it holds the bytes it was given,
   comes back where it is gone, and has a new name where a device has changed it *)
Bring ==
  /\ At("bring")
  /\ LET a == archive[work.i]
     IN IF a.stray THEN Release /\ UNCHANGED <<copies, wrote>>
        ELSE IF copies[a.path] = Current(work.i)
        THEN work' = [work EXCEPT !.pc = "replace", !.p = a.path] /\ UNCHANGED <<copies, wrote>>
        ELSE \E p \in Free : /\ IF copies[a.path] = None THEN p = a.path ELSE \A q \in Free : p <= q
                             /\ copies' = [copies EXCEPT ![p] = work.b]
                             /\ work' = [work EXCEPT !.pc = "revise", !.p = p]
                             /\ Puts(Midway(p), TRUE)
  /\ UNCHANGED <<archive, records, rows, snapshot, sweeper, rebuild, leave>>

Replace ==
  /\ At("replace") /\ Go("revise")
  /\ copies' = [copies EXCEPT ![work.p] = work.b]
  /\ Puts(Midway(work.p), TRUE)
  /\ UNCHANGED <<archive, records, rows, snapshot, sweeper, rebuild, leave>>

ReviseManifest ==
  /\ At("revise") /\ Go("record")
  /\ LET a == archive[work.i]
     IN archive' = [archive EXCEPT ![work.i] =
          [a EXCEPT !.revs = Append(a.revs, work.b), !.path = work.p, !.at = work.since]]
  /\ wrote' = [wrote EXCEPT !.undated = @ \ {work.i}]
  /\ UNCHANGED <<copies, records, rows, snapshot, sweeper, rebuild, leave>>

(* A failure removes the revision's directory, a crash leaves it; the copy stays replaced *)
ReviseFails ==
  /\ At("replace") \/ At("revise") \/ (At("record") /\ Len(archive[work.i].revs) > 1)
  /\ Fault /\ Release
  /\ UNCHANGED <<disk, rows, snapshot, sweeper, rebuild, wrote>>

-----------------------------------------------------------------------------
(* _retire: the copy goes while it still holds the archived bytes *)

RemoveArtifact(i) ==
  /\ At("idle") /\ Request /\ Live(i)
  /\ work' = [Idle EXCEPT !.pc = "retire", !.i = i, !.by = "person"]
  /\ UNCHANGED <<disk, rows, snapshot, sweeper, rebuild, wrote>>

Retire ==
  /\ At("retire")
  /\ IF copies[archive[work.i].path] = Current(work.i) THEN Go("unlink") ELSE Go("removed")
  /\ UNCHANGED <<disk, rows, snapshot, sweeper, rebuild, wrote, leave>>

Unlink ==
  /\ At("unlink") /\ Go("removed")
  /\ LET p == archive[work.i].path
     IN /\ copies' = [copies EXCEPT ![p] = None]
        /\ wrote' = [wrote EXCEPT !.taken = @ \cup TakenFrom(p), !.excuses = @ \cup Shared(p)]
  /\ UNCHANGED <<archive, records, rows, snapshot, sweeper, rebuild, leave>>

MarkRemoved ==
  /\ At("removed")
  /\ archive' = [archive EXCEPT ![work.i].removed = TRUE]
  /\ records' = [records EXCEPT ![work.i] = None]
  /\ Mirror(work.i, None, "idle")
  /\ UNCHANGED <<copies, rows, snapshot, sweeper, rebuild, wrote, leave>>

-----------------------------------------------------------------------------
(* The commit at the end of a transaction, and what may happen instead *)

Commit ==
  /\ At("commit")
  /\ rows' = [rows EXCEPT ![work.i] = work.row]
  /\ IF work.then = "idle" THEN Release ELSE Go(work.then)
  /\ UNCHANGED <<disk, snapshot, sweeper, rebuild, wrote, leave>>

CommitFails ==
  /\ At("commit") /\ Fault /\ Release
  /\ UNCHANGED <<disk, rows, snapshot, sweeper, rebuild, wrote>>

Restart ==
  /\ Fault /\ Release /\ sweeper' = NoSweep /\ rebuild' = None
  /\ archive' = IF At("replace") \/ At("revise")
                THEN [archive EXCEPT ![work.i].stray = TRUE] ELSE archive
  /\ UNCHANGED <<copies, records, rows, snapshot, wrote>>

-----------------------------------------------------------------------------
(* sweep, one row at a time, each under the lock *)

SweepBegins ==
  /\ sweeper.todo = {} /\ At("idle")
  /\ sweeper' = [rows |-> rows, todo |-> {i \in Artifact : rows[i] # None}]
  /\ UNCHANGED <<disk, rows, snapshot, work, rebuild, wrote, leave>>

Visit(i) ==
  /\ At("idle") /\ i \in sweeper.todo
  /\ sweeper' = [sweeper EXCEPT !.todo = @ \ {i}]
  /\ IF ~Live(i)
     THEN Mirror(i, None, "forget") /\ UNCHANGED records
     ELSE IF RecordCurrent(records[i], archive[i])
     THEN work' = [Idle EXCEPT !.pc = "observe", !.i = i] /\ UNCHANGED records
     ELSE LET r == Record(i, sweeper.rows[i].state)
          IN /\ records' = [records EXCEPT ![i] = r]
             /\ Mirror(i, RowOf(archive[i], r), "observe")
  /\ UNCHANGED <<archive, copies, rows, snapshot, rebuild, wrote, leave>>

Forget ==
  /\ At("forget") /\ Release
  /\ records' = [records EXCEPT ![work.i] = None]
  /\ UNCHANGED <<archive, copies, rows, snapshot, sweeper, rebuild, wrote, leave>>

Outcome(state) ==
  IF records[work.i].state = state THEN Release /\ UNCHANGED records
  ELSE LET r == Record(work.i, state)
       IN /\ records' = [records EXCEPT ![work.i] = r]
          /\ Mirror(work.i, RowOf(archive[work.i], r), "idle")

Observe ==
  /\ At("observe")
  /\ LET c == copies[archive[work.i].path]
     IN IF c = None THEN Go("search") /\ UNCHANGED records
        ELSE Outcome(IF c = Current(work.i) THEN "ok" ELSE "modified")
  /\ UNCHANGED <<archive, copies, rows, snapshot, sweeper, rebuild, wrote, leave>>

(* _restore_moved_copy: the same bytes anywhere but at a path another row had when the
   sweep began are the copy, moved *)
Elsewhere == {p \in Paths : copies[p] = Current(work.i)
                 /\ \A k \in Artifact \ {work.i} : sweeper.rows[k] # None => sweeper.rows[k].path # p}
ComesHome(home) ==
  IF copies[home] # None THEN Outcome("missing") /\ UNCHANGED <<copies, wrote>>
  ELSE \E p \in Elsewhere : /\ copies' = [copies EXCEPT ![home] = Current(work.i)]
                            /\ work' = [work EXCEPT !.pc = "moved", !.p = p]
                            /\ Puts(FALSE, TRUE)
                            /\ UNCHANGED records

(* A file that is older than stored_at is passed over; which are is not kept, so any may be *)
Search ==
  /\ At("search")
  /\ \/ Go("ask") /\ UNCHANGED <<copies, records, wrote>>
     \/ Elsewhere # {} /\ ComesHome(archive[work.i].path)
  /\ UNCHANGED <<archive, rows, snapshot, sweeper, rebuild, leave>>

MovedBack ==
  /\ At("moved")
  /\ copies' = [copies EXCEPT ![work.p] = None]
  /\ Outcome("ok")
  /\ wrote' = [wrote EXCEPT !.excuses = @ \cup Shared(work.p)]
  /\ UNCHANGED <<archive, rows, snapshot, sweeper, rebuild, leave>>

(* A file could not be read, or Git could not: no evidence of a deletion *)
SearchFails ==
  /\ At("search") \/ At("ask")
  /\ Fault /\ Outcome("missing")
  /\ UNCHANGED <<archive, copies, rows, snapshot, sweeper, rebuild, wrote>>

AskGitAnyTime ==
  /\ At("ask")
  /\ LET p == archive[work.i].path
     IN IF snapshot.head[p] = None /\ snapshot.gone[p] > 0
        THEN work' = [work EXCEPT !.pc = "retire", !.by = "sweep"] /\ UNCHANGED records
        ELSE Outcome("missing")
  /\ UNCHANGED <<archive, copies, rows, snapshot, sweeper, rebuild, wrote, leave>>

(* removal_commit: Git saw the path go no earlier than stored_at, and not come back *)
AskGit ==
  /\ At("ask")
  /\ LET p == archive[work.i].path
     IN IF snapshot.head[p] = None /\ snapshot.gone[p] >= archive[work.i].at
        THEN work' = [work EXCEPT !.pc = "retire", !.by = "sweep"] /\ UNCHANGED records
        ELSE Outcome("missing")
  /\ UNCHANGED <<archive, copies, rows, snapshot, sweeper, rebuild, wrote, leave>>

-----------------------------------------------------------------------------
(* recover_artifacts: every archive is verified, then the rows follow under the lock *)

Verify ==
  /\ rebuild = None /\ Request
  /\ rebuild' = archive
  /\ UNCHANGED <<disk, rows, snapshot, work, sweeper, wrote>>

Present(i) == copies[rebuild[i].path] # None
RecoveredState(i) ==
  LET state == IF records[i] = None THEN "ok" ELSE records[i].state
  IN IF ~Present(i) THEN "missing" ELSE IF state = "missing" THEN "ok" ELSE state
Recovers(i) == rebuild[i] # None /\ ~rebuild[i].removed
Recover ==
  /\ At("idle") /\ rebuild # None /\ rebuild' = None
  /\ LET r == [i \in Artifact |->
                IF Recovers(i) THEN [rev |-> Len(rebuild[i].revs), state |-> RecoveredState(i)]
                ELSE IF rebuild[i] = None THEN records[i] ELSE None]
     IN /\ records' = r
        /\ rows' = [i \in Artifact |-> IF Recovers(i) THEN RowOf(rebuild[i], r[i]) ELSE None]
  /\ UNCHANGED <<archive, copies, snapshot, work, sweeper, wrote, leave>>

-----------------------------------------------------------------------------
(* Devices and the Git helper *)

Take(p, files) ==
  /\ leave.writes > 0 /\ leave' = [leave EXCEPT !.writes = @ - 1]
  /\ copies' = files
  /\ wrote' = [wrote EXCEPT !.taken = @ \cup TakenFrom(p),
                 !.excuses = @ \cup (IF work.pc \in {"replace", "unlink", "moved"} THEN {"late"} ELSE {})]
  /\ UNCHANGED <<archive, records, rows, snapshot, work, sweeper, rebuild>>

Device ==
  \E p \in Paths :
    \/ copies[p] # None /\ Take(p, [copies EXCEPT ![p] = None])
    \/ Take(p, [copies EXCEPT ![p] = Edited]) /\ (At("idle") \/ Free # {p})
    \/ \E q \in Paths : copies[q] = None /\ copies[p] # None
                        /\ Take(p, [copies EXCEPT ![p] = None, ![q] = copies[p]])

Snapshot ==
  /\ snapshot.head # copies /\ snapshot.n < MaxCommits
  /\ snapshot' = [head |-> copies, n |-> snapshot.n + 1,
                  gone |-> [p \in Paths |-> IF snapshot.head[p] # None /\ copies[p] = None
                                            THEN snapshot.n + 1 ELSE snapshot.gone[p]]]
  /\ UNCHANGED <<disk, rows, work, sweeper, rebuild, wrote, leave>>

Works == \/ Place \/ WriteManifest \/ WriteRecord \/ Bring \/ Replace \/ ReviseManifest
         \/ Retire \/ Unlink \/ MarkRemoved \/ Commit
         \/ Forget \/ Observe \/ Search \/ MovedBack \/ AskGit
Sweeps == SweepBegins \/ \E i \in Artifact : Visit(i)
Requests == \/ \E b \in Bytes, name \in Filenames : Create(b, name)
            \/ \E i \in Artifact : RemoveArtifact(i) \/ \E b \in Bytes : Revise(i, b)
            \/ Verify
Faults == CreateFails \/ ReviseFails \/ CommitFails \/ SearchFails \/ Restart
Next == Works \/ Sweeps \/ Recover \/ Requests \/ Faults \/ Device \/ Snapshot

Spec == Init /\ [][Next]_vars

-----------------------------------------------------------------------------
TypeOK ==
  /\ \A i \in Artifact : archive[i] # None => archive[i].path \in Paths /\ archive[i].revs # <<>>
  /\ \A i \in Artifact : rows[i] # None => rows[i].state \in {"ok", "modified", "missing"}

SweepRetires(i) == Live(i) /\ archive'[i] # None /\ archive'[i].removed /\ work.by = "sweep"
(* The copy that the store put at its place was taken from there, and Git has looked since *)
Recorded(i) == \E k \in 0..snapshot.n - 1 : <<i, k>> \in wrote.taken
Early(i) == i \in wrote.early
Undated(i) == i \in wrote.undated
SharedPlace == "shared" \in wrote.excuses

(* The sweep retires an artifact only when its copy was taken away after the store last put it
   there and Git has looked since: a name used and freed before is no evidence
   (artifacts.py:1350-1368, note_history.py:258-296).  Excused by their cause: a removal at the
   name that Git recorded while the request that put the copy there was under way; a copy put
   back without a new date, moved back or by a revision that failed; two artifacts at a name. *)
RetiredWasRemoved ==
  [][\A i \in Artifact : SweepRetires(i) => Recorded(i) \/ Early(i) \/ Undated(i) \/ SharedPlace]_vars

(* What a person wrote at a copy's place is never replaced or removed *)
PersonsBytesStay ==
  [][\A p \in Paths : (copies[p] = Edited /\ copies'[p] # Edited /\ leave'.writes = leave.writes)
       => wrote'.excuses \cap {"late", "cleanup"} # {}]_vars

(* An artifact is its archive: only a removal the owner made retires one, and what stands at
   its place is nobody else's *)
ArtifactsStand == RetiredWasRemoved /\ PersonsBytesStay
=============================================================================
