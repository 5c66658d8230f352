---------------------------- MODULE ControlFiles ----------------------------
(***************************************************************************)
(* The control state files (statefiles.py): every process that changes one *)
(* reads it, states the revision it replaces, and has the revision checked *)
(* and the file replaced under one lock.  Who changes them: forms of Admin *)
(* and the command line, which answer for the revision they displayed; the *)
(* reconciler's notices, which are applied again after a conflict; and the *)
(* bootstrap, which creates and upgrades the schema and mints the default  *)
(* key (keys.py).                                                          *)
(***************************************************************************)
EXTENDS Naturals, FiniteSets

CONSTANTS Clerks,       \* processes and tabs that change a file
          MaxRequests, MaxFaults,
          Attempts,     \* _NOTICE_WRITE_ATTEMPTS
          None

VARIABLES files,    \* each file's revision and entries; revision 0 is no file
          flock,    \* who holds the lock of the directory
          jobs,     \* what each clerk does
          reveal,   \* the key whose credential the bootstrap's file shows, or what it says
          leave

vars == <<files, flock, jobs, reveal, leave>>

Names == {"keys", "schema", "notices"}
Entry(id, live, default) == [id |-> id, live |-> live, default |-> default]
Change(ids, put) == [ids |-> ids, put |-> put]
Apply(body, c) == {e \in body : e.id \notin c.ids} \cup c.put

Idle == [pc |-> "idle", file |-> None, rev |-> None, change |-> None, body |-> None, tries |-> 0,
         then |-> None]
Start(pc) ==
  /\ files = [f \in Names |-> [rev |-> 0, body |-> {}]]
  /\ flock = None /\ reveal = [is |-> "nothing", id |-> None]
  /\ jobs = [p \in Clerks |-> [Idle EXCEPT !.pc = pc]]
  /\ leave = [requests |-> MaxRequests, faults |-> MaxFaults]
Init == Start("idle")

May(what) == leave[what] > 0 /\ leave' = [leave EXCEPT ![what] = @ - 1]
At(p, pc) == jobs[p].pc = pc
Go(p, job) == jobs' = [jobs EXCEPT ![p] = job]
Begin(p) == At(p, "idle") /\ May("requests")
Fresh == MaxRequests - leave.requests + 1

-----------------------------------------------------------------------------
(* A form displays a revision; submitted, it is refused unless the file is still at it *)

Show(p) ==
  /\ Begin(p)
  /\ \E f \in Names \ {"notices"} :
       Go(p, [Idle EXCEPT !.pc = "submit", !.file = f, !.rev = files[f].rev, !.tries = Fresh])
  /\ UNCHANGED <<files, flock, reveal>>

Ready(job, rev, change, body) ==
  [job EXCEPT !.pc = "lock", !.rev = rev, !.change = change, !.body = Apply(body, change)]
Creates(job) == Change({}, {Entry(job.tries, TRUE, FALSE)})
Revokes(e) == Change({e.id}, {[e EXCEPT !.live = FALSE]})

Submit(p) ==
  /\ At(p, "submit")
  /\ LET f == files[jobs[p].file]
     IN \/ f.rev # jobs[p].rev /\ Go(p, Idle)
        \/ /\ f.rev = jobs[p].rev
           /\ \/ Go(p, Ready(jobs[p], f.rev, Creates(jobs[p]), f.body))
              \/ \E e \in f.body : e.live /\ Go(p, Ready(jobs[p], f.rev, Revokes(e), f.body))
  /\ UNCHANGED <<files, flock, reveal, leave>>

(* A notice is recorded or cleared on what is there, as often as somebody else was faster *)
Notice(p) == /\ Begin(p) /\ Go(p, [Idle EXCEPT !.pc = "read", !.file = "notices"])
             /\ UNCHANGED <<files, flock, reveal>>
NoticeReads(p) ==
  /\ At(p, "read")
  /\ LET f == files["notices"]
     IN \/ Go(p, Ready(jobs[p], f.rev, Creates([tries |-> 0]), f.body))
        \/ \E e \in f.body : Go(p, Ready(jobs[p], f.rev, Change({e.id}, {}), f.body))
  /\ UNCHANGED <<files, flock, reveal, leave>>

-----------------------------------------------------------------------------
(* StateStore.write *)

SharedLock == TRUE
Free == flock = None
Lock(p) ==
  /\ At(p, "lock") /\ Free
  /\ flock' = p /\ Go(p, [jobs[p] EXCEPT !.pc = "check"])
  /\ UNCHANGED <<files, reveal, leave>>

(* A conflict: the notices start over, everybody else has failed *)
AnyRevision(p) == TRUE
Expected(p) == files[jobs[p].file].rev = jobs[p].rev
Check(p) ==
  /\ At(p, "check")
  /\ IF Expected(p) THEN Go(p, [jobs[p] EXCEPT !.pc = "replace"]) /\ UNCHANGED flock
     ELSE /\ flock' = None
          /\ Go(p, IF jobs[p].file = "notices" /\ jobs[p].tries < Attempts - 1
                   THEN [Idle EXCEPT !.pc = "read", !.file = "notices", !.tries = jobs[p].tries + 1]
                   ELSE Idle)
  /\ UNCHANGED <<files, reveal, leave>>

Replace(p) ==
  /\ At(p, "replace") /\ flock' = None
  /\ files' = [files EXCEPT ![jobs[p].file] = [rev |-> @.rev + 1, body |-> jobs[p].body]]
  /\ Go(p, IF jobs[p].then = None THEN Idle ELSE [Idle EXCEPT !.pc = jobs[p].then])
  /\ UNCHANGED <<reveal, leave>>

-----------------------------------------------------------------------------
(* The bootstrap, one at a time: the schema at revision 1 or upgraded, then the default key *)

Boots(p) == jobs[p].pc \in {"schema", "keys", "reveal"} \/ jobs[p].then # None
            \/ (jobs[p].change # None /\ \E e \in jobs[p].change.put : e.default /\ e.live)
BootBegins(p) == /\ Begin(p) /\ (\A q \in Clerks : ~Boots(q)) /\ Go(p, [Idle EXCEPT !.pc = "schema"])
                 /\ UNCHANGED <<files, flock, reveal>>
BootSchema(p) ==
  /\ At(p, "schema")
  /\ LET f == files["schema"]
         job == [jobs[p] EXCEPT !.file = "schema", !.then = "keys"]
     IN \/ f.rev = 0 /\ Go(p, Ready([job EXCEPT !.then = "schema"], 0, Change({}, {}), {}))
        \/ f.rev # 0 /\ Go(p, Ready(job, f.rev, Creates([tries |-> 0]), f.body))
        \/ f.rev # 0 /\ Go(p, [Idle EXCEPT !.pc = "keys"])
  /\ UNCHANGED <<files, flock, reveal, leave>>

Says(is, id) == reveal' = [is |-> is, id |-> id]
Default(e) == Entry(e, TRUE, TRUE)
BootKeys(p) ==
  /\ At(p, "keys")
  /\ LET f == files["keys"]
         defaults == {e \in f.body : e.default}
     IN IF defaults = {}
        THEN Go(p, [jobs[p] EXCEPT !.pc = "reveal", !.file = "keys", !.rev = f.rev, !.tries = 10 + Fresh,
                                   !.body = f.body]) /\ UNCHANGED reveal
        ELSE LET e == CHOOSE e \in defaults : TRUE
             IN /\ Go(p, Idle)
                /\ IF ~e.live THEN Says("revoked", None)
                   ELSE IF reveal = [is |-> "credential", id |-> e.id] THEN UNCHANGED reveal
                   ELSE Says("lost", None)
  /\ UNCHANGED <<files, flock, leave>>

(* The credential is where the operator finds it before its hash is *)
Later(id) == UNCHANGED reveal
Revealed(id) == Says("credential", id)
BootReveals(p) ==
  /\ At(p, "reveal")
  /\ Revealed(jobs[p].tries)
  /\ LET j == jobs[p] IN Go(p, Ready(j, j.rev, Change({}, {Default(j.tries)}), j.body))
  /\ UNCHANGED <<files, flock, leave>>

(* The kernel gives the lock of a process back that dies *)
Dies(p) ==
  /\ ~At(p, "idle") /\ May("faults") /\ Go(p, Idle)
  /\ flock' = IF flock = p THEN None ELSE flock
  /\ UNCHANGED <<files, reveal>>

Writes(p) == Lock(p) \/ Check(p) \/ Replace(p)
Boot(p) == BootBegins(p) \/ BootSchema(p) \/ BootKeys(p) \/ BootReveals(p)
Next == \E p \in Clerks : Show(p) \/ Submit(p) \/ Notice(p) \/ NoticeReads(p) \/ Writes(p) \/ Boot(p) \/ Dies(p)
Spec == Init /\ [][Next]_vars

-----------------------------------------------------------------------------
TypeOK == /\ flock \in Clerks \cup {None}
          /\ \A p \in Clerks : jobs[p].pc \in {"check", "replace"} => flock = p

(* Whoever replaces a file changes what it asked to change in the revision it has seen, and
   nothing else *)
NothingElse(p) == LET f == files[jobs[p].file]
                  IN f.rev = jobs[p].rev /\ files'[jobs[p].file].body = Apply(f.body, jobs[p].change)

(* The bootstrap mints once, and no crash costs the operator the credential it has minted *)
OneDefault == Cardinality({e \in files["keys"].body : e.default}) <= 1
DefaultIsTold == reveal.is # "lost"

(* "Two Admin tabs cannot silently overwrite each other" (statefiles.py:9): a key revoked stays
   revoked, an upgrade or a notice undoes nobody's work, and what the bootstrap mints is there
   once, with its credential. *)
ChangesStand == [][\A p \in Clerks : Replace(p) => NothingElse(p)]_vars /\ [](OneDefault /\ DefaultIsTold)
=============================================================================
