----------------------------- MODULE Enrichment -----------------------------
(***************************************************************************)
(* The enrichment jobs of context_service.py for one note: the worker that *)
(* asks a provider for suggestions, and the people who queue, retry,       *)
(* reject and approve them, or take an approved association back.          *)
(*                                                                         *)
(* A job, an approval and a correction are files; a restart loses `worker' *)
(* and `hand' and nothing else.  People's operations hold the context lock *)
(* (`hand'); the worker works without it, on copies it read before.        *)
(* Between awaits nobody else runs, but the store may die (see Busy).      *)
(***************************************************************************)
EXTENDS Naturals, Sequences, FiniteSets, SequencesExt

CONSTANTS MaxJobs, Suggestions, Limit,      \* Limit: attempts a job is given
          Dated,                            \* the suggestions of jobs that write the note's date
          MaxEdits, MaxAccidents, MaxRefusals, MaxRequests,
          None

Jobs == 1..MaxJobs

(* A note, a decision on a suggestion, an approval under way, a job, a correction *)
Marks == Jobs \X Suggestions
Versions == [ver : Nat, reviewed : BOOLEAN, has : SUBSET Marks]
Decisions == [i : Suggestions, after : Versions \cup {None}]
Pendings == [i : Suggestions, before : Versions, after : Versions]
States == {"queued", "running", "suggested", "stale", "failed", "applying", "applied", "rejected"}
JobSet == [state : States, attempts : 0..Limit, note : Versions, ev : Nat, answered : BOOLEAN,
           done : Seq(Decisions), pending : Pendings \cup {None}]
Fixes == [x : Marks, before : Versions \cup {None}, after : Versions \cup {None},
          had : SUBSET Marks, open : BOOLEAN]

ASSUME EnrichmentAssumption ==
  /\ {MaxJobs, Limit, MaxEdits, MaxAccidents, MaxRefusals, MaxRequests} \subseteq Nat /\ Limit > 0
  /\ Dated \subseteq Marks
  /\ None \notin Versions /\ None \notin Pendings /\ None \notin JobSet

VARIABLES note,     \* the note: edits by others, its mark, the approved changes in it; or None
          ev,       \* calendar, schema, configuration and source revisions, as one version
          jobs,     \* jobs/<id>.json
          assoc,    \* associations.json: the approved suggestions recorded for the note
          others,   \* the same file: whether it records those of another note
          fix,      \* association-corrections/<id>.json
          worker,   \* the worker and the job it holds in memory
          hand,     \* the operation that holds the context lock
          sent,     \* history: requests sent to the provider since a person last asked
          left      \* what may still happen

evars == <<note, ev, jobs, assoc, others, fix, worker, hand, sent, left>>

Resting == [pc |-> "idle", j |-> 1, job |-> None]
Nobody  == [pc |-> "idle", by |-> None, j |-> 1, i |-> 1, job |-> None,
            map |-> FALSE]
NewJob(n) == [state |-> "queued", attempts |-> 0, note |-> n, ev |-> ev,
              answered |-> FALSE, done |-> <<>>, pending |-> None]

EInit ==
  /\ note = [ver |-> 0, reviewed |-> FALSE, has |-> {}] /\ ev = 0
  /\ jobs = [j \in Jobs |-> None]
  /\ assoc = {} /\ others = TRUE /\ fix = None
  /\ worker = Resting /\ hand = Nobody
  /\ sent = [j \in Jobs |-> 0]
  /\ left = [edits |-> MaxEdits, accidents |-> MaxAccidents, refusals |-> MaxRefusals,
             requests |-> MaxRequests]

Is(j, states) == jobs[j] # None /\ jobs[j].state \in states
Decided(job) == {job.done[k].i : k \in DOMAIN job.done}
(* evidence(): what the job was made for is still what there is *)
Fresh(job) == note = job.note /\ ~job.note.reviewed /\ ev = job.ev
In(states, job) == [job EXCEPT !.state = states]
Save(j, job) == jobs' = [jobs EXCEPT ![j] = job]

(* A stretch without an await has begun: only its next step or a crash follows *)
Busy == hand.pc \in {"record", "save", "uncite", "close"}
HandIs(pc) == hand.pc = pc
Lock == hand.pc = "idle"
Unlock == hand' = Nobody
Fault == left.accidents > 0 /\ left' = [left EXCEPT !.accidents = @ - 1]
Asked == left.requests > 0 /\ left' = [left EXCEPT !.requests = @ - 1]

-----------------------------------------------------------------------------
(* Queueing *)

Eligible == note # None /\ ~note.reviewed
Same == {j \in Jobs : jobs[j] # None /\ jobs[j].note = note /\ jobs[j].ev = ev}
Free == {j \in Jobs : jobs[j] = None /\ (worker.j = j => worker.pc = "idle")}
NextId == CHOOSE j \in Free : TRUE

(* queue_note: an identical job is found again unless a new one is forced *)
QueueNote(force) ==
  /\ Eligible /\ Lock /\ ~Busy
  /\ IF Same # {} /\ ~force THEN UNCHANGED jobs
     ELSE Free # {} /\ Save(NextId, NewJob(note))

Enqueue(force) ==
  /\ Asked /\ QueueNote(force)
  /\ UNCHANGED <<note, ev, assoc, others, fix, worker, hand, sent>>

(* tick queues a note without jobs, or whose evidence has changed since *)
AutoQueue ==
  /\ worker.pc = "idle"
  /\ \A j \in Jobs : jobs[j] # None => jobs[j].ev # ev
  /\ QueueNote(FALSE)
  /\ UNCHANGED <<note, ev, assoc, others, fix, worker, hand, sent, left>>

(* retry_job: a stale job is replaced, the failed job found is started afresh *)
Retry(j) ==
  /\ Asked /\ Is(j, {"failed", "stale"})
  /\ QueueNote(jobs[j].state = "stale")
  /\ UNCHANGED <<note, ev, assoc, others, fix, worker, hand, sent>>

RetryFailed(j) ==
  /\ Asked /\ Eligible /\ Lock /\ ~Busy
  /\ Is(j, {"failed"}) /\ j \in Same
  /\ Save(j, [jobs[j] EXCEPT !.state = "queued", !.attempts = 0])
  /\ sent' = [sent EXCEPT ![j] = 0]
  /\ UNCHANGED <<note, ev, assoc, others, fix, worker, hand>>

-----------------------------------------------------------------------------
(* The worker *)

At(pc) == worker.pc = pc
RunnableAnew(j) == Is(j, {"queued"}) \/ (Is(j, {"failed"}) /\ jobs[j].attempts < Limit)
Runnable(j) == \/ Is(j, {"queued", "running"})
               \/ Is(j, {"failed"}) /\ jobs[j].attempts < Limit

(* tick takes the first job to run.  One found running was interrupted by a crash. *)
Pick(j) ==
  /\ At("idle") /\ ~Busy /\ Runnable(j)
  /\ LET job == IF ~Is(j, {"running"}) THEN jobs[j]
                ELSE In(IF jobs[j].attempts >= Limit THEN "failed" ELSE "queued", jobs[j])
     IN /\ Save(j, job)
        /\ worker' = IF job.state = "failed" /\ job.attempts >= Limit THEN worker
                     ELSE [pc |-> "start", j |-> j, job |-> In("queued", job)]
  /\ UNCHANGED <<note, ev, assoc, others, fix, hand, sent, left>>

(* The attempt is recorded before anything is sent, or the limit is reached *)
StartUncounted ==
  /\ At("start") /\ ~Busy
  /\ LET job == IF worker.job.attempts >= Limit THEN In("failed", worker.job)
                ELSE In("running", worker.job)
     IN Save(worker.j, job) /\ worker' = IF job.state = "failed" THEN Resting
                                         ELSE [worker EXCEPT !.pc = "gather", !.job = job]
  /\ UNCHANGED <<note, ev, assoc, others, fix, hand, sent, left>>

Start ==
  /\ At("start") /\ ~Busy
  /\ LET job == IF worker.job.attempts >= Limit THEN In("failed", worker.job)
                ELSE [In("running", worker.job) EXCEPT !.attempts = @ + 1]
     IN Save(worker.j, job) /\ worker' = IF job.state = "failed" THEN Resting
                                         ELSE [worker EXCEPT !.pc = "gather", !.job = job]
  /\ UNCHANGED <<note, ev, assoc, others, fix, hand, sent, left>>

(* What run_job saves last is what it read before the provider was asked *)
Settle(job) == Save(worker.j, job) /\ worker' = Resting

Gather ==
  /\ At("gather") /\ ~Busy
  /\ IF Fresh(worker.job)
     THEN /\ sent' = [sent EXCEPT ![worker.j] = @ + 1]
          /\ worker' = [worker EXCEPT !.pc = "answer"] /\ UNCHANGED jobs
     ELSE Settle(In(IF note = None THEN "failed" ELSE "stale", worker.job)) /\ UNCHANGED sent
  /\ UNCHANGED <<note, ev, assoc, others, fix, hand, left>>

Answered ==
  /\ At("answer") /\ ~Busy
  /\ Settle(IF Fresh(worker.job) THEN [In("suggested", worker.job) EXCEPT !.answered = TRUE]
            ELSE In(IF note = None THEN "failed" ELSE "stale", worker.job))
  /\ UNCHANGED <<note, ev, assoc, others, fix, hand, sent, left>>

(* Too much evidence, no such model, a timeout, an answer that does not validate *)
Rejected ==
  /\ worker.pc \in {"gather", "answer"} /\ ~Busy
  /\ left.refusals > 0 /\ left' = [left EXCEPT !.refusals = @ - 1]
  /\ Settle(In("failed", worker.job))
  /\ UNCHANGED <<note, ev, assoc, others, fix, hand, sent>>

-----------------------------------------------------------------------------
(* Decisions.  `by' is who waits for the approval: a person or a review. *)

Undecided(j, i) == i \in Suggestions \ Decided(jobs[j])

RejectUnlocked(j, i) ==
  /\ Asked /\ ~Busy /\ Is(j, {"suggested"}) /\ Undecided(j, i)
  /\ LET done == Append(jobs[j].done, [i |-> i, after |-> None])
         state == IF Len(done) < Cardinality(Suggestions) THEN "suggested"
                  ELSE IF \E k \in DOMAIN done : done[k].after # None THEN "applied"
                  ELSE "rejected"
     IN Save(j, [jobs[j] EXCEPT !.done = done, !.state = state])
  /\ UNCHANGED <<note, ev, assoc, others, fix, worker, hand, sent>>

Reject(j, i) ==
  /\ Asked /\ Lock /\ ~Busy /\ Is(j, {"suggested"}) /\ Undecided(j, i)
  /\ LET done == Append(jobs[j].done, [i |-> i, after |-> None])
         state == IF Len(done) < Cardinality(Suggestions) THEN "suggested"
                  ELSE IF \E k \in DOMAIN done : done[k].after # None THEN "applied"
                  ELSE "rejected"
     IN Save(j, [jobs[j] EXCEPT !.done = done, !.state = state])
  /\ UNCHANGED <<note, ev, assoc, others, fix, worker, hand, sent>>

RejectRemaining(j) ==
  /\ Asked /\ Lock /\ ~Busy /\ Is(j, {"suggested"})
  /\ Save(j, In("rejected", jobs[j]))
  /\ UNCHANGED <<note, ev, assoc, others, fix, worker, hand, sent>>

Approve(j, i, by) ==
  /\ Lock /\ ~Busy /\ Is(j, {"suggested"}) /\ Undecided(j, i)
  /\ hand' = [pc |-> "judge", by |-> by, j |-> j, i |-> i, job |-> jobs[j], map |-> FALSE]
  /\ UNCHANGED <<note, ev, jobs, assoc, others, fix, worker, sent>>

(* The approval, with the bytes before and after it, is on disk before the note is touched *)
Judge ==
  /\ HandIs("judge")
  /\ IF note = None THEN Unlock /\ UNCHANGED jobs
     ELSE IF ~Fresh(hand.job) THEN Save(hand.j, In("stale", hand.job)) /\ Unlock
     ELSE LET job == [In("applying", hand.job) EXCEPT !.pending =
                        [i |-> hand.i, before |-> note,
                         after |-> [note EXCEPT !.has = @ \cup {<<hand.j, hand.i>>}]]]
          IN Save(hand.j, job) /\ hand' = [hand EXCEPT !.pc = "finish", !.job = job]
  /\ UNCHANGED <<note, ev, assoc, others, fix, worker, sent, left>>

Resume(j, by) ==
  /\ Lock /\ ~Busy /\ Is(j, {"applying"})
  /\ hand' = [pc |-> "finish", by |-> by, j |-> j, i |-> jobs[j].pending.i, job |-> jobs[j],
              map |-> FALSE]
  /\ UNCHANGED <<note, ev, jobs, assoc, others, fix, worker, sent>>

(* finish_approval: the write was done before an interruption, or may be done now *)
Finish ==
  /\ HandIs("finish")
  /\ IF note = None \/ note.reviewed THEN Unlock
     ELSE IF note = hand.job.pending.after THEN hand' = [hand EXCEPT !.pc = "record"]
     ELSE IF note # hand.job.pending.before \/ ~Fresh(hand.job) THEN Unlock
     ELSE hand' = [hand EXCEPT !.pc = "write"]
  /\ UNCHANGED <<note, ev, jobs, assoc, others, fix, worker, sent, left>>

(* patch_frontmatter or rename_note, conditional on the bytes just read *)
Write ==
  /\ HandIs("write")
  /\ IF note = hand.job.pending.before
     THEN note' = hand.job.pending.after /\ hand' = [hand EXCEPT !.pc = "record"]
     ELSE Unlock /\ UNCHANGED note
  /\ UNCHANGED <<ev, jobs, assoc, others, fix, worker, sent, left>>

(* The write fails, before or after the file was replaced *)
WriteFails ==
  /\ HandIs("write") /\ Fault /\ Unlock
  /\ note' \in {note, IF note = hand.job.pending.before THEN hand.job.pending.after ELSE note}
  /\ UNCHANGED <<ev, jobs, assoc, others, fix, worker, sent>>

(* The note's associations, then the job: what it describes is the changed note *)
Settled == LET job == hand.job
               done == Append(job.done, [i |-> hand.i, after |-> job.pending.after])
           IN [job EXCEPT !.done = done, !.pending = None, !.note = job.pending.after]
RecordForgotten ==
  /\ HandIs("record") /\ hand' = [hand EXCEPT !.pc = "save"]
  /\ UNCHANGED <<note, ev, jobs, assoc, others, fix, worker, sent, left>>

Record ==
  /\ HandIs("record")
  /\ assoc' = assoc \cup {<<hand.j, hand.i>>}
  /\ hand' = [hand EXCEPT !.pc = "save"]
  /\ UNCHANGED <<note, ev, jobs, others, fix, worker, sent, left>>

(* Remaining suggestions go stale when the change was to the note's day *)
SaveJob ==
  /\ HandIs("save")
  /\ \E state \in IF Len(Settled.done) = Cardinality(Suggestions) THEN {"applied"}
                  ELSE {"suggested"} \cup {"stale" : x \in {<<hand.j, hand.i>>} \cap Dated} :
       Save(hand.j, In(state, Settled))
  /\ Unlock
  /\ UNCHANGED <<note, ev, assoc, others, fix, worker, sent, left>>

-----------------------------------------------------------------------------
(* association_corrections.py *)

Correct(x) ==
  /\ Asked /\ Lock /\ ~Busy /\ note # None /\ x \in assoc
  /\ fix = None                                      \* a bound: one correction
  /\ fix' = [x |-> x, before |-> note, after |-> [note EXCEPT !.has = @ \ {x}],
             had |-> assoc, open |-> TRUE]
  /\ hand' = [Nobody EXCEPT !.pc = "correct"]
  /\ UNCHANGED <<note, ev, jobs, assoc, others, worker, sent>>

ResumeCorrection ==
  /\ Asked /\ Lock /\ ~Busy /\ fix # None /\ fix.open
  /\ hand' = [Nobody EXCEPT !.pc = "correct"]
  /\ UNCHANGED <<note, ev, jobs, assoc, others, fix, worker, sent>>

(* resume up to its await: all of associations.json is read, for every note.  A note or
   associations that have changed since need a person's inspection. *)
CheckCorrection ==
  /\ HandIs("correct")
  /\ IF fix # None /\ assoc \in {fix.had, fix.had \ {fix.x}} /\ note \in {fix.before, fix.after}
     THEN hand' = [hand EXCEPT !.pc = IF note = fix.after THEN "uncite" ELSE "patch",
                               !.map = others]
     ELSE Unlock
  /\ UNCHANGED <<note, ev, jobs, assoc, others, fix, worker, sent, left>>

(* patch_frontmatter: it waits at the gate while a purge runs *)
PatchBack ==
  /\ HandIs("patch")
  /\ IF fix # None /\ note = fix.before
     THEN note' = fix.after /\ hand' = [hand EXCEPT !.pc = "uncite"]
     ELSE Unlock /\ UNCHANGED note
  /\ UNCHANGED <<ev, jobs, assoc, others, fix, worker, sent, left>>

PatchFails ==
  /\ HandIs("patch") /\ Fault /\ Unlock
  /\ note' \in {note, IF fix # None /\ note = fix.before THEN fix.after ELSE note}
  /\ UNCHANGED <<ev, jobs, assoc, others, fix, worker, sent>>

(* What was read before is written back, with this note's entry corrected *)
Uncite ==
  /\ HandIs("uncite")
  /\ assoc' = fix.had \ {fix.x} /\ others' = hand.map
  /\ hand' = [hand EXCEPT !.pc = "close"]
  /\ UNCHANGED <<note, ev, jobs, fix, worker, sent, left>>

CloseCorrection ==
  /\ HandIs("close")
  /\ fix' = [fix EXCEPT !.open = FALSE, !.before = None, !.after = None, !.had = {}] /\ Unlock
  /\ UNCHANGED <<note, ev, jobs, assoc, others, worker, sent, left>>

-----------------------------------------------------------------------------
(* Others *)

Edit ==
  /\ left.edits > 0 /\ note # None
  /\ left' = [left EXCEPT !.edits = @ - 1]
  /\ \/ note' = [note EXCEPT !.ver = @ + 1] /\ UNCHANGED ev
     \/ ~note.reviewed /\ note' = [note EXCEPT !.reviewed = TRUE] /\ UNCHANGED ev
     \/ note' = None /\ UNCHANGED ev
     \/ ev' = ev + 1 /\ UNCHANGED note
  /\ UNCHANGED <<jobs, assoc, others, fix, worker, hand, sent>>

WorkerSteps == (\E j \in Jobs : Pick(j)) \/ Start \/ Gather \/ Answered
HandSteps == Judge \/ Finish \/ Write \/ Record \/ SaveJob
             \/ CheckCorrection \/ PatchBack \/ Uncite \/ CloseCorrection
AskApproval(j, i) == Asked /\ Approve(j, i, None)
AskResume(j) == Asked /\ Resume(j, None)
People == \E j \in Jobs : \/ Retry(j) \/ RetryFailed(j) \/ RejectRemaining(j) \/ AskResume(j)
                          \/ \E i \in Suggestions : Reject(j, i) \/ AskApproval(j, i)
=============================================================================
