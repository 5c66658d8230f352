------------------------------- MODULE Reviews -------------------------------
(***************************************************************************)
(* NoteLifecycle.complete over the enrichment jobs: a review that applies  *)
(* the suggestions a person selected, marks the note reviewed, dismisses   *)
(* the rest and, interrupted anywhere, is taken up again from its receipt. *)
(* Also the retention purge of the note, which scrubs all these records.   *)
(***************************************************************************)
EXTENDS Enrichment

VARIABLES receipt,  \* review-completions/<id>.json
          review,   \* where a completion under way stands (it holds the lifecycle lock)
          strange   \* history: what the properties excuse

rvars == <<receipt, review, strange>>
allvars == <<evars, rvars>>

Init == EInit /\ receipt = None /\ review = "idle" /\ strange = {}

Reviewing(pc) == review = pc
(* Between these steps nothing is awaited *)
Stretch == Busy \/ review \in {"noted", "complete", "dismiss"}
GiveUp == review' = "idle"
Receive(r) == receipt' = r

(* An approval that fails ends the review that waits for it, whose receipt stays *)
AfterHand == IF hand.by = None \/ hand'.pc # "idle" THEN review
             ELSE IF ~HandIs("save") THEN "idle"
             ELSE IF hand.by = "review" THEN "noted" ELSE "resume"

-----------------------------------------------------------------------------
(* A new completion: nothing may be decided, and the evidence must be that of the job *)
BeginReview(j, sel) ==
  /\ Reviewing("idle") /\ ~Stretch /\ Asked
  /\ receipt = None                                    \* a bound: one review of the note
  /\ note # None /\ ~note.reviewed
  /\ sel # {} => /\ Is(j, {"suggested"}) /\ sel \cap Decided(jobs[j]) = {}
                 /\ Fresh(jobs[j])
  /\ Receive([open |-> TRUE, expected |-> note, j |-> j, sel |-> sel, applied |-> {},
              marked |-> None])
  /\ review' = "resume"
  /\ UNCHANGED <<note, ev, jobs, assoc, others, fix, worker, hand, sent>>
  /\ strange' = IF hand.pc = "idle"
                 THEN strange ELSE strange \cup {<<"meddled", 0>>}

AskAgain ==
  /\ Reviewing("idle") /\ ~Stretch /\ receipt # None /\ receipt.open /\ note # None
  /\ review' = "resume"
  /\ UNCHANGED <<evars, receipt, strange>>

(* A pending approval first; the job's decisions then tell what was applied *)
ResumePending ==
  /\ Reviewing("resume") /\ ~Stretch
  /\ receipt.sel # {} /\ Is(receipt.j, {"applying"})
  /\ Resume(receipt.j, "resumed") /\ UNCHANGED left
  /\ review' = "waiting"
  /\ UNCHANGED <<receipt, strange>>

RecoverNothing ==
  /\ Reviewing("resume") /\ ~Stretch
  /\ receipt.sel # {} => ~Is(receipt.j, {"applying"})
  /\ review' = "apply"
  /\ UNCHANGED <<evars, receipt, strange>>

Recover ==
  /\ Reviewing("resume") /\ ~Stretch
  /\ receipt.sel # {} => ~Is(receipt.j, {"applying"})
  /\ IF receipt.sel # {} /\ jobs[receipt.j] = None THEN GiveUp /\ UNCHANGED receipt
     ELSE LET job == jobs[receipt.j]
              found == IF receipt.sel = {} THEN {} ELSE receipt.sel \cap Decided(job)
              newer == {k \in DOMAIN job.done : job.done[k].i \in found \ receipt.applied}
              last == CHOOSE k \in newer : \A n \in newer : n <= k
          IN /\ Receive(IF found \subseteq receipt.applied THEN receipt
                        ELSE [receipt EXCEPT !.applied = found,
                                             !.expected = job.done[last].after])
             /\ review' = "apply"
  /\ UNCHANGED <<evars, strange>>

(* The selected suggestions, those that write the date last *)
ToApply == receipt.sel \ receipt.applied
WritesDate(i) == <<receipt.j, i>> \in Dated
NextUp == LET plain == {i \in ToApply : ~WritesDate(i)}
          IN CHOOSE i \in IF plain # {} THEN plain ELSE ToApply : TRUE
ApplyNext ==
  /\ Reviewing("apply") /\ ~Stretch /\ ToApply # {}
  /\ IF note = receipt.expected /\ Is(receipt.j, {"suggested"})
        /\ NextUp \notin Decided(jobs[receipt.j])
     THEN Approve(receipt.j, NextUp, "review") /\ UNCHANGED left /\ review' = "waiting"
     ELSE GiveUp /\ UNCHANGED evars
  /\ UNCHANGED <<receipt, strange>>

NoteApplied ==
  /\ Reviewing("noted")
  /\ Receive([receipt EXCEPT !.applied = @ \cup {Last(jobs[receipt.j].done).i},
                             !.expected = Last(jobs[receipt.j].done).after])
  /\ review' = "apply"
  /\ UNCHANGED <<evars, strange>>

(* The reviewed bytes are recorded before they are written *)
RecordMark ==
  /\ Reviewing("apply") /\ ~Stretch /\ ToApply = {}
  /\ IF note = None THEN GiveUp /\ UNCHANGED receipt
     ELSE IF note.reviewed
     THEN /\ review' = IF receipt.marked = note THEN "complete" ELSE "idle"
          /\ UNCHANGED receipt
     ELSE IF note # receipt.expected THEN GiveUp /\ UNCHANGED receipt
     ELSE Receive([receipt EXCEPT !.marked = [note EXCEPT !.reviewed = TRUE]]) /\ review' = "mark"
  /\ UNCHANGED <<evars, strange>>

Mark ==
  /\ Reviewing("mark") /\ ~Stretch
  /\ IF note = receipt.expected THEN note' = receipt.marked /\ review' = "complete"
     ELSE GiveUp /\ UNCHANGED note
  /\ UNCHANGED <<ev, jobs, assoc, others, fix, worker, hand, sent, left, receipt, strange>>

MarkFails ==
  /\ Reviewing("mark") /\ ~Stretch /\ Fault /\ GiveUp
  /\ note' \in {note, IF note = receipt.expected THEN receipt.marked ELSE note}
  /\ UNCHANGED <<ev, jobs, assoc, others, fix, worker, hand, sent, receipt, strange>>

Complete ==
  /\ Reviewing("complete")
  /\ Receive([receipt EXCEPT !.open = FALSE, !.expected = None, !.marked = None]) /\ review' = "dismiss"
  /\ UNCHANGED <<evars, strange>>

(* What is left is dismissed, over whatever the worker or an approval holds in memory *)
Dismissed(job) == IF job # None /\ job.state \in {"suggested", "queued", "stale"}
                  THEN In("rejected", job) ELSE job
Dismiss ==
  /\ Reviewing("dismiss") /\ GiveUp
  /\ jobs' = [j \in Jobs |-> Dismissed(jobs[j])]
  /\ strange' = strange \cup {<<"picked", j>> : j \in {j \in {worker.j} : At("start")}}
                        \cup {<<"judged", j>> : j \in {j \in {hand.j} : HandIs("judge")}}
  /\ UNCHANGED <<note, ev, assoc, others, fix, worker, hand, sent, left, receipt>>

-----------------------------------------------------------------------------
(* What the excuses tell of the other note *)
OtherMarks == {<<"other purged", 0>>, <<"remapped", 0>>}

(* EntityStore.purge for a note that is gone, from inside the exclusive hold: everything
   about it goes, but what an operation in memory saves afterwards comes back *)
ForgetNoCorrections ==
  /\ note = None /\ ~Stretch
  /\ jobs' = [j \in Jobs |-> None] /\ assoc' = {}
  /\ receipt' = None /\ strange' = {<<"purged", 0>>}
  /\ GiveUp
  /\ UNCHANGED <<note, ev, others, fix, worker, hand, sent, left>>

Forget ==
  /\ note = None /\ ~Stretch
  /\ jobs' = [j \in Jobs |-> None] /\ assoc' = {}
  /\ fix' = None /\ receipt' = None
  /\ strange' = {<<"purged", 0>>}
                \cup {<<"returns", j>> : j \in {j \in {worker.j} : ~At("idle")}}
                \cup (strange \cap OtherMarks)
  /\ GiveUp
  /\ UNCHANGED <<note, ev, others, worker, hand, sent, left>>

(* The purge of another note that a device deleted.  A correction that waits at the gate
   has the map from before in memory and will write it back. *)
ForgetOther ==
  /\ others /\ ~Stretch /\ left.edits > 0 /\ left' = [left EXCEPT !.edits = @ - 1]
  /\ others' = FALSE
  /\ strange' = strange \cup {<<"other purged", 0>>}
                       \cup {<<"remapped", 0>> : h \in {h \in {hand.pc} : h = "patch"}}
  /\ UNCHANGED <<note, ev, jobs, assoc, fix, worker, hand, sent, receipt, review>>

(* A restart loses what is in memory *)
Crash ==
  /\ Fault
  /\ worker' = Resting /\ hand' = Nobody /\ review' = "idle"
  /\ UNCHANGED <<note, ev, jobs, assoc, others, fix, sent, receipt, strange>>

-----------------------------------------------------------------------------
ReviewSteps == \/ ResumePending \/ Recover \/ ApplyNext \/ NoteApplied \/ RecordMark
               \/ Mark \/ Complete \/ Dismiss

Enriches(A) == /\ review \notin {"noted", "complete", "dismiss"}
               /\ A /\ review' = AfterHand /\ UNCHANGED receipt
(* Somebody else acts on the note or its suggestions during a review *)
Meddles(A) == /\ A
              /\ strange' = IF receipt # None /\ receipt.open
                            THEN strange \cup {<<"meddled", 0>>} ELSE strange

Worker == Enriches(WorkerSteps \/ Rejected \/ AutoQueue) /\ UNCHANGED strange
Hand == Enriches(HandSteps \/ WriteFails \/ PatchFails) /\ UNCHANGED strange
Person == \/ Meddles(Enriches(People \/ ResumeCorrection \/ \E x \in assoc : Correct(x)))
          \/ Enriches(\E force \in BOOLEAN : Enqueue(force)) /\ UNCHANGED strange
Device == Meddles(Edit /\ UNCHANGED <<receipt, review>>)

Next ==
  \/ Worker \/ Hand \/ Person \/ Device
  \/ \E j \in Jobs, sel \in SUBSET Suggestions : BeginReview(j, sel)
  \/ AskAgain \/ ReviewSteps \/ MarkFails \/ Forget \/ ForgetOther \/ Crash

Spec == Init /\ [][Next]_allvars

(* The worker's loop, whoever holds a lock and a review under way go on; an unfinished
   review is asked for again. *)
FairSpec == /\ Spec
            /\ WF_allvars(Enriches(WorkerSteps) /\ UNCHANGED strange)
            /\ WF_allvars(Enriches(HandSteps) /\ UNCHANGED strange)
            /\ WF_allvars(ReviewSteps) /\ WF_allvars(AskAgain)

-----------------------------------------------------------------------------
TypeOK ==
  /\ note \in Versions \cup {None} /\ ev \in Nat
  /\ jobs \in [Jobs -> JobSet \cup {None}] /\ sent \in [Jobs -> Nat]
  /\ assoc \subseteq Marks /\ others \in BOOLEAN /\ fix \in Fixes \cup {None}
  /\ worker \in [pc : {"idle", "start", "gather", "answer"}, j : Jobs \cup {1}, job : JobSet \cup {None}]
  /\ hand \in [pc : {"idle", "judge", "finish", "write", "record", "save", "correct", "patch", "uncite",
                     "close"},
               by : {None, "review", "resumed"}, j : Jobs \cup {1}, i : Suggestions \cup {1},
               job : JobSet \cup {None}, map : BOOLEAN]

(* A job sends the provider at most its limit of requests until a person asks again,
   whatever fails and however often the store restarts (1003-1012): each may be billed. *)
WithinLimit == \A j \in Jobs : sent[j] <= Limit

(* What a note carries of a model's suggestions is recorded as approved, or the approval
   is on disk to be resumed: an interruption between the write of the note and the record
   of its associations loses neither (1289-1356). *)
Traceable ==
  note # None => \A x \in note.has :
    \/ x \in assoc
    \/ jobs[x[1]] # None /\ jobs[x[1]].pending # None /\ jobs[x[1]].pending.i = x[2]

(* A person's decision stands: nobody who saves a job read earlier takes one back or
   brings a decided job to life again.  Excused are the jobs a completed review dismisses
   without the context lock while the worker or an approval has them in memory; their
   evidence no longer holds, so nothing comes of it but the state stale. *)
DecisionsStand ==
  [][\A j \in Jobs : jobs[j] # None /\ jobs'[j] # None
       /\ {<<"picked", j>>, <<"judged", j>>} \cap strange = {} =>
       /\ IsPrefix(jobs[j].done, jobs'[j].done)
       /\ jobs[j].state \in {"applied", "rejected"} => jobs'[j].state = jobs[j].state]_allvars

(* After the purge of a note nothing of it is in the context's records, but the job a
   worker had in memory, which it saves again (entities.py:973, context_service.py:1090).
   Nor is anything of another note that was purged, unless a correction waited at the gate
   meanwhile with all notes' associations in memory (association_corrections.py:101-116). *)
OtherIsForgotten ==
  <<"other purged", 0>> \in strange => ~others \/ <<"remapped", 0>> \in strange
Forgotten ==
  /\ <<"purged", 0>> \in strange =>
       /\ assoc = {} /\ fix = None /\ receipt = None
       /\ \A j \in Jobs : jobs[j] # None => <<"returns", j>> \in strange
  /\ OtherIsForgotten

(* No job stays queued or running: again and again every job has been answered, refused
   or is out of attempts (1458-1521). *)
JobsEnd == []<>(\A j \in Jobs : ~Is(j, {"queued", "running"}))

(* A review that is begun is completed, whatever fails on the way, unless others change
   the note, its evidence or its suggestions meanwhile (then a person must inspect it).
   One whose selection writes the date twice may never be: the first change of the day
   makes what remains of the job stale (1349), and approve refuses a stale job (1160). *)
InProgress == receipt # None /\ receipt.open
Finished == receipt = None \/ ~receipt.open \/ <<"meddled", 0>> \in strange
DatesOnce == \A i, k \in receipt.sel : WritesDate(i) /\ WritesDate(k) => i = k
ReviewCompletes == (InProgress /\ DatesOnce) ~> Finished
=============================================================================
