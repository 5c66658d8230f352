---------------------------- MODULE ReviewsProofs ----------------------------
(***************************************************************************)
(* Theorems about the enrichment jobs, approvals, corrections, reviews and *)
(* the purge of a note, for any jobs, suggestions and bounds.  What the    *)
(* worker and an approval hold in memory was read before others changed    *)
(* the disk; ReviewInv says how far the two may then be apart.             *)
(***************************************************************************)
EXTENDS Reviews, TLAPS

IsReceipt(r) == DOMAIN r = {"open", "expected", "j", "sel", "applied", "marked"} /\ r.j \in Jobs

Holds == {"judge", "finish", "write", "record", "save"}
Holding == hand.pc \in Holds
Working == worker.pc # "idle"

NoteTypes == note \in Versions \cup {None} /\ ev \in Nat
JobTypes == jobs \in [Jobs -> JobSet \cup {None}]
CiteTypes == assoc \subseteq Marks /\ others \in BOOLEAN /\ fix \in Fixes \cup {None}
SentTypes == sent \in [Jobs -> Nat]
WorkerTypes ==
    /\ worker \in [pc : {"idle", "start", "gather", "answer"}, j : Jobs \cup {1}, job : JobSet \cup {None}]
    /\ Working => worker.j \in Jobs /\ worker.job \in JobSet
HandTypes ==
    /\ hand \in [pc : Holds \cup {"idle", "correct", "patch", "uncite", "close"},
                 by : {None, "review", "resumed"}, j : Jobs \cup {1}, i : Suggestions \cup {1},
                 job : JobSet \cup {None}, map : BOOLEAN]
    /\ Holding => hand.j \in Jobs /\ hand.i \in Suggestions /\ hand.job \in JobSet
ReceiptTypes == receipt = None \/ IsReceipt(receipt)
Types == NoteTypes /\ JobTypes /\ CiteTypes /\ SentTypes /\ WorkerTypes /\ HandTypes /\ ReceiptTypes

\* An approval on disk says what it writes.
Pends(j, job) ==
    /\ job.pending # None => job.state = "applying"
    /\ job.state = "applying" =>
          /\ job.pending \in Pendings
          /\ job.pending.before # None
          /\ job.pending.after.has = job.pending.before.has \cup {<<j, job.pending.i>>}
DiskIsSound == \A j \in Jobs : jobs[j] # None => Pends(j, jobs[j])

\* The job the worker read: before its attempt is recorded others may queue,
\* fail or reject it again; afterwards nobody but the purge of the note.
Behind ==
    Working =>
        /\ worker.job.pending = None
        /\ jobs[worker.j] = None => note = None
        /\ jobs[worker.j] # None /\ At("start") =>
              /\ jobs[worker.j].state \in {"queued", "failed", "rejected"}
              /\ jobs[worker.j].done = worker.job.done
              /\ jobs[worker.j].state = "rejected" => <<"picked", worker.j>> \in strange
        /\ jobs[worker.j] # None /\ ~At("start") => jobs[worker.j] = worker.job /\ worker.job.state = "running"

\* The job an approval read, which is not the worker's.
Held ==
    Holding =>
        /\ Working => worker.j # hand.j
        /\ jobs[hand.j] = None => note = None
        /\ HandIs("judge") =>
              /\ hand.job.state = "suggested" /\ hand.job.pending = None
              /\ jobs[hand.j] # None =>
                    /\ jobs[hand.j].state \in {"suggested", "rejected"}
                    /\ jobs[hand.j].done = hand.job.done
                    /\ jobs[hand.j].state = "rejected" => <<"judged", hand.j>> \in strange
        /\ ~HandIs("judge") =>
              /\ Pends(hand.j, hand.job) /\ hand.job.state = "applying" /\ hand.i = hand.job.pending.i
              /\ jobs[hand.j] # None => jobs[hand.j] = hand.job

\* What was sent for a job is among its recorded attempts, wherever it is read.
Billed ==
    /\ \A j \in Jobs : sent[j] <= Limit
    /\ \A j \in Jobs : jobs[j] = None /\ note # None => sent[j] = 0
    /\ \A j \in Jobs : jobs[j] # None => sent[j] <= jobs[j].attempts
    /\ Working => sent[worker.j] <= worker.job.attempts
    /\ At("gather") => sent[worker.j] < worker.job.attempts
    /\ Holding => sent[hand.j] <= hand.job.attempts

\* The mark of a review leaves what the note carries.
Marking ==
    review = "mark" =>
        receipt.expected \in Versions /\ receipt.marked \in Versions /\ receipt.marked.has = receipt.expected.has
Receipted ==
    /\ review # "idle" => IsReceipt(receipt)
    /\ Holding /\ hand.by # None => note = None \/ IsReceipt(receipt)
    /\ Busy /\ hand.by # None => IsReceipt(receipt)
    /\ ~Holding => hand.by = None

\* An association is recorded before its approval leaves the disk, and goes from
\* the records only after the note has lost it.
Citing ==
    /\ HandIs("save") => <<hand.j, hand.i>> \in assoc
    /\ fix # None => \/ fix.before = None /\ fix.after = None
                     \/ fix.after # None => fix.before \in Versions /\ fix.after.has = fix.before.has \ {fix.x}
    /\ HandIs("patch") => fix = None \/ assoc \in {fix.had, fix.had \ {fix.x}}
    /\ HandIs("uncite") => /\ fix \in Fixes /\ assoc \in {fix.had, fix.had \ {fix.x}}
                           /\ note # None => fix.x \notin note.has
    /\ HandIs("close") => fix \in Fixes

Gone ==
    <<"purged", 0>> \in strange =>
        /\ note = None /\ receipt = None /\ fix = None /\ assoc = {}
        /\ review = "idle" /\ ~Busy
        /\ Working => <<"returns", worker.j>> \in strange
        /\ \A j \in Jobs : jobs[j] # None => <<"returns", j>> \in strange

ReviewInv ==
    /\ Types /\ DiskIsSound /\ Behind /\ Held /\ Billed
    /\ Marking /\ Receipted /\ Traceable /\ Citing /\ Gone

-----------------------------------------------------------------------------
(* What the steps do to a job *)

LEMMA Limits == /\ Limit \in Nat /\ Limit > 0 /\ MaxJobs \in Nat /\ Dated \subseteq Marks
                /\ None \notin Versions /\ None \notin Pendings /\ None \notin JobSet
  BY EnrichmentAssumption

\* A job in another state is the same job.
LEMMA InStates ==
    ASSUME NEW job \in JobSet, NEW s \in States
    PROVE  /\ In(s, job) \in JobSet /\ In(s, job).state = s
           /\ In(s, job).attempts = job.attempts /\ In(s, job).done = job.done
           /\ In(s, job).pending = job.pending /\ In(s, job).note = job.note
  BY DEF In, JobSet

\* One job is saved and no other.
LEMMA Saved ==
    ASSUME JobTypes, NEW j \in Jobs, NEW job \in JobSet, Save(j, job)
    PROVE  /\ JobTypes' /\ jobs'[j] = job
           /\ \A k \in Jobs : k # j => jobs'[k] = jobs[k]
  BY DEF JobTypes, Save

LEMMA IsAJob == ASSUME JobTypes, NEW j \in Jobs, NEW S, Is(j, S) PROVE jobs[j] \in JobSet /\ jobs[j] # None /\ jobs[j].state \in S
  BY DEF JobTypes, Is

\* A new job has been sent nowhere.
LEMMA NewJobs ==
    ASSUME NoteTypes, note # None
    PROVE  /\ NewJob(note) \in JobSet /\ NewJob(note).state = "queued"
           /\ NewJob(note).attempts = 0 /\ NewJob(note).pending = None
<1>1. note \in Versions /\ ev \in Nat
  BY DEF NoteTypes
<1>2. <<>> \in Seq(Decisions)
  OBVIOUS
<1> QED
  BY <1>1, <1>2, Limits DEF NewJob, JobSet, States, Pendings

\* The first attempt of a job read is one more.
LEMMA Attempted ==
    ASSUME NEW job \in JobSet, job.attempts < Limit
    PROVE  LET r == [In("running", job) EXCEPT !.attempts = @ + 1]
           IN  /\ r \in JobSet /\ r.state = "running" /\ r.attempts = job.attempts + 1
               /\ r.done = job.done /\ r.pending = job.pending
<1>1. In("running", job) \in JobSet /\ In("running", job).attempts = job.attempts /\ In("running", job).state = "running"
      /\ In("running", job).done = job.done /\ In("running", job).pending = job.pending
  BY InStates DEF States
<1>2. job.attempts + 1 \in 0..Limit
  BY Limits DEF JobSet
<1> QED
  BY <1>1, <1>2 DEF JobSet

LEMMA AnsweredJobs ==
    ASSUME NEW job \in JobSet
    PROVE  LET r == [In("suggested", job) EXCEPT !.answered = TRUE]
           IN  /\ r \in JobSet /\ r.state = "suggested" /\ r.attempts = job.attempts
               /\ r.done = job.done /\ r.pending = job.pending
<1>1. In("suggested", job) \in JobSet /\ In("suggested", job).attempts = job.attempts /\ In("suggested", job).state = "suggested"
      /\ In("suggested", job).done = job.done /\ In("suggested", job).pending = job.pending
  BY InStates DEF States
<1> QED
  BY <1>1 DEF JobSet

LEMMA RetriedJobs ==
    ASSUME NEW job \in JobSet
    PROVE  LET r == [job EXCEPT !.state = "queued", !.attempts = 0]
           IN  r \in JobSet /\ r.state = "queued" /\ r.attempts = 0 /\ r.done = job.done /\ r.pending = job.pending
<1>1. 0 \in 0..Limit
  BY Limits
<1> QED
  BY <1>1 DEF JobSet, States

LEMMA DecidedJobs ==
    ASSUME NEW job \in JobSet, NEW done \in Seq(Decisions), NEW s \in States
    PROVE  LET r == [job EXCEPT !.done = done, !.state = s]
           IN  r \in JobSet /\ r.state = s /\ r.attempts = job.attempts /\ r.done = done /\ r.pending = job.pending
  BY DEF JobSet

\* What Judge records: the note as it is, and with the suggestion.
JudgedJob(job, j, i) ==
    [In("applying", job) EXCEPT !.pending =
        [i |-> i, before |-> note, after |-> [note EXCEPT !.has = @ \cup {<<j, i>>}]]]
LEMMA JudgedJobs ==
    ASSUME NEW job \in JobSet, NEW j \in Jobs, NEW i \in Suggestions, note \in Versions, note # None
    PROVE  LET r == JudgedJob(job, j, i)
           IN  /\ r \in JobSet /\ r.state = "applying" /\ r.attempts = job.attempts /\ r.done = job.done
               /\ Pends(j, r) /\ r.pending.i = i
<1> DEFINE p == [i |-> i, before |-> note, after |-> [note EXCEPT !.has = @ \cup {<<j, i>>}]]
<1>1. /\ [note EXCEPT !.has = @ \cup {<<j, i>>}] \in Versions
      /\ [note EXCEPT !.has = @ \cup {<<j, i>>}].has = note.has \cup {<<j, i>>}
  BY DEF Versions, Marks
<1>2. p \in Pendings /\ p.i = i /\ p.before = note /\ p.after.has = note.has \cup {<<j, i>>}
  BY <1>1 DEF Pendings
<1>3. In("applying", job) \in JobSet /\ In("applying", job).attempts = job.attempts /\ In("applying", job).state = "applying"
      /\ In("applying", job).done = job.done
  BY InStates DEF States
<1> HIDE DEF p
<1>4. LET r == [In("applying", job) EXCEPT !.pending = p]
      IN  r \in JobSet /\ r.state = "applying" /\ r.attempts = job.attempts /\ r.done = job.done /\ r.pending = p
  BY <1>2, <1>3 DEF JobSet
<1>5. JudgedJob(job, j, i) = [In("applying", job) EXCEPT !.pending = p]
  BY DEF JudgedJob, p
<1> QED
  BY <1>2, <1>4, <1>5 DEF Pends

\* What SaveJob saves: the decision, and nothing pending.
LEMMA SettledJobs ==
    ASSUME HandTypes, Holding, Pends(hand.j, hand.job), hand.job.state = "applying", NEW s \in States
    PROVE  LET r == In(s, Settled)
           IN  /\ r \in JobSet /\ r.state = s /\ r.attempts = hand.job.attempts /\ r.pending = None
               /\ \E e : r.done = Append(hand.job.done, e)
<1> DEFINE e == [i |-> hand.i, after |-> hand.job.pending.after]
           done == Append(hand.job.done, e)
<1>1. hand.job \in JobSet /\ hand.job.pending \in Pendings /\ hand.i \in Suggestions
  BY DEF HandTypes, Pends
<1>2. e \in Decisions /\ hand.job.pending.after \in Versions
  BY <1>1 DEF Decisions, Pendings
<1>3. done \in Seq(Decisions)
  BY <1>1, <1>2 DEF JobSet
<1>4. Settled = [hand.job EXCEPT !.done = done, !.pending = None, !.note = hand.job.pending.after]
  BY DEF Settled
<1> HIDE DEF done
<1>5. Settled \in JobSet /\ Settled.attempts = hand.job.attempts /\ Settled.pending = None /\ Settled.done = done
  BY <1>1, <1>2, <1>3, <1>4 DEF JobSet
<1>6. \E x : done = Append(hand.job.done, x)
  BY DEF done
<1> QED
  BY <1>5, <1>6, InStates

-----------------------------------------------------------------------------
(* The books: the jobs on disk and in memory *)

Books == JobTypes /\ WorkerTypes /\ HandTypes /\ SentTypes /\ DiskIsSound /\ Behind /\ Held /\ Billed

NoteStaysGone == note = None => note' = None
StrangeGrows == strange \subseteq strange'

\* The approval, if there is still one, holds what it held.
HandStays ==
    Holding' => /\ Holding /\ hand'.j = hand.j /\ hand'.i = hand.i /\ hand'.job = hand.job
                /\ (hand'.pc = "judge" <=> hand.pc = "judge")

LEMMA BooksStay ==
    ASSUME Books, UNCHANGED <<jobs, worker, sent>>, HandTypes', HandStays, NoteStaysGone, StrangeGrows
    PROVE  Books'
<1>1. JobTypes' /\ WorkerTypes' /\ SentTypes' /\ DiskIsSound'
  BY DEF Books, JobTypes, WorkerTypes, SentTypes, DiskIsSound, Working, Pends
<1>2. Behind'
  BY DEF Books, Behind, Working, At, NoteStaysGone, StrangeGrows
<1>3. Held'
  <2>1. CASE ~Holding'
    BY <2>1 DEF Held
  <2>2. CASE Holding'
    BY <2>2 DEF Books, Held, HandStays, HandIs, Working, Pends, NoteStaysGone, StrangeGrows
  <2> QED
    BY <2>1, <2>2
<1>4. Billed'
  BY DEF Books, Billed, HandStays, Working, At, NoteStaysGone
<1> QED
  BY <1>1, <1>2, <1>3, <1>4 DEF Books

\* A job the worker does not hold, or has still to start, is saved while it rests.
LEMMA SavingKeeps ==
    ASSUME Books, UNCHANGED <<worker, note>>, StrangeGrows, NEW j \in Jobs, NEW job \in JobSet, Save(j, job),
           SentTypes', \A k \in Jobs : sent'[k] = sent[k] \/ (k = j /\ sent'[k] = 0), sent'[j] <= job.attempts,
           Pends(j, job), HandTypes',
           \/ ~Holding'
           \/ hand' = hand /\ hand.j # j
           \/ /\ hand'.pc = "finish" /\ hand'.j = j /\ hand'.job = job /\ hand'.i = job.pending.i
              /\ job.state = "applying",
           Working /\ worker.j = j => /\ At("start") /\ jobs[j] # None /\ job.done = jobs[j].done
                                      /\ job.state \in {"queued", "failed"}
    PROVE  Books'
<1>0. Limit \in Nat /\ \A k \in Jobs : sent[k] \in Nat /\ (jobs[k] # None => jobs[k].attempts \in Nat)
  BY Limits DEF Books, SentTypes, JobTypes, JobSet
<1>1. /\ JobTypes' /\ jobs'[j] = job
      /\ \A k \in Jobs : k # j => jobs'[k] = jobs[k]
  BY Saved DEF Books
<1>2. WorkerTypes'
  BY DEF Books, WorkerTypes, Working
<1>3. DiskIsSound'
  BY <1>1 DEF Books, DiskIsSound, Pends
<1>4. Behind'
  <2>1. CASE Working /\ worker.j = j
    BY <1>1, <2>1, Limits DEF Books, WorkerTypes, Behind, Working, At, StrangeGrows
  <2>2. CASE Working /\ worker.j # j
    BY <1>1, <2>2 DEF Books, WorkerTypes, Behind, Working, At, StrangeGrows
  <2> QED
    BY <2>1, <2>2 DEF Behind, Working
<1>5. Held'
  <2>1. CASE ~Holding'
    BY <2>1 DEF Held
  <2>2. CASE hand' = hand /\ hand.j # j
    BY <1>1, <2>2 DEF Books, HandTypes, Held, Holding, HandIs, Pends, Working, StrangeGrows
  <2>3. CASE hand'.pc = "finish" /\ hand'.j = j /\ hand'.job = job /\ hand'.i = job.pending.i /\ job.state = "applying"
    BY <1>1, <2>3, Limits DEF Held, HandIs, Pends, Working
  <2> QED
    BY <2>1, <2>2, <2>3
<1>6. Billed'
  <2>1. \A k \in Jobs : sent'[k] <= sent[k]
    BY <1>0
  <2>2. /\ Working => worker.j \in Jobs /\ worker.job.attempts \in Nat
        /\ Holding => hand.j \in Jobs /\ hand.job.attempts \in Nat
    BY DEF Books, WorkerTypes, HandTypes, JobSet
  <2>3. SentTypes'
    OBVIOUS
  <2>4. \A k \in Jobs : sent'[k] \in Nat
    BY <2>3 DEF SentTypes
  <2>5. At("gather") => Working
    BY DEF At, Working
  <2>6. /\ Working => sent'[worker.j] <= worker.job.attempts
        /\ At("gather") => sent'[worker.j] < worker.job.attempts
        /\ Holding => sent'[hand.j] <= hand.job.attempts
    BY <1>0, <2>1, <2>2, <2>4, <2>5 DEF Books, Billed
  <2>7. \A k \in Jobs : sent'[k] <= Limit /\ (jobs'[k] # None => sent'[k] <= jobs'[k].attempts)
    BY <1>0, <1>1, <2>1, <2>4 DEF Books, Billed
  <2>8. \A k \in Jobs : jobs'[k] = None /\ note' # None => sent'[k] = 0
    BY <1>0, <1>1, <2>1, <2>4, Limits DEF Books, Billed
  <2>9. Holding' => sent'[hand'.j] <= hand'.job.attempts
    BY <2>6 DEF Holding
  <2> QED
    BY <2>6, <2>7, <2>8, <2>9 DEF Billed, Working, At
<1> QED
  BY <1>1, <1>2, <1>3, <1>4, <1>5, <1>6 DEF Books

\* The worker saves its job, or takes it up.
LEMMA WorkingKeeps ==
    ASSUME Books, UNCHANGED <<hand, note, sent, strange>>, NEW j \in Jobs, NEW job \in JobSet, Save(j, job),
           Pends(j, job), ~Holding \/ hand.j # j, sent[j] <= job.attempts, WorkerTypes',
           Working' =>
             /\ worker'.j = j /\ worker'.job.pending = None /\ sent[j] <= worker'.job.attempts
             /\ \/ worker'.pc = "start" /\ job.state \in {"queued", "failed"} /\ worker'.job.done = job.done
                \/ /\ worker'.pc = "gather" /\ worker'.job = job /\ job.state = "running"
                   /\ sent[j] < job.attempts
    PROVE  Books'
<1>1. /\ JobTypes' /\ jobs'[j] = job
      /\ \A k \in Jobs : k # j => jobs'[k] = jobs[k]
  BY Saved DEF Books
<1>2. HandTypes' /\ SentTypes'
  BY DEF Books, HandTypes, Holding, SentTypes
<1>3. DiskIsSound'
  BY <1>1 DEF Books, DiskIsSound, Pends
<1>4. Behind'
  BY <1>1, Limits DEF Behind, At
<1>5. Held'
  BY <1>1 DEF Books, HandTypes, Held, Holding, HandIs, Pends
<1>6. Billed'
  <2>1. \A k \in Jobs : jobs'[k] # None => sent'[k] <= jobs'[k].attempts
    BY <1>1 DEF Books, Billed
  <2>2. \A k \in Jobs : jobs'[k] = None /\ note' # None => sent'[k] = 0
    BY <1>1, Limits DEF Books, Billed
  <2>3. Working' => sent'[worker'.j] <= worker'.job.attempts
    OBVIOUS
  <2>4. worker'.pc = "gather" => sent'[worker'.j] < worker'.job.attempts
    BY DEF Working
  <2>5. (\A k \in Jobs : sent'[k] <= Limit) /\ (Holding' => sent'[hand'.j] <= hand'.job.attempts)
    BY DEF Books, Billed, Holding
  <2> QED
    BY <2>1, <2>2, <2>3, <2>4, <2>5 DEF Billed, At
<1> QED
  BY <1>1, <1>2, <1>3, <1>4, <1>5, <1>6 DEF Books

-----------------------------------------------------------------------------
(* The books under each step *)

LEMMA HeldStates ==
    ASSUME Books, NEW j \in Jobs, jobs[j] # None
    PROVE  /\ jobs[j] \in JobSet /\ Pends(j, jobs[j]) /\ sent[j] <= jobs[j].attempts
           /\ Is(j, {"queued", "running", "failed", "stale"}) => ~Holding \/ hand.j # j
           /\ Is(j, {"suggested", "stale", "applying"}) => ~Working \/ worker.j # j
           /\ Is(j, {"failed"}) /\ Working /\ worker.j = j => At("start")
  BY DEF Books, JobTypes, DiskIsSound, Billed, Behind, Held, Is, At

\* One that stays as it is.
UnheldStays == UNCHANGED <<worker, hand, note, sent>> /\ StrangeGrows

LEMMA QueueKeeps ==
    ASSUME Books, NoteTypes, NEW force \in BOOLEAN, QueueNote(force), UnheldStays
    PROVE  Books'
<1>1. HandTypes' /\ Holding' = Holding /\ Holding = FALSE
  BY DEF Books, HandTypes, Holding, Holds, UnheldStays, QueueNote, Lock
<1>2. CASE UNCHANGED jobs
  BY <1>1, <1>2, BooksStay DEF UnheldStays, HandStays, NoteStaysGone, StrangeGrows
<1>3. CASE Free # {} /\ Save(NextId, NewJob(note))
  <2>1. NextId \in Jobs /\ jobs[NextId] = None /\ (worker.j = NextId => ~Working)
    BY <1>3 DEF NextId, Free, Working
  <2>2. note # None
    BY DEF QueueNote, Eligible
  <2>3. sent[NextId] = 0
    BY <2>1, <2>2 DEF Books, Billed
  <2>4. Pends(NextId, NewJob(note))
    BY <2>2, NewJobs DEF Pends
  <2> QED
    BY <1>1, <1>3, <2>1, <2>2, <2>3, <2>4, NewJobs, SavingKeeps DEF UnheldStays, Books, SentTypes
<1> QED
  BY <1>2, <1>3 DEF QueueNote

LEMMA RetryKeeps ==
    ASSUME Books, NEW j \in Jobs, RetryFailed(j), StrangeGrows
    PROVE  Books'
<1> DEFINE job == [jobs[j] EXCEPT !.state = "queued", !.attempts = 0]
<1>1. /\ Is(j, {"failed"}) /\ jobs[j] # None /\ hand.pc = "idle" /\ Save(j, job)
      /\ UNCHANGED <<worker, hand, note>> /\ sent' = [sent EXCEPT ![j] = 0]
  BY DEF RetryFailed, Is, Lock
<1>2. jobs[j] \in JobSet /\ Pends(j, jobs[j]) /\ jobs[j].state = "failed"
  BY <1>1, HeldStates DEF Is
<1>3. job \in JobSet /\ job.state = "queued" /\ job.attempts = 0 /\ job.done = jobs[j].done /\ Pends(j, job)
  BY <1>2, RetriedJobs DEF Pends
<1> HIDE DEF job
<1>4. ~Holding' /\ HandTypes'
  BY <1>1 DEF Books, HandTypes, Holding, Holds
<1>5. SentTypes' /\ sent'[j] = 0 /\ \A k \in Jobs : k # j => sent'[k] = sent[k]
  BY <1>1 DEF Books, SentTypes
<1>6. Working /\ worker.j = j => At("start")
  BY <1>1, HeldStates
<1> QED
  BY <1>1, <1>3, <1>4, <1>5, <1>6, SavingKeeps

\* A suggested job gets another state or another decision.
LEMMA DecidingKeeps ==
    ASSUME Books, NEW j \in Jobs, Is(j, {"suggested"}), Lock, UnheldStays, NEW job \in JobSet, Save(j, job),
           job.attempts = jobs[j].attempts, job.pending = jobs[j].pending, job.state # "applying"
    PROVE  Books'
<1>1. jobs[j] \in JobSet /\ Pends(j, jobs[j]) /\ jobs[j].state = "suggested" /\ sent[j] <= jobs[j].attempts
      /\ (~Working \/ worker.j # j)
  BY HeldStates DEF Is
<1>2. Pends(j, job)
  BY <1>1 DEF Pends
<1>3. ~Holding' /\ HandTypes' /\ SentTypes'
  BY DEF Books, HandTypes, SentTypes, Holding, Holds, UnheldStays, Lock
<1> QED
  BY <1>1, <1>2, <1>3, SavingKeeps DEF UnheldStays

LEMMA RejectKeeps ==
    ASSUME Books, NEW j \in Jobs, NEW i \in Suggestions, Reject(j, i), StrangeGrows
    PROVE  Books'
<1> DEFINE d == [i |-> i, after |-> None]
           done == Append(jobs[j].done, d)
           state == IF Len(done) < Cardinality(Suggestions) THEN "suggested"
                    ELSE IF \E k \in DOMAIN done : done[k].after # None THEN "applied"
                    ELSE "rejected"
           job == [jobs[j] EXCEPT !.done = done, !.state = state]
<1>1. Is(j, {"suggested"}) /\ Lock /\ Save(j, job) /\ UnheldStays
  BY DEF Reject, UnheldStays
<1>2. jobs[j] \in JobSet
  BY <1>1, HeldStates DEF Is
<1>3. d \in Decisions
  BY DEF Decisions
<1>4. jobs[j].done \in Seq(Decisions)
  BY <1>2 DEF JobSet
<1>5. done \in Seq(Decisions) /\ state \in States /\ state # "applying"
  BY <1>3, <1>4 DEF States
<1> HIDE DEF done, state
<1>6. job \in JobSet /\ job.state = state /\ job.attempts = jobs[j].attempts /\ job.pending = jobs[j].pending
  BY <1>2, <1>5 DEF JobSet
<1> HIDE DEF job
<1> QED
  BY <1>1, <1>5, <1>6, DecidingKeeps

LEMMA RejectRemainingKeeps ==
    ASSUME Books, NEW j \in Jobs, RejectRemaining(j), StrangeGrows
    PROVE  Books'
<1>1. Is(j, {"suggested"}) /\ Lock /\ UnheldStays /\ Save(j, In("rejected", jobs[j])) /\ jobs[j] \in JobSet
  BY HeldStates DEF RejectRemaining, UnheldStays, Is
<1>2. /\ In("rejected", jobs[j]) \in JobSet /\ In("rejected", jobs[j]).state = "rejected"
      /\ In("rejected", jobs[j]).attempts = jobs[j].attempts /\ In("rejected", jobs[j]).pending = jobs[j].pending
  BY <1>1, InStates DEF States
<1> QED
  BY <1>1, <1>2, DecidingKeeps

\* An approval is taken up with the job as it is on disk.
LEMMA TakingKeeps ==
    ASSUME Books, NEW j \in Jobs, NEW i \in Suggestions, NEW by \in {None, "review", "resumed"},
           NEW pc \in {"judge", "finish"}, jobs[j] # None,
           pc = "judge" => jobs[j].state = "suggested",
           pc = "finish" => jobs[j].state = "applying" /\ i = jobs[j].pending.i,
           hand' = [pc |-> pc, by |-> by, j |-> j, i |-> i, job |-> jobs[j], map |-> FALSE],
           UNCHANGED <<jobs, worker, sent, note>>, StrangeGrows
    PROVE  Books' 
<1>1. jobs[j] \in JobSet /\ Pends(j, jobs[j]) /\ sent[j] <= jobs[j].attempts /\ (~Working \/ worker.j # j)
  BY HeldStates DEF Is
<1>2. hand'.pc = pc /\ hand'.by = by /\ hand'.j = j /\ hand'.i = i /\ hand'.job = jobs[j]
  OBVIOUS
<1>3. HandTypes'
  BY <1>1, <1>2 DEF HandTypes, Holds, Holding
<1>4. JobTypes' /\ WorkerTypes' /\ SentTypes' /\ DiskIsSound'
  BY DEF Books, JobTypes, WorkerTypes, SentTypes, DiskIsSound, Working, Pends
<1>5. Behind'
  BY DEF Books, Behind, Working, At, StrangeGrows
<1>6. Held'
  <2>1. jobs'[hand'.j] = hand'.job /\ hand'.job # None /\ (Working' => worker'.j # hand'.j)
    BY <1>1, <1>2 DEF Working
  <2>2. HandIs("judge")' => hand'.job.state = "suggested" /\ hand'.job.pending = None
    BY <1>1, <1>2 DEF HandIs, Pends
  <2>3. ~HandIs("judge")' => Pends(hand.j, hand.job)' /\ hand'.job.state = "applying" /\ hand'.i = hand'.job.pending.i
    BY <1>1, <1>2 DEF HandIs, Pends
  <2> QED
    BY <2>1, <2>2, <2>3 DEF Held
<1>7. Billed'
  BY <1>1, <1>2 DEF Books, Billed, Working, At
<1> QED
  BY <1>3, <1>4, <1>5, <1>6, <1>7 DEF Books

LEMMA ApproveKeeps ==
    ASSUME Books, NEW j \in Jobs, NEW i, NEW by \in {None, "review", "resumed"}, Approve(j, i, by), StrangeGrows
    PROVE  Books'
  BY TakingKeeps DEF Approve, Is, Undecided

LEMMA ResumeKeeps ==
    ASSUME Books, NEW j \in Jobs, NEW by \in {None, "review", "resumed"}, Resume(j, by), StrangeGrows
    PROVE  Books'
<1>1. jobs[j] # None /\ jobs[j].state = "applying" /\ Pends(j, jobs[j])
  BY HeldStates DEF Resume, Is
<1>2. jobs[j].pending.i \in Suggestions
  BY <1>1 DEF Pends, Pendings
<1> QED
  BY <1>1, <1>2, TakingKeeps DEF Resume

LEMMA JudgeKeeps ==
    ASSUME Books, NoteTypes, Judge, UNCHANGED strange
    PROVE  Books'
<1>1. /\ hand.pc = "judge" /\ Holding /\ hand.j \in Jobs /\ hand.i \in Suggestions /\ hand.job \in JobSet
      /\ hand.job.pending = None /\ hand.job.state = "suggested" /\ sent[hand.j] <= hand.job.attempts
      /\ (Working => worker.j # hand.j) /\ UNCHANGED <<worker, note, sent, strange>>
  BY DEF Judge, HandIs, Holding, Holds, Books, HandTypes, Held, Billed
<1>2. ASSUME hand' = Nobody PROVE HandTypes' /\ ~Holding'
  BY <1>2 DEF Nobody, HandTypes, Holding, Holds
<1>3. SentTypes' /\ StrangeGrows
  BY <1>1 DEF Books, SentTypes, StrangeGrows
<1>4. CASE Unlock /\ UNCHANGED jobs
  BY <1>1, <1>2, <1>3, <1>4, BooksStay DEF Unlock, HandStays, NoteStaysGone
<1>5. CASE Save(hand.j, In("stale", hand.job)) /\ Unlock
  <2>1. LET job == In("stale", hand.job)
        IN  job \in JobSet /\ job.state = "stale" /\ job.attempts = hand.job.attempts /\ Pends(hand.j, job)
    BY <1>1, InStates DEF States, Pends
  <2> QED
    BY <1>1, <1>2, <1>3, <1>5, <2>1, SavingKeeps DEF Unlock
<1>6. CASE LET job == JudgedJob(hand.job, hand.j, hand.i)
           IN  note # None /\ Save(hand.j, job) /\ hand' = [hand EXCEPT !.pc = "finish", !.job = job]
  <2> DEFINE job == JudgedJob(hand.job, hand.j, hand.i)
  <2>1. /\ job \in JobSet /\ job.state = "applying" /\ job.attempts = hand.job.attempts
        /\ Pends(hand.j, job) /\ job.pending.i = hand.i
    BY <1>1, <1>6, JudgedJobs DEF NoteTypes
  <2> HIDE DEF job
  <2>2. hand' = [hand EXCEPT !.pc = "finish", !.job = job] /\ Save(hand.j, job)
    BY <1>6 DEF job
  <2>3. /\ hand'.pc = "finish" /\ hand'.j = hand.j /\ hand'.job = job /\ hand'.i = job.pending.i
        /\ HandTypes'
    BY <1>1, <2>1, <2>2 DEF Books, HandTypes, Holds, Holding
  <2> QED
    BY <1>1, <1>3, <2>1, <2>2, <2>3, SavingKeeps
<1> QED
  BY <1>4, <1>5, <1>6 DEF Judge, JudgedJob

LEMMA SaveJobKeeps ==
    ASSUME Books, SaveJob, UNCHANGED strange
    PROVE  Books'
<1>1. /\ hand.pc = "save" /\ Holding /\ hand.j \in Jobs /\ hand.job \in JobSet /\ Pends(hand.j, hand.job)
      /\ hand.job.state = "applying" /\ sent[hand.j] <= hand.job.attempts
      /\ (Working => worker.j # hand.j) /\ UNCHANGED <<worker, note, sent, strange>> /\ hand' = Nobody
  BY DEF SaveJob, Unlock, HandIs, Holding, Holds, Books, HandTypes, Held, Billed
<1>2. HandTypes' /\ ~Holding'
  BY <1>1 DEF Nobody, HandTypes, Holding, Holds
<1>3. SentTypes' /\ StrangeGrows
  BY <1>1 DEF Books, SentTypes, StrangeGrows
<1>4. PICK s \in {"applied", "suggested", "stale"} : Save(hand.j, In(s, Settled))
  BY DEF SaveJob
<1>5. LET job == In(s, Settled)
      IN  job \in JobSet /\ job.attempts = hand.job.attempts /\ Pends(hand.j, job)
  BY <1>1, SettledJobs DEF Books, States, Pends
<1> QED
  BY <1>1, <1>2, <1>3, <1>4, <1>5, SavingKeeps

\* What touches no job.
HandQuiet == \/ Finish \/ Write \/ WriteFails \/ Record
             \/ CheckCorrection \/ PatchBack \/ PatchFails \/ Uncite \/ CloseCorrection
LEMMA HandQuietKeeps ==
    ASSUME Books, NoteTypes, CiteTypes, Citing, HandQuiet, UNCHANGED strange
    PROVE  Books' /\ NoteStaysGone
<1>1. UNCHANGED <<jobs, worker, sent>> /\ StrangeGrows
  BY DEF HandQuiet, Finish, Write, WriteFails, Record, CheckCorrection,
     PatchBack, PatchFails, Uncite, CloseCorrection, StrangeGrows
<1>2. \/ hand' = Nobody
      \/ \E pc \in {"record", "write", "save", "uncite", "close"} : hand' = [hand EXCEPT !.pc = pc]
      \/ CheckCorrection
  BY DEF HandQuiet, Finish, Write, WriteFails, Record, PatchBack, PatchFails, Uncite, CloseCorrection,
     Unlock
<1>3. hand.pc # "judge" /\ (hand'.pc \in {"record", "write", "save"} => Holding)
  <2>1. CASE Finish \/ Write \/ WriteFails \/ Record
    BY <2>1 DEF Finish, Write, WriteFails, Record, HandIs, Holding, Holds
  <2>2. CASE CheckCorrection \/ PatchBack \/ PatchFails \/ Uncite \/ CloseCorrection
    <3>1. hand.pc \in {"correct", "patch", "uncite", "close"}
      BY <2>2 DEF CheckCorrection, PatchBack, PatchFails, Uncite, CloseCorrection, HandIs
    <3>2. hand'.pc \in {"idle", "patch", "uncite", "close"}
      <4>1. "pc" \in DOMAIN hand /\ Nobody.pc = "idle"
        BY DEF Books, HandTypes, Nobody
      <4>2. CASE CheckCorrection
        BY <4>1, <4>2 DEF CheckCorrection, Unlock, Books, HandTypes
      <4>3. CASE PatchBack \/ PatchFails \/ Uncite \/ CloseCorrection
        BY <4>1, <4>3 DEF PatchBack, PatchFails, Uncite, CloseCorrection, Unlock, Books, HandTypes
      <4> QED
        BY <2>2, <4>2, <4>3
    <3> QED
      BY <3>1, <3>2
  <2> QED
    BY <2>1, <2>2 DEF HandQuiet
<1>4. HandTypes' /\ HandStays
  <2>1. CASE hand' = Nobody
    BY <2>1 DEF Nobody, HandTypes, HandStays, Holding, Holds
  <2>2. CASE \E pc \in {"record", "write", "save", "uncite", "close"} : hand' = [hand EXCEPT !.pc = pc]
    <3>1. PICK pc \in {"record", "write", "save", "uncite", "close"} : hand' = [hand EXCEPT !.pc = pc]
      BY <2>2
    <3>2. hand'.pc = pc /\ hand'.j = hand.j /\ hand'.i = hand.i /\ hand'.job = hand.job
      BY <3>1 DEF Books, HandTypes
    <3>3. HandTypes'
      BY <1>3, <3>1, <3>2 DEF Books, HandTypes, Holding, Holds
    <3> QED
      BY <1>3, <3>2, <3>3 DEF HandStays, Holding, Holds
  <2>3. CASE CheckCorrection /\ hand' # Nobody
    <3>1. PICK pc \in {"uncite", "patch"} : hand' = [hand EXCEPT !.pc = pc, !.map = others]
      BY <2>3 DEF CheckCorrection, Unlock
    <3>2. hand'.pc = pc /\ hand'.j = hand.j /\ hand'.i = hand.i /\ hand'.job = hand.job
      BY <3>1 DEF Books, HandTypes
    <3>3. HandTypes'
      BY <3>1, <3>2 DEF Books, HandTypes, Holding, Holds, CiteTypes
    <3> QED
      BY <3>2, <3>3 DEF HandStays, Holding, Holds
  <2> QED
    BY <1>2, <2>1, <2>2, <2>3
<1>5. NoteStaysGone
  <2>1. CASE Finish \/ Record \/ CheckCorrection \/ Uncite \/ CloseCorrection
    BY <2>1 DEF Finish, Record, CheckCorrection, Uncite, CloseCorrection, NoteStaysGone
  <2>2. CASE Write \/ WriteFails
    <3>1. hand.job.pending.before # None
      BY <2>2 DEF Write, WriteFails, HandIs, Books, Held, Pends, Holding, Holds
    <3> QED
      BY <2>2, <3>1 DEF Write, WriteFails, NoteStaysGone
  <2>3. CASE PatchBack \/ PatchFails
    BY <2>3, Limits DEF PatchBack, PatchFails, Citing, NoteStaysGone
  <2> QED
    BY <2>1, <2>2, <2>3 DEF HandQuiet
<1> QED
  BY <1>1, <1>4, <1>5, BooksStay

\* What a worker has in hand.
LEMMA WorkersJob ==
    ASSUME Books, Working
    PROVE  /\ worker.j \in Jobs /\ worker.job \in JobSet /\ worker.job.pending = None
           /\ sent[worker.j] \in Nat /\ sent[worker.j] <= worker.job.attempts
           /\ worker.job.attempts \in Nat /\ worker.job.attempts <= Limit
           /\ ~Holding \/ hand.j # worker.j
  BY Limits DEF Books, WorkerTypes, Behind, SentTypes, Billed, Held, JobSet

Idle == worker' = Resting
LEMMA Rested == ASSUME Idle PROVE WorkerTypes' /\ ~Working'
  BY DEF Idle, Resting, WorkerTypes, Working

LEMMA PickKeeps ==
    ASSUME Books, NEW j \in Jobs, Pick(j), UNCHANGED strange
    PROVE  Books'
<1> DEFINE found == IF ~Is(j, {"running"}) THEN jobs[j]
                    ELSE In(IF jobs[j].attempts >= Limit THEN "failed" ELSE "queued", jobs[j])
<1>1. /\ jobs[j] # None /\ jobs[j].state \in {"queued", "running", "failed"} /\ At("idle")
      /\ UNCHANGED <<hand, note, sent, strange>>
  BY DEF Pick, Runnable, Is
<1>2. /\ jobs[j] \in JobSet /\ Pends(j, jobs[j]) /\ sent[j] <= jobs[j].attempts /\ (~Holding \/ hand.j # j)
  BY <1>1, HeldStates DEF Is
<1>3. jobs[j].pending = None
  BY <1>1, <1>2 DEF Pends
<1>4. /\ found \in JobSet /\ found.state \in {"queued", "failed"} /\ found.attempts = jobs[j].attempts
      /\ found.done = jobs[j].done /\ found.pending = None /\ Pends(j, found)
  <2>1. \A s \in {"failed", "queued"} :
           In(s, jobs[j]) \in JobSet /\ In(s, jobs[j]).state = s /\ In(s, jobs[j]).attempts = jobs[j].attempts
           /\ In(s, jobs[j]).done = jobs[j].done /\ In(s, jobs[j]).pending = None
    BY <1>2, <1>3, InStates DEF States
  <2> QED
    BY <1>1, <1>2, <1>3, <2>1 DEF Pends, Is
<1>5. /\ Save(j, found)
      /\ worker' = worker \/ worker' = [pc |-> "start", j |-> j, job |-> In("queued", found)]
  BY DEF Pick
<1> HIDE DEF found
<1>6. LET q == In("queued", found)
      IN  q \in JobSet /\ q.attempts = jobs[j].attempts /\ q.done = found.done /\ q.pending = None
  BY <1>4, InStates DEF States
<1>7. WorkerTypes'
  BY <1>1, <1>5, <1>6 DEF Books, WorkerTypes, Working, At
<1>8. Working' => worker' = [pc |-> "start", j |-> j, job |-> In("queued", found)]
  BY <1>1, <1>5 DEF Working, At
<1> QED
  BY <1>1, <1>2, <1>4, <1>5, <1>6, <1>7, <1>8, WorkingKeeps

LEMMA StartKeeps ==
    ASSUME Books, Start, UNCHANGED strange
    PROVE  Books'
<1> DEFINE failed == In("failed", worker.job)
           tried == [In("running", worker.job) EXCEPT !.attempts = @ + 1]
<1>1. At("start") /\ Working /\ UNCHANGED <<hand, note, sent, strange>>
  BY DEF Start, At, Working
<1>2. /\ worker.j \in Jobs /\ worker.job \in JobSet /\ worker.job.pending = None
      /\ sent[worker.j] \in Nat /\ sent[worker.j] <= worker.job.attempts
      /\ worker.job.attempts \in Nat /\ worker.job.attempts <= Limit
      /\ ~Holding \/ hand.j # worker.j
  BY <1>1, WorkersJob
<1>3. CASE worker.job.attempts >= Limit
  <2>1. failed \in JobSet /\ failed.state = "failed" /\ failed.attempts = worker.job.attempts /\ Pends(worker.j, failed)
    BY <1>2, InStates DEF States, Pends
  <2>2. Save(worker.j, failed) /\ Idle
    BY <1>3, <2>1 DEF Start, Idle
  <2> HIDE DEF failed
  <2> QED
    BY <1>1, <1>2, <2>1, <2>2, Rested, WorkingKeeps
<1>4. CASE ~(worker.job.attempts >= Limit)
  <2>1. /\ tried \in JobSet /\ tried.state = "running" /\ tried.attempts = worker.job.attempts + 1
        /\ tried.pending = None /\ Pends(worker.j, tried)
    BY <1>2, <1>4, Attempted, Limits DEF Pends
  <2>2. Save(worker.j, tried) /\ worker' = [worker EXCEPT !.pc = "gather", !.job = tried]
    BY <1>4, <2>1 DEF Start
  <2> HIDE DEF tried
  <2>3. worker'.pc = "gather" /\ worker'.j = worker.j /\ worker'.job = tried /\ WorkerTypes'
    BY <1>2, <2>1, <2>2 DEF Books, WorkerTypes, Working
  <2>4. sent[worker.j] < tried.attempts /\ sent[worker.j] <= tried.attempts
    BY <1>2, <2>1
  <2> QED
    BY <1>1, <1>2, <2>1, <2>2, <2>3, <2>4, WorkingKeeps
<1> QED
  BY <1>3, <1>4

LEMMA SettleKeeps ==
    ASSUME Books, Working, UNCHANGED <<hand, note, sent, strange>>, NEW job \in JobSet, Settle(job),
           job.attempts = worker.job.attempts, job.pending = None, job.state # "applying"
    PROVE  Books'
  BY WorkersJob, Rested, WorkingKeeps DEF Settle, Idle, Pends

LEMMA GatherKeeps ==
    ASSUME Books, Gather, UNCHANGED strange
    PROVE  Books'
<1>1. At("gather") /\ Working /\ UNCHANGED <<hand, note, strange>> /\ sent[worker.j] < worker.job.attempts
  BY DEF Gather, At, Working, Books, Billed
<1>2. /\ worker.j \in Jobs /\ worker.job \in JobSet /\ worker.job.pending = None
      /\ sent[worker.j] \in Nat /\ sent[worker.j] <= worker.job.attempts
      /\ worker.job.attempts \in Nat /\ worker.job.attempts <= Limit
      /\ ~Holding \/ hand.j # worker.j
  BY <1>1, WorkersJob
<1>3. CASE ~Fresh(worker.job)
  <2>1. PICK s \in {"failed", "stale"} : Settle(In(s, worker.job)) /\ UNCHANGED sent
    BY <1>3 DEF Gather
  <2>2. LET job == In(s, worker.job)
        IN  job \in JobSet /\ job.attempts = worker.job.attempts /\ job.pending = None /\ job.state # "applying"
    BY <1>2, InStates DEF States
  <2> QED
    BY <1>1, <2>1, <2>2, SettleKeeps
<1>4. CASE Fresh(worker.job)
  <2>1. /\ sent' = [sent EXCEPT ![worker.j] = @ + 1] /\ worker' = [worker EXCEPT !.pc = "answer"]
        /\ UNCHANGED jobs
    BY <1>4 DEF Gather
  <2>2. note # None
    BY <1>2, <1>4, Limits DEF Fresh, JobSet
  <2>3. jobs[worker.j] = worker.job /\ worker.job.state = "running" /\ worker.job # None
    BY <1>1, <1>2, <2>2, Limits DEF Books, Behind, At
  <2>4. worker'.pc = "answer" /\ worker'.j = worker.j /\ worker'.job = worker.job /\ WorkerTypes' /\ Working'
    BY <1>1, <1>2, <2>1 DEF Books, WorkerTypes, Working
  <2>5. SentTypes' /\ sent'[worker.j] = sent[worker.j] + 1 /\ \A k \in Jobs : k # worker.j => sent'[k] = sent[k]
    BY <1>2, <2>1 DEF Books, SentTypes
  <2>6. JobTypes' /\ HandTypes' /\ DiskIsSound'
    BY <1>1, <2>1 DEF Books, JobTypes, HandTypes, Holding, DiskIsSound, Pends
  <2>7. Behind'
    BY <1>2, <2>1, <2>3, <2>4 DEF Behind, At
  <2>8. Held'
    BY <1>1, <1>2, <2>1, <2>4 DEF Books, Held, Holding, HandIs, Pends
  <2>9. Billed'
    <3>1. sent'[worker.j] <= worker.job.attempts /\ sent'[worker.j] <= Limit
      BY <1>1, <1>2, <2>5, Limits
    <3>2. \A k \in Jobs : sent'[k] <= Limit /\ (jobs'[k] # None => sent'[k] <= jobs'[k].attempts)
      BY <2>1, <2>3, <2>5, <3>1 DEF Books, Billed
    <3>3. \A k \in Jobs : jobs'[k] = None /\ note' # None => sent'[k] = 0
      BY <1>1, <2>1, <2>3, <2>5 DEF Books, Billed
    <3>4. Holding' => sent'[hand'.j] <= hand'.job.attempts
      BY <1>1, <1>2, <2>5 DEF Books, HandTypes, Billed, Holding
    <3> QED
      BY <2>4, <3>1, <3>2, <3>3, <3>4 DEF Billed, At
  <2> QED
    BY <2>4, <2>5, <2>6, <2>7, <2>8, <2>9 DEF Books
<1> QED
  BY <1>3, <1>4

LEMMA AnsweredKeeps ==
    ASSUME Books, Answered, UNCHANGED strange
    PROVE  Books'
<1>1. Working /\ UNCHANGED <<hand, note, sent, strange>> /\ worker.job \in JobSet /\ worker.job.pending = None
  BY WorkersJob DEF Answered, At, Working
<1>2. \/ Settle([In("suggested", worker.job) EXCEPT !.answered = TRUE])
      \/ \E s \in {"failed", "stale"} : Settle(In(s, worker.job))
  BY Zenon DEF Answered
<1>3. \A s \in {"failed", "stale"} : LET job == In(s, worker.job)
      IN  job \in JobSet /\ job.attempts = worker.job.attempts /\ job.pending = None /\ job.state # "applying"
  BY <1>1, InStates DEF States
<1>4. LET job == [In("suggested", worker.job) EXCEPT !.answered = TRUE]
      IN  job \in JobSet /\ job.attempts = worker.job.attempts /\ job.pending = None /\ job.state # "applying"
  BY <1>1, AnsweredJobs
<1> QED
  BY <1>1, <1>2, <1>3, <1>4, SettleKeeps

LEMMA RejectedKeeps ==
    ASSUME Books, Rejected, UNCHANGED strange
    PROVE  Books'
<1>1. Working /\ UNCHANGED <<hand, note, sent, strange>> /\ worker.job \in JobSet /\ worker.job.pending = None
  BY WorkersJob DEF Rejected, Working
<1>2. LET job == In("failed", worker.job)
      IN  job \in JobSet /\ job.attempts = worker.job.attempts /\ job.pending = None /\ job.state # "applying"
  BY <1>1, InStates DEF States
<1> QED
  BY <1>1, <1>2, SettleKeeps DEF Rejected

LEMMA DismissKeeps ==
    ASSUME Books, Dismiss
    PROVE  Books'
<1>1. /\ UNCHANGED <<note, worker, hand, sent>> /\ jobs' = [j \in Jobs |-> Dismissed(jobs[j])]
      /\ strange \subseteq strange'
      /\ At("start") => <<"picked", worker.j>> \in strange'
      /\ HandIs("judge") => <<"judged", hand.j>> \in strange'
  BY DEF Dismiss
<1>2. \A j \in Jobs : jobs[j] # None => jobs[j] \in JobSet /\ Pends(j, jobs[j])
  BY DEF Books, JobTypes, DiskIsSound
<1>3. \A j \in Jobs : \/ jobs'[j] = jobs[j] /\ (jobs[j] # None => jobs[j].state \notin {"suggested", "queued", "stale"})
                      \/ /\ jobs[j] # None /\ jobs[j].state \in {"suggested", "queued", "stale"}
                         /\ jobs'[j] = In("rejected", jobs[j]) /\ jobs'[j] # None
                         /\ jobs'[j] \in JobSet /\ jobs'[j].state = "rejected"
                         /\ jobs'[j].attempts = jobs[j].attempts /\ jobs'[j].done = jobs[j].done
                         /\ jobs'[j].pending = None
  <2> SUFFICES ASSUME NEW j \in Jobs, jobs[j] # None, jobs[j].state \in {"suggested", "queued", "stale"}
               PROVE  LET r == In("rejected", jobs[j])
                      IN  /\ r \in JobSet /\ r.state = "rejected" /\ r.attempts = jobs[j].attempts
                          /\ r.done = jobs[j].done /\ r.pending = None
    BY <1>1, Limits DEF Dismissed
  <2> QED
    BY <1>2, InStates DEF States, Pends
<1>4. JobTypes'
  BY <1>1, <1>3 DEF Books, JobTypes
<1>5. WorkerTypes' /\ HandTypes' /\ SentTypes'
  BY <1>1 DEF Books, WorkerTypes, Working, HandTypes, Holding, SentTypes
<1>6. DiskIsSound'
  BY <1>2, <1>3 DEF DiskIsSound, Pends
<1>7. Behind'
  BY <1>1, <1>3 DEF Books, WorkerTypes, Behind, Working, At
<1>8. Held'
  BY <1>1, <1>3 DEF Books, HandTypes, Held, Holding, Working, HandIs, Pends
<1>9. Billed'
  BY <1>1, <1>3 DEF Books, Billed, Holding, Working, At
<1> QED
  BY <1>4, <1>5, <1>6, <1>7, <1>8, <1>9 DEF Books

LEMMA ForgetKeeps ==
    ASSUME Books, Forget
    PROVE  Books'
<1>1. UNCHANGED <<note, worker, hand, sent>> /\ note = None /\ (\A j \in Jobs : jobs'[j] = None) /\ JobTypes'
  BY DEF Forget, JobTypes
<1>2. WorkerTypes' /\ HandTypes' /\ SentTypes' /\ DiskIsSound'
  BY <1>1 DEF Books, WorkerTypes, Working, HandTypes, Holding, SentTypes, DiskIsSound
<1>3. Behind'
  BY <1>1 DEF Books, WorkerTypes, Behind, Working, At
<1>4. Held'
  BY <1>1 DEF Books, HandTypes, Held, Holding, Working, HandIs, Pends
<1>5. Billed'
  BY <1>1 DEF Books, Billed, Holding, Working, At
<1> QED
  BY <1>1, <1>2, <1>3, <1>4, <1>5 DEF Books

LEMMA CrashKeeps ==
    ASSUME Books, Crash
    PROVE  Books'
<1>1. UNCHANGED <<note, jobs, sent>> /\ Idle /\ hand' = Nobody
  BY DEF Crash, Idle
<1>2. HandTypes' /\ ~Holding'
  BY <1>1 DEF Nobody, HandTypes, Holding, Holds
<1>3. WorkerTypes' /\ ~Working'
  BY <1>1, Rested
<1>4. JobTypes' /\ SentTypes' /\ DiskIsSound'
  BY <1>1 DEF Books, JobTypes, SentTypes, DiskIsSound, Pends
<1>5. Billed'
  BY <1>1, <1>2, <1>3 DEF Books, Billed, Working, At
<1> QED
  BY <1>2, <1>3, <1>4, <1>5 DEF Books, Behind, Held

\* A note that is gone does not come back in the middle of these, and no job is touched.
PaperStep == \/ (\E x \in assoc : Correct(x)) \/ ResumeCorrection \/ Edit \/ AskAgain \/ NoteApplied
             \/ (\E j \in Jobs, sel \in SUBSET Suggestions : BeginReview(j, sel))
             \/ Recover \/ RecordMark \/ Mark \/ MarkFails \/ Complete
LEMMA PaperStepKeeps ==
    ASSUME Books, Marking, Receipted, PaperStep, StrangeGrows
    PROVE  Books'
<1>1. UNCHANGED <<jobs, worker, sent>> /\ (hand' = hand \/ hand' = [Nobody EXCEPT !.pc = "correct"])
  <2>1. CASE (\E x \in assoc : Correct(x)) \/ ResumeCorrection \/ Edit
    BY <2>1 DEF Correct, ResumeCorrection, Edit
  <2>2. CASE AskAgain \/ NoteApplied \/ Recover \/ RecordMark \/ Complete
    BY <2>2 DEF AskAgain, NoteApplied, Recover, RecordMark, Complete, evars
  <2>3. CASE (\E j \in Jobs, sel \in SUBSET Suggestions : BeginReview(j, sel)) \/ Mark \/ MarkFails
    BY <2>3 DEF BeginReview, Mark, MarkFails
  <2> QED
    BY <2>1, <2>2, <2>3 DEF PaperStep
<1>2. NoteStaysGone
  <2>1. CASE (\E x \in assoc : Correct(x)) \/ ResumeCorrection \/ Edit
    BY <2>1 DEF Correct, ResumeCorrection, Edit, NoteStaysGone
  <2>2. CASE AskAgain \/ NoteApplied \/ Recover \/ RecordMark \/ Complete
    BY <2>2 DEF AskAgain, NoteApplied, Recover, RecordMark, Complete, evars, NoteStaysGone
  <2>3. CASE \E j \in Jobs, sel \in SUBSET Suggestions : BeginReview(j, sel)
    BY <2>3 DEF BeginReview, NoteStaysGone
  <2>4. CASE Mark \/ MarkFails
    BY <2>4, Limits DEF Mark, MarkFails, Reviewing, Marking, NoteStaysGone
  <2> QED
    BY <2>1, <2>2, <2>3, <2>4 DEF PaperStep
<1>3. HandTypes' /\ HandStays
  BY <1>1 DEF Nobody, Books, HandTypes, HandStays, Holding, Holds
<1> QED
  BY <1>1, <1>2, <1>3, BooksStay

-----------------------------------------------------------------------------
(* The papers: the note, its associations, a correction, a review *)

Papers == /\ NoteTypes /\ CiteTypes /\ ReceiptTypes
          /\ Marking /\ Receipted /\ Traceable /\ Citing /\ Gone
LEMMA BooksAndPapers == ReviewInv <=> Books /\ Papers
  BY DEF ReviewInv, Types, Books, Papers
LEMMA Together == ASSUME Books', Papers' PROVE ReviewInv'
  BY DEF ReviewInv, Types, Books, Papers

\* An approval leaves the disk only when its association is recorded.
JobsTraced ==
    \A k \in Jobs : jobs[k] # None /\ jobs[k].pending # None =>
        \/ jobs'[k] # None /\ jobs'[k].pending = jobs[k].pending
        \/ <<k, jobs[k].pending.i>> \in assoc
\* A job comes back to a purged note only from the worker's memory.
Returns ==
    <<"purged", 0>> \in strange /\ note = None =>
                   /\ \A k \in Jobs : jobs'[k] # None => jobs[k] # None \/ (Working /\ k = worker.j)
                   /\ Working' => (Working /\ worker'.j = worker.j) \/ (worker'.j \in Jobs /\ jobs[worker'.j] # None)
HandGoes ==
    \/ hand' = hand \/ hand' = Nobody
    \/ hand'.pc \in {"judge", "finish"} /\ hand'.by = None
    \/ hand'.pc \in {"finish", "write"} /\ Holding /\ hand'.by = hand.by
    \/ hand'.pc = "record" /\ Holding /\ hand'.by = hand.by /\ note # None
NoPurge == StrangeGrows /\ (<<"purged", 0>> \in strange' => <<"purged", 0>> \in strange)

LEMMA ReviewGoesOn ==
    ASSUME Receipted, review' = AfterHand
    PROVE  \/ review' \in {review, "idle"}
           \/ HandIs("save") /\ IsReceipt(receipt) /\ review' \in {"noted", "resume"}
<1>1. CASE hand.by = None \/ hand'.pc # "idle"
  BY <1>1 DEF AfterHand
<1>2. CASE hand.by # None /\ hand'.pc = "idle" /\ ~HandIs("save")
  BY <1>2 DEF AfterHand
<1>3. CASE hand.by # None /\ hand'.pc = "idle" /\ HandIs("save")
  <2>1. review' \in {"noted", "resume"}
    BY <1>3 DEF AfterHand
  <2> QED
    BY <1>3, <2>1 DEF Receipted, Busy, HandIs
<1> QED
  BY <1>1, <1>2, <1>3

LEMMA TracesStay ==
    ASSUME Traceable, NoteTypes, UNCHANGED <<note, assoc>>, JobsTraced
    PROVE  Traceable'
<1> SUFFICES ASSUME note # None, NEW x \in note.has, x \notin assoc
             PROVE  jobs'[x[1]] # None /\ jobs'[x[1]].pending # None /\ jobs'[x[1]].pending.i = x[2]
  BY DEF Traceable
<1>1. jobs[x[1]] # None /\ jobs[x[1]].pending # None /\ jobs[x[1]].pending.i = x[2]
  BY DEF Traceable
<1>2. x \in Marks
  BY DEF NoteTypes, Versions
<1>3. x[1] \in Jobs /\ x = <<x[1], x[2]>>
  BY <1>2 DEF Marks
<1> QED
  BY <1>1, <1>3 DEF JobsTraced

LEMMA PapersStay ==
    ASSUME Books, Papers, UNCHANGED <<note, ev, assoc, others, fix, receipt>>, review' = AfterHand, NoPurge, JobsTraced, Returns, HandGoes
    PROVE  Papers'
<1>1. NoteTypes' /\ CiteTypes' /\ ReceiptTypes'
  BY DEF Papers, NoteTypes, CiteTypes, ReceiptTypes, IsReceipt
<1>2. \/ review' \in {review, "idle"}
      \/ HandIs("save") /\ IsReceipt(receipt) /\ review' \in {"noted", "resume"}
  BY ReviewGoesOn DEF Papers
<1>3. Marking'
  BY <1>2 DEF Papers, Marking
<1>4. Nobody.pc = "idle" /\ Nobody.by = None
  BY DEF Nobody
<1>5. Receipted'
  <2>1. review' # "idle" => IsReceipt(receipt)'
    BY <1>2 DEF Papers, Receipted, IsReceipt
  <2>2. /\ Holding' /\ hand'.by # None => note' = None \/ IsReceipt(receipt)'
        /\ Busy' /\ hand'.by # None => IsReceipt(receipt)'
        /\ ~Holding' => hand'.by = None
    BY <1>4 DEF Papers, Receipted, IsReceipt, Holding, Holds, Busy, HandGoes
  <2> QED
    BY <2>1, <2>2 DEF Receipted
<1>6. Traceable'
  BY TracesStay DEF Papers
<1>7. Citing'
  BY <1>4 DEF Papers, Citing, HandIs, HandGoes
<1>8. Gone'
  <2> SUFFICES ASSUME <<"purged", 0>> \in strange'
               PROVE  Gone'
    BY DEF Gone
  <2>1. /\ note = None /\ receipt = None /\ fix = None /\ assoc = {} /\ review = "idle" /\ ~Busy
        /\ Working => <<"returns", worker.j>> \in strange
        /\ \A j \in Jobs : jobs[j] # None => <<"returns", j>> \in strange
    BY DEF Papers, Gone, NoPurge
  <2>2. review' = "idle" /\ ~Busy'
    BY <1>2, <1>4, <2>1 DEF Busy, HandIs, HandGoes
  <2>3. \A j \in Jobs : jobs'[j] # None => <<"returns", j>> \in strange'
    BY <2>1 DEF Returns, NoPurge, StrangeGrows
  <2>4. Working' => <<"returns", worker'.j>> \in strange'
    BY <2>1 DEF Returns, NoPurge, StrangeGrows
  <2> QED
    BY <2>1, <2>2, <2>3, <2>4 DEF Gone
<1> QED
  BY <1>1, <1>3, <1>5, <1>6, <1>7, <1>8 DEF Papers

LEMMA SavesTrace ==
    ASSUME JobTypes, NEW j \in Jobs, NEW job, Save(j, job), jobs[j] # None => jobs[j].pending = None
    PROVE  JobsTraced
  BY DEF JobTypes, Save, JobsTraced

LEMMA SavesReturn ==
    ASSUME JobTypes, NEW j \in Jobs, NEW job, Save(j, job),
           note = None => jobs[j] # None \/ (Working /\ j = worker.j),
           Working' => (Working /\ worker'.j = worker.j) \/ (worker'.j \in Jobs /\ jobs[worker'.j] # None)
    PROVE  Returns
  BY DEF JobTypes, Save, Returns

\* Nothing is pending on a job in another state.
LEMMA NotPending ==
    ASSUME Books, NEW j \in Jobs, jobs[j] # None, jobs[j].state # "applying"
    PROVE  jobs[j].pending = None
  BY DEF Books, DiskIsSound, Pends

NothingElse == UNCHANGED <<note, ev, assoc, others, fix, receipt>> /\ review' = AfterHand /\ NoPurge

LEMMA WorkerPapers ==
    ASSUME ReviewInv, WorkerSteps \/ Rejected, NothingElse
    PROVE  Papers'
<1>1. Books /\ Papers /\ JobTypes
  BY BooksAndPapers DEF Books
<1>2. HandGoes
  BY DEF HandGoes, WorkerSteps, Pick, Start, Gather, Answered, Rejected
<1>3. CASE \E j \in Jobs : Pick(j)
  <2>1. PICK j \in Jobs : Pick(j)
    BY <1>3
  <2>2. jobs[j] # None /\ jobs[j].state # "applying"
    BY <2>1 DEF Pick, Runnable, Is
  <2>3. \E job : Save(j, job)
    BY <2>1 DEF Pick
  <2>4. Working' => worker'.j = j
    BY <2>1 DEF Pick, Working, At
  <2>5. JobsTraced /\ Returns
    BY <1>1, <2>2, <2>3, <2>4, NotPending, SavesTrace, SavesReturn
  <2> QED
    BY <1>1, <1>2, <2>5, PapersStay DEF NothingElse
<1>4. CASE Start \/ Gather \/ Answered \/ Rejected
  <2>1. Working /\ worker.j \in Jobs
    BY <1>1, <1>4, WorkersJob DEF Start, Gather, Answered, Rejected, At, Working
  <2>2. jobs[worker.j] # None => jobs[worker.j].pending = None
    BY <1>1, <2>1, NotPending DEF Books, Behind, At
  <2>3. Working' => worker'.j = worker.j
    <3>1. CASE Start \/ Gather
      BY <1>1, <3>1, Rested DEF Start, Gather, Settle, Idle, Books, WorkerTypes
    <3>2. CASE Answered \/ Rejected
      BY <3>2, Rested DEF Answered, Rejected, Settle, Idle
    <3> QED
      BY <1>4, <3>1, <3>2, Zenon
  <2>4. UNCHANGED jobs \/ \E job : Save(worker.j, job)
    BY <1>4 DEF Start, Gather, Answered, Rejected, Settle
  <2>5. JobsTraced /\ Returns
    <3>1. CASE UNCHANGED jobs
      BY <2>1, <2>3, <3>1 DEF JobsTraced, Returns
    <3>2. CASE \E job : Save(worker.j, job)
      BY <1>1, <2>1, <2>2, <2>3, <3>2, SavesTrace, SavesReturn
    <3> QED
      BY <2>4, <3>1, <3>2
  <2> QED
    BY <1>1, <1>2, <2>5, PapersStay DEF NothingElse
<1> QED
  BY <1>3, <1>4 DEF WorkerSteps

LEMMA QueuePapers ==
    ASSUME ReviewInv, NEW force \in BOOLEAN, QueueNote(force), UNCHANGED <<worker, hand>>, NothingElse
    PROVE  Papers'
<1>1. Books /\ Papers /\ JobTypes /\ HandGoes
  BY BooksAndPapers DEF Books, HandGoes
<1>2. note # None
  BY DEF QueueNote, Eligible
<1>3. JobsTraced /\ Returns
  <2>1. CASE UNCHANGED jobs
    BY <1>2, <2>1 DEF JobsTraced, Returns
  <2>2. CASE Free # {} /\ Save(NextId, NewJob(note))
    <3>1. NextId \in Jobs /\ jobs[NextId] = None
      BY <2>2 DEF NextId, Free
    <3> QED
      BY <1>1, <1>2, <2>2, <3>1, SavesTrace DEF Returns
  <2> QED
    BY <2>1, <2>2 DEF QueueNote
<1> QED
  BY <1>1, <1>3, PapersStay DEF NothingElse

\* A person acts on a job that is not being approved.
LEMMA DecidingPapers ==
    ASSUME ReviewInv, NEW j \in Jobs, NEW job, Save(j, job), Is(j, {"failed", "suggested"}),
           UNCHANGED <<worker, hand>>, NothingElse
    PROVE  Papers'
<1>1. Books /\ Papers /\ JobTypes /\ HandGoes
  BY BooksAndPapers DEF Books, HandGoes
<1>2. jobs[j] # None /\ jobs[j].pending = None
  BY <1>1, NotPending DEF Is
<1>3. Working' => Working /\ worker'.j = worker.j
  BY DEF Working
<1>4. JobsTraced /\ Returns
  BY <1>1, <1>2, <1>3, SavesTrace, SavesReturn
<1> QED
  BY <1>1, <1>4, PapersStay DEF NothingElse

LEMMA HoldingPapers ==
    ASSUME ReviewInv, UNCHANGED <<jobs, worker>>, HandGoes, NothingElse
    PROVE  Papers'
<1>1. JobsTraced /\ Returns
  BY DEF JobsTraced, Returns, Working
<1> QED
  BY <1>1, BooksAndPapers, PapersStay DEF NothingElse

LEMMA PeoplePapers ==
    ASSUME ReviewInv, People, NothingElse
    PROVE  Papers'
<1>1. PICK j \in Jobs : \/ Retry(j) \/ RetryFailed(j) \/ RejectRemaining(j) \/ AskResume(j)
                        \/ \E i \in Suggestions : Reject(j, i) \/ AskApproval(j, i)
  BY DEF People
<1>2. CASE Retry(j)
  BY <1>2, QueuePapers DEF Retry
<1>3. CASE RetryFailed(j)
  <2>1. Is(j, {"failed", "suggested"}) /\ UNCHANGED <<worker, hand>> /\ \E job : Save(j, job)
    BY <1>3 DEF RetryFailed, Is
  <2> QED
    BY <2>1, DecidingPapers
<1>4. CASE RejectRemaining(j)
  <2>1. Is(j, {"failed", "suggested"}) /\ UNCHANGED <<worker, hand>> /\ \E job : Save(j, job)
    BY <1>4 DEF RejectRemaining, Is
  <2> QED
    BY <2>1, DecidingPapers
<1>5. CASE \E i \in Suggestions : Reject(j, i)
  <2>1. Is(j, {"failed", "suggested"}) /\ UNCHANGED <<worker, hand>> /\ \E job : Save(j, job)
    BY <1>5 DEF Reject, Is
  <2> QED
    BY <2>1, DecidingPapers
<1>6. CASE AskResume(j) \/ \E i \in Suggestions : AskApproval(j, i)
  <2>1. UNCHANGED <<jobs, worker>> /\ hand'.pc \in {"judge", "finish"} /\ hand'.by = None
    BY <1>6 DEF AskResume, AskApproval, Resume, Approve
  <2> QED
    BY <2>1, HoldingPapers DEF HandGoes
<1> QED
  BY <1>1, <1>2, <1>3, <1>4, <1>5, <1>6

LEMMA JudgePapers ==
    ASSUME ReviewInv, Judge, NothingElse
    PROVE  Papers'
<1>1. Books /\ Papers /\ JobTypes
  BY BooksAndPapers DEF Books
<1>2. /\ hand.j \in Jobs /\ Holding /\ UNCHANGED worker
      /\ jobs[hand.j] = None => note = None
      /\ jobs[hand.j] # None => jobs[hand.j].state # "applying"
  BY <1>1 DEF Judge, HandIs, Holding, Holds, Books, HandTypes, Held
<1>3. HandGoes
  BY <1>1, <1>2 DEF Judge, Unlock, HandGoes, Books, HandTypes
<1>4. CASE UNCHANGED jobs
  BY <1>2, <1>3, <1>4, HoldingPapers
<1>5. CASE note # None /\ \E job : Save(hand.j, job)
  <2>1. JobsTraced /\ Returns
    <3>1. Working' => Working /\ worker'.j = worker.j
      BY <1>2 DEF Working
    <3> QED
      BY <1>1, <1>2, <1>5, <3>1, NotPending, SavesTrace, SavesReturn
  <2> QED
    BY <1>1, <1>3, <2>1, PapersStay DEF NothingElse
<1> QED
  BY <1>4, <1>5 DEF Judge

LEMMA SaveJobPapers ==
    ASSUME ReviewInv, SaveJob, NothingElse
    PROVE  Papers'
<1>1. Books /\ Papers /\ JobTypes
  BY BooksAndPapers DEF Books
<1>2. /\ HandIs("save") /\ Holding /\ UNCHANGED worker /\ hand' = Nobody
      /\ \E job : Save(hand.j, job)
  BY DEF SaveJob, HandIs, Holding, Holds, Unlock
<1>3. /\ hand.j \in Jobs /\ <<hand.j, hand.i>> \in assoc /\ assoc # {}
      /\ jobs[hand.j] = None => note = None
      /\ jobs[hand.j] # None => jobs[hand.j].pending.i = hand.i
  BY <1>1, <1>2 DEF HandIs, Books, HandTypes, Held, Papers, Citing
<1>4. JobsTraced
  BY <1>1, <1>2, <1>3 DEF JobTypes, Save, JobsTraced
<1>5. Returns
  BY <1>1, <1>2 DEF Returns, Papers, Gone, Busy, HandIs
<1>6. HandGoes
  BY <1>2 DEF HandGoes
<1> QED
  BY <1>1, <1>4, <1>5, <1>6, PapersStay DEF NothingElse

LEMMA FinishPapers ==
    ASSUME ReviewInv, Finish, NothingElse
    PROVE  Papers'
<1>1. hand' = Nobody \/ (hand' = [hand EXCEPT !.pc = "write"]) \/ (note # None /\ hand' = [hand EXCEPT !.pc = "record"])
  BY DEF Finish, Unlock
<1>2. Holding /\ UNCHANGED <<jobs, worker>>
  BY DEF Finish, HandIs, Holding, Holds
<1>3. HandGoes
  BY <1>1, <1>2 DEF HandGoes, ReviewInv, Types, HandTypes
<1> QED
  BY <1>2, <1>3, HoldingPapers

-----------------------------------------------------------------------------
(* The steps that change a paper *)

LEMMA SameTraces ==
    ASSUME Traceable, UNCHANGED jobs, assoc \subseteq assoc', note' # None => note # None /\ note'.has \subseteq note.has
    PROVE  Traceable'
  BY DEF Traceable

LEMMA RecordPapers ==
    ASSUME ReviewInv, Record, UNCHANGED <<receipt, strange>>, review' = AfterHand
    PROVE  Papers'
<1>1. Books /\ Papers
  BY BooksAndPapers
<1>2. /\ hand.pc = "record" /\ hand.j \in Jobs /\ hand.i \in Suggestions /\ UNCHANGED <<note, ev, others, fix, jobs, worker>>
      /\ assoc' = assoc \cup {<<hand.j, hand.i>>} /\ hand' = [hand EXCEPT !.pc = "save"]
  BY <1>1 DEF Record, HandIs, Books, HandTypes, Holding, Holds
<1>3. hand'.pc = "save" /\ hand'.by = hand.by /\ hand'.j = hand.j /\ hand'.i = hand.i
  BY <1>1, <1>2 DEF Books, HandTypes
<1>4. review' = review
  BY <1>3 DEF AfterHand
<1>5. <<hand.j, hand.i>> \in Marks
  BY <1>2 DEF Marks
<1>6. NoteTypes' /\ CiteTypes' /\ ReceiptTypes' /\ Marking'
  BY <1>1, <1>2, <1>4, <1>5 DEF Papers, NoteTypes, CiteTypes, ReceiptTypes, IsReceipt, Marking
<1>7. Receipted'
  BY <1>1, <1>2, <1>3, <1>4 DEF Papers, Receipted, IsReceipt, Busy, Holding, Holds
<1>8. Traceable'
  BY <1>1, <1>2, SameTraces DEF Papers
<1>9. Citing'
  BY <1>1, <1>2, <1>3 DEF Papers, Citing, HandIs
<1>10. Gone'
  BY <1>1, <1>2 DEF Papers, Gone, Busy
<1> QED
  BY <1>6, <1>7, <1>8, <1>9, <1>10 DEF Papers

LEMMA WritePapers ==
    ASSUME ReviewInv, Write \/ WriteFails, UNCHANGED <<receipt, strange>>, review' = AfterHand
    PROVE  Papers'
<1>1. Books /\ Papers
  BY BooksAndPapers
<1> DEFINE pending == hand.job.pending
<1>2. /\ hand.pc = "write" /\ Holding /\ UNCHANGED <<ev, assoc, others, fix, jobs, worker>>
      /\ hand' = Nobody \/ (note = pending.before /\ hand' = [hand EXCEPT !.pc = "record"])
      /\ note' = note \/ (note = pending.before /\ note' = pending.after)
  BY DEF Write, WriteFails, HandIs, Unlock, Holding, Holds
<1>3. /\ hand.j \in Jobs /\ pending \in Pendings /\ pending.before # None /\ hand.i = pending.i
      /\ pending.after.has = pending.before.has \cup {<<hand.j, hand.i>>}
      /\ jobs[hand.j] = None => note = None
      /\ jobs[hand.j] # None => jobs[hand.j] = hand.job
  BY <1>1, <1>2 DEF Books, HandTypes, Held, HandIs, Pends
<1>4. pending # None /\ pending.after \in Versions /\ pending.after # None
  BY <1>3, Limits DEF Pendings
<1>5. hand' = Nobody \/ (hand'.pc = "record" /\ hand'.by = hand.by /\ note # None)
  BY <1>1, <1>2, <1>3 DEF Books, HandTypes
<1>6. review' \in {review, "idle"}
  BY <1>2 DEF AfterHand, HandIs
<1>7. Nobody.pc = "idle" /\ Nobody.by = None
  BY DEF Nobody
<1>8. NoteTypes' /\ CiteTypes' /\ ReceiptTypes' /\ Marking'
  BY <1>1, <1>2, <1>4, <1>6 DEF Papers, NoteTypes, CiteTypes, ReceiptTypes, IsReceipt, Marking
<1>9. Receipted'
  BY <1>1, <1>2, <1>5, <1>6, <1>7 DEF Papers, Receipted, IsReceipt, Busy, Holding, Holds
<1>10. Traceable'
  <2>1. CASE note' = note
    BY <1>1, <1>2, <2>1, SameTraces DEF Papers
  <2>2. CASE note = pending.before /\ note' = pending.after
    <3>1. note # None /\ jobs[hand.j] = hand.job /\ jobs[hand.j] # None
      BY <1>3, <2>2
    <3>2. SUFFICES ASSUME NEW x \in note'.has, x \notin assoc
                   PROVE  jobs[x[1]] # None /\ jobs[x[1]].pending # None /\ jobs[x[1]].pending.i = x[2]
      BY <1>2 DEF Traceable
    <3>3. CASE x \in note.has
      BY <1>1, <3>1, <3>2, <3>3 DEF Papers, Traceable
    <3>4. CASE x = <<hand.j, hand.i>>
      BY <1>3, <1>4, <3>1, <3>4
    <3> QED
      BY <1>3, <2>2, <3>2, <3>3, <3>4
  <2> QED
    BY <1>2, <2>1, <2>2
<1>11. Citing'
  BY <1>1, <1>2, <1>5, <1>7 DEF Papers, Citing, HandIs
<1>12. Gone'
  BY <1>1, <1>2, <1>3, <1>5, <1>6, <1>7 DEF Papers, Gone, Busy, Working
<1> QED
  BY <1>8, <1>9, <1>10, <1>11, <1>12 DEF Papers

LEMMA CorrectionPapers ==
    ASSUME ReviewInv, CheckCorrection \/ PatchBack \/ PatchFails \/ Uncite \/ CloseCorrection,
           UNCHANGED <<receipt, strange>>, review' = AfterHand
    PROVE  Papers'
<1>1. Books /\ Papers
  BY BooksAndPapers
<1>2. /\ hand.pc \in {"correct", "patch", "uncite", "close"} /\ UNCHANGED <<ev, jobs, worker>>
      /\ \/ hand' = Nobody
         \/ \E pc \in {"patch", "uncite", "close"} :
              hand' = [hand EXCEPT !.pc = pc] \/ hand' = [hand EXCEPT !.pc = pc, !.map = others]
  BY DEF CheckCorrection, PatchBack, PatchFails, Uncite, CloseCorrection, HandIs, Unlock
<1>3. hand' = Nobody \/ (hand'.pc \in {"patch", "uncite", "close"} /\ hand'.by = hand.by)
  BY <1>1, <1>2 DEF Books, HandTypes
<1>4. review' \in {review, "idle"}
  BY <1>2 DEF AfterHand, HandIs
<1>5. Nobody.pc = "idle" /\ Nobody.by = None
  BY DEF Nobody
<1>6. ReceiptTypes' /\ Marking'
  BY <1>1, <1>4 DEF Papers, ReceiptTypes, IsReceipt, Marking
<1>7. CASE CheckCorrection \/ PatchBack \/ PatchFails
  <2>1. UNCHANGED <<assoc, others, fix>> /\ hand.pc \in {"correct", "patch"}
    BY <1>7 DEF CheckCorrection, PatchBack, PatchFails, HandIs
  <2>2. \/ note' = note /\ hand' = Nobody
        \/ /\ fix # None /\ assoc \in {fix.had, fix.had \ {fix.x}} /\ note \in {fix.before, fix.after}
           /\ \/ note' = note /\ hand'.pc = "patch"
              \/ note' = fix.after /\ (hand'.pc = "uncite" \/ hand' = Nobody)
    <3>1. CASE CheckCorrection
      BY <1>1, <3>1 DEF CheckCorrection, Unlock, Books, HandTypes
    <3>2. CASE PatchBack
      BY <1>1, <3>2 DEF PatchBack, Unlock, Books, HandTypes, Papers, Citing, HandIs
    <3>3. CASE PatchFails
      BY <1>1, <3>3 DEF PatchFails, Unlock, Papers, Citing, HandIs
    <3> QED
      BY <1>7, <3>1, <3>2, <3>3
  <2>3. fix # None => fix \in Fixes /\ fix.after \in Versions \cup {None} /\ fix.before \in Versions \cup {None}
    BY <1>1 DEF Papers, CiteTypes, Fixes
  <2>4. note' # None => \/ note' = note /\ (hand' = Nobody \/ hand'.pc = "patch")
                        \/ note # None /\ note'.has = fix.before.has \ {fix.x} /\ note'.has \subseteq note.has
    BY <1>1, <2>2, <2>3, Limits DEF Papers, Citing
  <2>5. NoteTypes' /\ CiteTypes'
    BY <1>1, <1>2, <2>1, <2>2, <2>3 DEF Papers, NoteTypes, CiteTypes
  <2>6. Traceable'
    BY <1>1, <1>2, <2>1, <2>4, SameTraces DEF Papers
  <2>7. Citing'
    BY <1>1, <1>3, <1>5, <2>1, <2>2, <2>3, <2>4 DEF Papers, Citing, HandIs
  <2>8. note = None => note' = None
    BY <2>4
  <2>9. Receipted'
    BY <1>1, <1>3, <1>4, <1>5, <2>1 DEF Papers, Receipted, IsReceipt, Busy, Holding, Holds, ReceiptTypes
  <2>10. Gone'
    BY <1>1, <1>2, <1>3, <1>4, <1>5, <2>1, <2>2, <2>8 DEF Papers, Gone, Busy, Working
  <2> QED
    BY <1>6, <2>5, <2>6, <2>7, <2>9, <2>10 DEF Papers
<1>8. CASE Uncite \/ CloseCorrection
  <2>1. /\ Busy /\ hand.pc \in {"uncite", "close"} /\ fix \in Fixes /\ UNCHANGED note
        /\ hand.pc = "uncite" => /\ assoc \in {fix.had, fix.had \ {fix.x}} /\ fix' = fix
                                 /\ assoc' = fix.had \ {fix.x} /\ hand'.pc = "close"
                                 /\ (note # None => fix.x \notin note.has)
        /\ hand.pc = "close" => /\ fix' = [fix EXCEPT !.open = FALSE, !.before = None, !.after = None, !.had = {}]
                                /\ assoc' = assoc /\ hand' = Nobody
    BY <1>1, <1>8 DEF Uncite, CloseCorrection, HandIs, Busy, Papers, Citing, Books, HandTypes, Unlock
  <2>2. fix' \in Fixes /\ (hand.pc = "close" => fix'.before = None /\ fix'.after = None)
    <3>1. CASE hand.pc = "close"
      BY <2>1, <3>1 DEF Fixes
    <3> QED
      BY <2>1, <3>1
  <2>3. NoteTypes' /\ CiteTypes'
    <3>1. others' \in BOOLEAN
      BY <1>1, <1>8 DEF Uncite, CloseCorrection, Papers, CiteTypes, Books, HandTypes
    <3>2. fix.had \subseteq Marks /\ fix.x \in Marks
      BY <2>1 DEF Fixes
    <3>3. assoc' \subseteq Marks
      BY <1>1, <2>1, <3>2 DEF Papers, CiteTypes
    <3> QED
      BY <1>1, <1>2, <2>1, <2>2, <3>1, <3>3 DEF Papers, NoteTypes, CiteTypes
  <2>4. note # None => \A x \in note.has : x \in assoc => x \in assoc'
    BY <2>1
  <2>5. Traceable'
    BY <1>1, <1>2, <2>1, <2>4 DEF Papers, Traceable
  <2>6. Citing'
    BY <1>1, <1>3, <1>5, <2>1, <2>2 DEF Papers, Citing, HandIs
  <2>7. Receipted'
    BY <1>1, <1>3, <1>4, <1>5, <2>1 DEF Papers, Receipted, IsReceipt, Busy, Holding, Holds, ReceiptTypes
  <2>8. Gone'
    BY <1>1, <2>1 DEF Papers, Gone
  <2> QED
    BY <1>6, <2>3, <2>5, <2>6, <2>7, <2>8 DEF Papers
<1> QED
  BY <1>7, <1>8

LEMMA CorrectPapers ==
    ASSUME ReviewInv, ResumeCorrection \/ \E x \in assoc : Correct(x), NoPurge, UNCHANGED receipt, review' = AfterHand
    PROVE  Papers'
<1>1. Books /\ Papers
  BY BooksAndPapers
<1>2. /\ hand.pc = "idle" /\ hand.by = None /\ UNCHANGED <<note, ev, jobs, assoc, others, worker>>
      /\ hand' = [Nobody EXCEPT !.pc = "correct"]
  BY <1>1 DEF ResumeCorrection, Correct, Lock, Papers, Receipted, Holding, Holds
<1>3. hand'.pc = "correct" /\ hand'.by = None /\ review' = review
  BY <1>2 DEF Nobody, AfterHand
<1>4. CASE ResumeCorrection
  <2>1. fix' = fix /\ fix # None
    BY <1>4 DEF ResumeCorrection
  <2>2. NoteTypes' /\ CiteTypes' /\ ReceiptTypes' /\ Marking'
    BY <1>1, <1>2, <1>3, <2>1 DEF Papers, NoteTypes, CiteTypes, ReceiptTypes, IsReceipt, Marking
  <2>3. Citing'
    BY <1>1, <1>2, <1>3, <2>1 DEF Papers, Citing, HandIs
  <2>4. Gone'
    BY <1>1, <2>1 DEF Papers, Gone, NoPurge
  <2>5. Traceable' /\ Receipted'
    BY <1>1, <1>2, <1>3, SameTraces DEF Papers, Receipted, IsReceipt, Busy, Holding, Holds
  <2> QED
    BY <2>2, <2>3, <2>4, <2>5 DEF Papers
<1>5. CASE \E x \in assoc : Correct(x)
  <2>1. PICK x \in assoc : Correct(x)
    BY <1>5
  <2> DEFINE after == [note EXCEPT !.has = @ \ {x}]
  <2>2. note # None /\ note \in Versions /\ x \in Marks /\ assoc \subseteq Marks
    BY <1>1, <2>1 DEF Correct, Papers, NoteTypes, CiteTypes
  <2>3. after \in Versions /\ after.has = note.has \ {x}
    BY <2>2 DEF Versions
  <2>4. fix' = [x |-> x, before |-> note, after |-> after, had |-> assoc, open |-> TRUE]
    BY <2>1 DEF Correct
  <2> HIDE DEF after
  <2>5. fix' \in Fixes /\ fix'.before = note /\ fix'.after = after /\ fix'.x = x
    BY <2>2, <2>3, <2>4 DEF Fixes
  <2>6. NoteTypes' /\ CiteTypes' /\ ReceiptTypes' /\ Marking'
    BY <1>1, <1>2, <1>3, <2>5 DEF Papers, NoteTypes, CiteTypes, ReceiptTypes, IsReceipt, Marking
  <2>7. Citing'
    BY <1>1, <1>2, <1>3, <2>2, <2>3, <2>5 DEF Citing, HandIs
  <2>8. Gone'
    BY <1>1, <2>2 DEF Papers, Gone, NoPurge
  <2>9. Traceable' /\ Receipted'
    BY <1>1, <1>2, <1>3, SameTraces DEF Papers, Receipted, IsReceipt, Busy, Holding, Holds
  <2> QED
    BY <2>6, <2>7, <2>8, <2>9 DEF Papers
<1> QED
  BY <1>4, <1>5

\* The note alone: others edit it, or a review marks it.
LEMMA NotePapers ==
    ASSUME ReviewInv, UNCHANGED <<jobs, assoc, fix, worker, hand, receipt>>, NoPurge, NoteTypes', CiteTypes',
           review' = "mark" => review = "mark", review' # "idle" => review # "idle",
           note' # None => note # None /\ note'.has = note.has
    PROVE  Papers'
<1>1. Books /\ Papers
  BY BooksAndPapers
<1>2. ReceiptTypes' /\ Marking'
  BY <1>1 DEF Papers, ReceiptTypes, IsReceipt, Marking
<1>3. Receipted'
  BY <1>1 DEF Papers, Receipted, IsReceipt, Busy, Holding
<1>4. Traceable'
  BY <1>1, SameTraces DEF Papers
<1>5. Citing'
  BY <1>1 DEF Papers, Citing, HandIs
<1>6. Gone'
  BY <1>1 DEF Papers, Gone, NoPurge, StrangeGrows, Busy, Working
<1> QED
  BY <1>2, <1>3, <1>4, <1>5, <1>6 DEF Papers

LEMMA EditPapers ==
    ASSUME ReviewInv, Edit, UNCHANGED <<receipt, review>>, NoPurge
    PROVE  Papers'
<1>1. note \in Versions /\ note # None /\ ev \in Nat /\ UNCHANGED <<jobs, assoc, others, fix, worker, hand>>
  BY DEF ReviewInv, Types, NoteTypes, Edit
<1>2. \/ note' = None /\ ev' = ev
      \/ note' = [note EXCEPT !.ver = @ + 1] /\ ev' = ev
      \/ note' = [note EXCEPT !.reviewed = TRUE] /\ ev' = ev
      \/ note' = note /\ ev' = ev + 1
  BY DEF Edit
<1>3. NoteTypes' /\ (note' # None => note'.has = note.has)
  <2>1. CASE note' = [note EXCEPT !.ver = @ + 1] /\ ev' = ev
    BY <1>1, <2>1 DEF NoteTypes, Versions
  <2>2. CASE note' = [note EXCEPT !.reviewed = TRUE] /\ ev' = ev
    BY <1>1, <2>2 DEF NoteTypes, Versions
  <2>3. CASE note' = None /\ ev' = ev
    BY <1>1, <2>3 DEF NoteTypes
  <2>4. CASE note' = note /\ ev' = ev + 1
    BY <1>1, <2>4 DEF NoteTypes
  <2> QED
    BY <1>2, <2>1, <2>2, <2>3, <2>4
<1>4. CiteTypes'
  BY <1>1 DEF ReviewInv, Types, CiteTypes
<1> QED
  BY <1>1, <1>3, <1>4, NotePapers

LEMMA MarkPapers ==
    ASSUME ReviewInv, Mark \/ MarkFails
    PROVE  Papers'
<1>1. /\ review = "mark" /\ UNCHANGED <<ev, jobs, assoc, others, fix, worker, hand, receipt, strange>>
      /\ review' \in {"idle", "complete"}
      /\ note' = note \/ (note = receipt.expected /\ note' = receipt.marked)
  BY DEF Mark, MarkFails, Reviewing, GiveUp
<1>2. receipt.expected \in Versions /\ receipt.marked \in Versions /\ receipt.marked.has = receipt.expected.has
  BY <1>1 DEF ReviewInv, Marking
<1>3. NoteTypes' /\ CiteTypes'
  BY <1>1, <1>2 DEF NoteTypes, CiteTypes, ReviewInv, Types
<1> QED
  BY <1>1, <1>2, <1>3, NotePapers, Limits DEF NoPurge, StrangeGrows

\* A review goes on: it keeps its receipt.
LEMMA ReceiptPapers ==
    ASSUME ReviewInv, UNCHANGED <<note, ev, assoc, others, fix>>, JobsTraced, StrangeGrows,
           <<"purged", 0>> \in strange' => <<"purged", 0>> \in strange,
           hand' = hand \/ hand'.pc \in {"judge", "finish"},
           review # "idle" \/ receipt # None \/ note # None,
           IsReceipt(receipt'), Marking'
    PROVE  Papers'
<1>1. Books /\ Papers
  BY BooksAndPapers
<1>2. NoteTypes' /\ CiteTypes' /\ ReceiptTypes'
  BY <1>1 DEF Papers, NoteTypes, CiteTypes, ReceiptTypes, IsReceipt
<1>3. Receipted'
  BY <1>1 DEF Papers, Receipted, IsReceipt, Busy, Holding, Holds
<1>4. Traceable'
  BY <1>1, TracesStay DEF Papers
<1>5. Citing'
  BY <1>1 DEF Papers, Citing, HandIs
<1>6. Gone'
  BY <1>1 DEF Papers, Gone
<1> QED
  BY <1>2, <1>3, <1>4, <1>5, <1>6 DEF Papers

\* The receipt with other entries.
LEMMA Receipts ==
    ASSUME IsReceipt(receipt), NEW a, NEW e, NEW m
    PROVE  /\ IsReceipt([receipt EXCEPT !.applied = a, !.expected = e])
           /\ LET r == [receipt EXCEPT !.marked = m]
              IN  IsReceipt(r) /\ r.marked = m /\ r.expected = receipt.expected
           /\ IsReceipt([receipt EXCEPT !.open = FALSE, !.expected = None, !.marked = None])
  BY DEF IsReceipt

LEMMA BeginPapers ==
    ASSUME ReviewInv, NEW j \in Jobs, NEW sel \in SUBSET Suggestions, BeginReview(j, sel)
    PROVE  Papers'
<1>1. /\ UNCHANGED <<note, ev, jobs, assoc, others, fix, hand>> /\ note # None /\ review' = "resume"
      /\ receipt' = [open |-> TRUE, expected |-> note, j |-> j, sel |-> sel, applied |-> {}, marked |-> None]
      /\ StrangeGrows /\ (<<"purged", 0>> \in strange' => <<"purged", 0>> \in strange)
  BY DEF BeginReview, Receive, StrangeGrows
<1>2. IsReceipt(receipt')
  BY <1>1 DEF IsReceipt
<1> QED
  BY <1>1, <1>2, ReceiptPapers DEF JobsTraced, Marking

LEMMA ReviewPapers ==
    ASSUME ReviewInv, AskAgain \/ ResumePending \/ Recover \/ ApplyNext \/ NoteApplied \/ RecordMark \/ Complete
    PROVE  Papers'
<1>1. UNCHANGED <<note, ev, jobs, assoc, others, fix, strange>>
  <2>1. CASE AskAgain \/ ResumePending \/ Recover \/ ApplyNext
    BY <2>1 DEF AskAgain, ResumePending, Recover, ApplyNext, evars, Resume, Approve
  <2>2. CASE NoteApplied \/ RecordMark \/ Complete
    BY <2>2 DEF NoteApplied, RecordMark, Complete, evars
  <2> QED
    BY <2>1, <2>2
<1>2. JobsTraced /\ StrangeGrows /\ (<<"purged", 0>> \in strange' => <<"purged", 0>> \in strange)
  BY <1>1 DEF JobsTraced, StrangeGrows
<1>3. hand' = hand \/ hand'.pc \in {"judge", "finish"}
  <2>1. CASE AskAgain \/ Recover \/ NoteApplied \/ RecordMark \/ Complete
    BY <2>1 DEF AskAgain, Recover, NoteApplied, RecordMark, Complete, evars
  <2>2. CASE ResumePending
    BY <2>2 DEF ResumePending, Resume
  <2>3. CASE ApplyNext
    BY <2>3 DEF ApplyNext, Approve, evars
  <2> QED
    BY <2>1, <2>2, <2>3
<1>4. IsReceipt(receipt) /\ (review # "idle" \/ receipt # None)
  BY DEF AskAgain, ResumePending, Recover, ApplyNext, NoteApplied, RecordMark, Complete, Reviewing,
         ReviewInv, Receipted, Types, ReceiptTypes
<1>5. IsReceipt(receipt')
  <2>1. CASE AskAgain \/ ResumePending \/ ApplyNext
    BY <1>4, <2>1 DEF AskAgain, ResumePending, ApplyNext
  <2>2. CASE Recover
    <3>1. receipt' = receipt \/ \E a, e : receipt' = [receipt EXCEPT !.applied = a, !.expected = e]
      BY <2>2 DEF Recover, Receive
    <3>2. ASSUME NEW a, NEW e, receipt' = [receipt EXCEPT !.applied = a, !.expected = e]
          PROVE  IsReceipt(receipt')
      BY <1>4, <3>2 DEF IsReceipt
    <3> QED
      BY <1>4, <3>1, <3>2
  <2>3. CASE NoteApplied
    <3>1. \E a, e : receipt' = [receipt EXCEPT !.applied = a, !.expected = e]
      BY <2>3, Zenon DEF NoteApplied, Receive
    <3>2. ASSUME NEW a, NEW e, receipt' = [receipt EXCEPT !.applied = a, !.expected = e]
          PROVE  IsReceipt(receipt')
      BY <1>4, <3>2 DEF IsReceipt
    <3> QED
      BY <1>4, <3>1, <3>2
  <2>4. CASE RecordMark
    <3>1. receipt' = receipt \/ \E m : receipt' = [receipt EXCEPT !.marked = m]
      BY <2>4 DEF RecordMark, Receive
    <3> QED
      BY <1>4, <3>1, Receipts
  <2>5. CASE Complete
    BY <1>4, <2>5, Receipts DEF Complete, Receive
  <2> QED
    BY <2>1, <2>2, <2>3, <2>4, <2>5
<1>6. Marking'
  <2>1. CASE AskAgain \/ ResumePending \/ Recover \/ ApplyNext
    BY <2>1 DEF AskAgain, ResumePending, Recover, ApplyNext, GiveUp, Marking
  <2>2. CASE NoteApplied \/ Complete
    BY <2>2 DEF NoteApplied, Complete, Marking
  <2>3. CASE RecordMark /\ review' = "mark"
    <3>1. /\ note # None /\ note = receipt.expected
          /\ receipt' = [receipt EXCEPT !.marked = [note EXCEPT !.reviewed = TRUE]]
      BY <2>3 DEF RecordMark, GiveUp, Receive
    <3>2. note \in Versions
      BY <3>1 DEF ReviewInv, Types, NoteTypes
    <3>3. /\ [note EXCEPT !.reviewed = TRUE] \in Versions
          /\ [note EXCEPT !.reviewed = TRUE].has = note.has
      BY <3>2 DEF Versions
    <3> QED
      BY <1>4, <3>1, <3>2, <3>3, Receipts DEF Marking
  <2>4. CASE review' # "mark"
    BY <2>4 DEF Marking
  <2> QED
    BY <2>1, <2>2, <2>3, <2>4
<1> QED
  BY <1>1, <1>2, <1>3, <1>4, <1>5, <1>6, ReceiptPapers

LEMMA DismissPapers ==
    ASSUME ReviewInv, Dismiss
    PROVE  Papers'
<1>1. /\ UNCHANGED <<note, ev, assoc, others, fix, hand, receipt>> /\ review = "dismiss" /\ review' = "idle"
      /\ StrangeGrows /\ (<<"purged", 0>> \in strange' => <<"purged", 0>> \in strange)
      /\ jobs' = [j \in Jobs |-> Dismissed(jobs[j])]
  BY DEF Dismiss, Reviewing, GiveUp, StrangeGrows
<1>2. JobsTraced
  <2> SUFFICES ASSUME NEW k \in Jobs, jobs[k] # None, jobs[k].pending # None
               PROVE  jobs'[k] = jobs[k]
    BY DEF JobsTraced
  <2>1. jobs[k].state = "applying"
    BY DEF ReviewInv, DiskIsSound, Pends
  <2> QED
    BY <1>1, <2>1 DEF Dismissed
<1>3. IsReceipt(receipt') /\ Marking'
  BY <1>1 DEF ReviewInv, Receipted, IsReceipt, Marking
<1> QED
  BY <1>1, <1>2, <1>3, ReceiptPapers

LEMMA ForgetPapers ==
    ASSUME ReviewInv, Forget
    PROVE  Papers'
<1>1. /\ note = None /\ UNCHANGED <<note, ev, others, worker, hand>> /\ ~Busy
      /\ jobs' = [j \in Jobs |-> None] /\ assoc' = {} /\ fix' = None /\ receipt' = None /\ review' = "idle"
      /\ worker.pc # "idle" => <<"returns", worker.j>> \in strange'
  BY DEF Forget, Stretch, GiveUp, At
<1>2. NoteTypes' /\ CiteTypes' /\ ReceiptTypes' /\ Marking'
  BY <1>1 DEF ReviewInv, Types, NoteTypes, CiteTypes, ReceiptTypes, Marking
<1>3. Receipted'
  BY <1>1 DEF ReviewInv, Receipted, Busy, Holding
<1>4. Traceable' /\ Citing'
  BY <1>1 DEF ReviewInv, Traceable, Citing, HandIs, Busy
<1>5. Gone'
  BY <1>1 DEF Gone, Busy, Working
<1> QED
  BY <1>2, <1>3, <1>4, <1>5 DEF Papers

LEMMA CrashPapers ==
    ASSUME ReviewInv, Crash
    PROVE  Papers'
<1>1. /\ UNCHANGED <<note, ev, jobs, assoc, others, fix, receipt, strange>> /\ review' = "idle"
      /\ hand'.pc = "idle" /\ hand'.by = None /\ worker'.pc = "idle"
  BY DEF Crash, Resting, Nobody
<1>2. NoteTypes' /\ CiteTypes' /\ ReceiptTypes' /\ Marking'
  BY <1>1 DEF ReviewInv, Types, NoteTypes, CiteTypes, ReceiptTypes, IsReceipt, Marking
<1>3. Receipted' /\ Citing'
  BY <1>1 DEF ReviewInv, Receipted, Citing, HandIs, Busy, Holding, Holds
<1>4. Traceable'
  BY <1>1, SameTraces DEF ReviewInv
<1>5. Gone'
  BY <1>1 DEF ReviewInv, Gone, Busy, Working
<1> QED
  BY <1>2, <1>3, <1>4, <1>5 DEF Papers

-----------------------------------------------------------------------------
(* Every step *)

LEMMA ReviewInit == Init => ReviewInv
<1> SUFFICES ASSUME Init PROVE ReviewInv
  OBVIOUS
<1>1. /\ note = [ver |-> 0, reviewed |-> FALSE, has |-> {}] /\ ev = 0 /\ jobs = [j \in Jobs |-> None]
      /\ assoc = {} /\ others = TRUE /\ fix = None /\ sent = [j \in Jobs |-> 0] /\ receipt = None /\ review = "idle" /\ strange = {}
      /\ worker = Resting /\ hand = Nobody
  BY DEF Init, EInit
<1>2. WorkerTypes /\ ~Working /\ worker.pc = "idle"
  BY <1>1 DEF WorkerTypes, Working, Resting
<1>3. HandTypes /\ ~Holding /\ ~Busy /\ hand.pc = "idle" /\ hand.by = None
  BY <1>1 DEF HandTypes, Holding, Holds, Busy, Nobody
<1>4. NoteTypes /\ JobTypes /\ CiteTypes /\ SentTypes /\ ReceiptTypes
  BY <1>1 DEF NoteTypes, JobTypes, CiteTypes, SentTypes, ReceiptTypes, Versions
<1>5. DiskIsSound /\ Behind /\ Held /\ Billed
  BY <1>1, <1>2, <1>3, Limits DEF DiskIsSound, Behind, Held, Billed, At
<1>6. Marking /\ Receipted /\ Traceable /\ Citing /\ Gone
  BY <1>1, <1>2, <1>3 DEF Marking, Receipted, Traceable, Citing, Gone, HandIs
<1> QED
  BY <1>2, <1>3, <1>4, <1>5, <1>6 DEF ReviewInv, Types

LEMMA WorkerHolds ==
    ASSUME ReviewInv, Worker
    PROVE  ReviewInv'
<1>1. Books /\ Papers /\ NoteTypes
  BY BooksAndPapers DEF Papers
<1>2. (WorkerSteps \/ Rejected \/ AutoQueue) /\ review' = AfterHand /\ UNCHANGED <<receipt, strange>>
  BY DEF Worker, Enriches
<1>3. CASE WorkerSteps \/ Rejected
  <2>1. NothingElse
    BY <1>2, <1>3 DEF NothingElse, NoPurge, StrangeGrows, WorkerSteps, Pick, Start, Gather, Answered, Rejected
  <2>2. Books'
    BY <1>1, <1>2, <1>3, PickKeeps, StartKeeps, GatherKeeps, AnsweredKeeps, RejectedKeeps DEF WorkerSteps
  <2>3. Papers'
    BY <1>3, <2>1, WorkerPapers
  <2> QED
    BY <2>2, <2>3, Together
<1>4. CASE AutoQueue
  <2>1. QueueNote(FALSE) /\ UNCHANGED <<note, ev, assoc, others, fix, worker, hand, sent>>
    BY <1>4 DEF AutoQueue
  <2>2. NothingElse /\ UnheldStays
    BY <1>2, <2>1 DEF NothingElse, NoPurge, StrangeGrows, UnheldStays
  <2>3. Books' /\ Papers'
    BY <1>1, <2>1, <2>2, QueueKeeps, QueuePapers
  <2> QED
    BY <2>3, Together
<1> QED
  BY <1>2, <1>3, <1>4

LEMMA HandHolds ==
    ASSUME ReviewInv, Hand
    PROVE  ReviewInv'
<1>1. Books /\ Papers /\ NoteTypes /\ CiteTypes /\ Citing
  BY BooksAndPapers DEF Papers
<1>2. (HandSteps \/ WriteFails \/ PatchFails) /\ review' = AfterHand /\ UNCHANGED <<receipt, strange>>
  BY DEF Hand, Enriches
<1>3. NoPurge
  BY <1>2 DEF NoPurge, StrangeGrows
<1>4. CASE Judge
  <2>1. NothingElse
    BY <1>2, <1>3, <1>4 DEF NothingElse, Judge
  <2>2. Books' /\ Papers'
    BY <1>1, <1>2, <1>4, <2>1, JudgeKeeps, JudgePapers
  <2> QED
    BY <2>2, Together
<1>5. CASE SaveJob
  <2>1. NothingElse
    BY <1>2, <1>3, <1>5 DEF NothingElse, SaveJob
  <2>2. Books' /\ Papers'
    BY <1>1, <1>2, <1>5, <2>1, SaveJobKeeps, SaveJobPapers
  <2> QED
    BY <2>2, Together
<1>6. CASE HandQuiet
  <2>1. Books'
    BY <1>1, <1>2, <1>6, HandQuietKeeps
  <2>2. CASE Finish
    <3>1. NothingElse
      BY <1>2, <1>3, <2>2 DEF NothingElse, Finish
    <3> QED
      BY <2>1, <2>2, <3>1, FinishPapers, Together
  <2>3. CASE \/ Write \/ WriteFails \/ Record
             \/ CheckCorrection \/ PatchBack \/ PatchFails \/ Uncite \/ CloseCorrection
    BY <1>2, <2>1, <2>3, WritePapers, RecordPapers, CorrectionPapers, Together
  <2> QED
    BY <1>6, <2>2, <2>3 DEF HandQuiet
<1> QED
  BY <1>2, <1>4, <1>5, <1>6 DEF HandSteps, HandQuiet

\* Meddling is noted, a purge is not.
LEMMA MeddlingIsNoPurge ==
    ASSUME strange' = IF receipt # None /\ receipt.open THEN strange \cup {<<"meddled", 0>>} ELSE strange
    PROVE  NoPurge
  BY DEF NoPurge, StrangeGrows

LEMMA PersonHolds ==
    ASSUME ReviewInv, Person
    PROVE  ReviewInv'
<1>1. Books /\ Papers /\ NoteTypes /\ Marking /\ Receipted
  BY BooksAndPapers DEF Papers
<1>2. UNCHANGED receipt /\ review' = AfterHand /\ NoPurge
  <2>1. CASE Meddles(Enriches(People \/ ResumeCorrection \/ \E x \in assoc : Correct(x)))
    BY <2>1, MeddlingIsNoPurge DEF Meddles, Enriches
  <2>2. CASE Enriches(\E force \in BOOLEAN : Enqueue(force)) /\ UNCHANGED strange
    BY <2>2 DEF Enriches, NoPurge, StrangeGrows
  <2> QED
    BY <2>1, <2>2 DEF Person
<1>3. CASE ResumeCorrection \/ \E x \in assoc : Correct(x)
  <2>1. Books'
    BY <1>1, <1>2, <1>3, PaperStepKeeps DEF PaperStep, NoPurge
  <2>2. Papers'
    BY <1>2, <1>3, CorrectPapers
  <2> QED
    BY <2>1, <2>2, Together
<1>4. CASE \E force \in BOOLEAN : Enqueue(force)
  <2>1. PICK force \in BOOLEAN : Enqueue(force)
    BY <1>4
  <2>2. QueueNote(force) /\ UNCHANGED <<note, ev, assoc, others, fix, worker, hand, sent>>
    BY <2>1 DEF Enqueue
  <2>3. NothingElse /\ UnheldStays
    BY <1>2, <2>2 DEF NothingElse, NoPurge, UnheldStays
  <2>4. Books' /\ Papers'
    BY <1>1, <2>2, <2>3, QueueKeeps, QueuePapers
  <2> QED
    BY <2>4, Together
<1>5. CASE People
  <2>1. PICK j \in Jobs : \/ Retry(j) \/ RetryFailed(j) \/ RejectRemaining(j) \/ AskResume(j)
                          \/ \E i \in Suggestions : Reject(j, i) \/ AskApproval(j, i)
    BY <1>5 DEF People
  <2>2. UNCHANGED <<note, ev, assoc, others, fix>>
    BY <2>1 DEF Retry, RetryFailed, RejectRemaining, AskResume, Reject, AskApproval, Resume, Approve
  <2>3. NothingElse /\ StrangeGrows
    BY <1>2, <2>2 DEF NothingElse, NoPurge
  <2>4. Books'
    <3>1. CASE Retry(j)
      <4>1. QueueNote(jobs[j].state = "stale") /\ UNCHANGED <<note, worker, hand, sent>>
        BY <3>1 DEF Retry
      <4>2. UnheldStays
        BY <2>3, <4>1 DEF UnheldStays
      <4> QED
        BY <1>1, <4>1, <4>2, QueueKeeps
    <3>2. CASE RetryFailed(j) \/ RejectRemaining(j) \/ \E i \in Suggestions : Reject(j, i)
      BY <1>1, <2>3, <3>2, RetryKeeps, RejectRemainingKeeps, RejectKeeps
    <3>3. CASE AskResume(j)
      BY <1>1, <2>3, <3>3, ResumeKeeps DEF AskResume
    <3>4. CASE \E i \in Suggestions : AskApproval(j, i)
      BY <1>1, <2>3, <3>4, ApproveKeeps DEF AskApproval
    <3> QED
      BY <2>1, <3>1, <3>2, <3>3, <3>4
  <2> QED
    BY <1>5, <2>3, <2>4, PeoplePapers, Together
<1> QED
  BY <1>3, <1>4, <1>5 DEF Person, Meddles, Enriches

LEMMA DeviceHolds ==
    ASSUME ReviewInv, Device
    PROVE  ReviewInv'
<1>1. Edit /\ UNCHANGED <<receipt, review>> /\ NoPurge
  BY MeddlingIsNoPurge DEF Device, Meddles
<1>2. Books' /\ Papers'
  BY <1>1, BooksAndPapers, PaperStepKeeps, EditPapers DEF PaperStep, NoPurge, Papers
<1> QED
  BY <1>2, Together

LEMMA ReviewHolds ==
    ASSUME ReviewInv,
           \/ \E j \in Jobs, sel \in SUBSET Suggestions : BeginReview(j, sel)
           \/ AskAgain \/ ReviewSteps \/ MarkFails
    PROVE  ReviewInv'
<1>1. Books /\ Papers /\ Marking /\ Receipted
  BY BooksAndPapers DEF Papers
<1>2. CASE \E j \in Jobs, sel \in SUBSET Suggestions : BeginReview(j, sel)
  <2>1. StrangeGrows
    BY <1>2 DEF BeginReview, StrangeGrows
  <2> QED
    BY <1>1, <1>2, <2>1, PaperStepKeeps, BeginPapers, Together DEF PaperStep
<1>3. CASE AskAgain \/ Recover \/ NoteApplied \/ RecordMark \/ Complete
  <2>1. StrangeGrows
    BY <1>3 DEF AskAgain, Recover, NoteApplied, RecordMark, Complete, StrangeGrows
  <2> QED
    BY <1>1, <1>3, <2>1, PaperStepKeeps, ReviewPapers, Together DEF PaperStep
<1>4. CASE Mark \/ MarkFails
  <2>1. StrangeGrows
    BY <1>4 DEF Mark, MarkFails, StrangeGrows
  <2> QED
    BY <1>1, <1>4, <2>1, PaperStepKeeps, MarkPapers, Together DEF PaperStep
<1>5. CASE ResumePending
  <2>1. receipt.j \in Jobs /\ Resume(receipt.j, "resumed") /\ StrangeGrows
    BY <1>1, <1>5 DEF ResumePending, Reviewing, Receipted, IsReceipt, StrangeGrows
  <2>2. Books'
    BY <1>1, <2>1, ResumeKeeps
  <2> QED
    BY <1>5, <2>2, ReviewPapers, Together
<1>6. CASE ApplyNext
  <2>1. receipt.j \in Jobs /\ StrangeGrows
    BY <1>1, <1>6 DEF ApplyNext, Reviewing, Receipted, IsReceipt, StrangeGrows
  <2>2. CASE Approve(receipt.j, NextUp, "review")
    BY <1>1, <1>6, <2>1, <2>2, ApproveKeeps, ReviewPapers, Together
  <2>3. CASE UNCHANGED evars
    <3>1. HandTypes' /\ HandStays /\ NoteStaysGone /\ UNCHANGED <<jobs, worker, sent>>
      BY <1>1, <2>3 DEF evars, Books, HandTypes, HandStays, Holding, NoteStaysGone
    <3>2. Books'
      BY <1>1, <2>1, <3>1, BooksStay
    <3> QED
      BY <1>6, <3>2, ReviewPapers, Together
  <2> QED
    BY <1>6, <2>2, <2>3 DEF ApplyNext
<1>7. CASE Dismiss
  BY <1>1, <1>7, DismissKeeps, DismissPapers, Together
<1> QED
  BY <1>2, <1>3, <1>4, <1>5, <1>6, <1>7 DEF ReviewSteps

LEMMA ReviewStep ==
    ASSUME ReviewInv, [Next]_allvars
    PROVE  ReviewInv'
<1>1. Books
  BY BooksAndPapers
<1>2. CASE Forget
  BY <1>1, <1>2, ForgetKeeps, ForgetPapers, Together
<1>3. CASE Crash
  BY <1>1, <1>3, CrashKeeps, CrashPapers, Together
<1>4. CASE UNCHANGED allvars \/ ForgetOther
  <2>1. /\ UNCHANGED <<note, ev, jobs, assoc, fix, worker, hand, sent, receipt, review>>
        /\ strange \subseteq strange' /\ (<<"purged", 0>> \in strange' => <<"purged", 0>> \in strange)
        /\ others' \in {others, FALSE}
    BY <1>4 DEF allvars, evars, rvars, ForgetOther
  <2>2. Books'
    BY <1>1, <2>1, BooksStay DEF Books, HandTypes, Holding, HandStays, NoteStaysGone, StrangeGrows
  <2>3. NoPurge /\ NoteTypes' /\ CiteTypes'
    BY <2>1 DEF CiteTypes, NoPurge, StrangeGrows, ReviewInv, Types, NoteTypes
  <2> QED
    BY <2>1, <2>2, <2>3, NotePapers, Together
<1> QED
  BY <1>2, <1>3, <1>4, WorkerHolds, HandHolds, PersonHolds, DeviceHolds, ReviewHolds DEF Next

\* The state the properties rest on, whatever jobs, suggestions and bounds there are.
THEOREM ReviewsAreKept == Spec => []ReviewInv
  BY ReviewInit, ReviewStep, PTL DEF Spec

\* Types of what the disk and the operations in memory hold.
THEOREM ReviewsTypes == Spec => []TypeOK
<1>1. ReviewInv => TypeOK
  BY DEF ReviewInv, Types, NoteTypes, JobTypes, CiteTypes, SentTypes, WorkerTypes, HandTypes, Holds, TypeOK
<1> QED
  BY <1>1, ReviewsAreKept, PTL

\* A job's requests stay within its limit across failures, retries and restarts
\* (context_service.py:1003-1012).
THEOREM RequestsAreLimited == Spec => []WithinLimit
<1>1. ReviewInv => WithinLimit
  BY DEF ReviewInv, Billed, WithinLimit
<1> QED
  BY <1>1, ReviewsAreKept, PTL

\* No approved change is in a note without its association or a resumable approval
\* (context_service.py:1289-1356).
THEOREM ChangesAreTraced == Spec => []Traceable
<1>1. ReviewInv => Traceable
  BY DEF ReviewInv
<1> QED
  BY <1>1, ReviewsAreKept, PTL

\* A correction that holds what it read before the purge of another note writes it back.
OtherInv ==
    <<"other purged", 0>> \in strange =>
        \/ <<"remapped", 0>> \in strange
        \/ ~others /\ (hand.pc \in {"patch", "uncite"} => ~hand.map)

OtherKept ==
    /\ <<"other purged", 0>> \in strange' => <<"other purged", 0>> \in strange
    /\ <<"remapped", 0>> \in strange => <<"remapped", 0>> \in strange'
NoNewMap == hand' = hand \/ hand'.pc \notin {"patch", "uncite"}

LEMMA OtherStays == ASSUME OtherInv, UNCHANGED others, OtherKept, NoNewMap PROVE OtherInv'
  BY DEF OtherInv, OtherKept, NoNewMap

LEMMA OtherHand ==
    ASSUME OtherInv, HandTypes, Hand
    PROVE  OtherInv'
<1>1. (HandSteps \/ WriteFails \/ PatchFails) /\ OtherKept
  BY DEF Hand, Enriches, OtherKept
<1>2. Nobody.pc = "idle" /\ \A pc : [hand EXCEPT !.pc = pc].pc = pc /\ [hand EXCEPT !.pc = pc].map = hand.map
  BY DEF Nobody, HandTypes
<1>3. CASE CheckCorrection
  <2>1. CASE hand' = Nobody
    BY <1>1, <1>2, <1>3, <2>1, OtherStays DEF CheckCorrection, NoNewMap
  <2>2. CASE \E pc : hand' = [hand EXCEPT !.pc = pc, !.map = others]
    <3>1. UNCHANGED others /\ hand'.map = others
      BY <1>3, <2>2 DEF CheckCorrection, HandTypes
    <3> QED
      BY <1>1, <3>1 DEF OtherInv, OtherKept
  <2> QED
    BY <1>3, <2>1, <2>2 DEF CheckCorrection, Unlock
<1>4. CASE PatchBack
  <2>1. UNCHANGED others /\ hand.pc = "patch" /\ (hand' = Nobody \/ hand' = [hand EXCEPT !.pc = "uncite"])
    BY <1>4 DEF PatchBack, HandIs, Unlock
  <2>2. hand'.pc = "idle" \/ hand'.map = hand.map
    BY <1>2, <2>1
  <2> QED
    BY <1>1, <2>1, <2>2 DEF OtherInv, OtherKept
<1>5. CASE Uncite
  <2>1. others' = hand.map /\ hand.pc = "uncite" /\ hand' = [hand EXCEPT !.pc = "close"]
    BY <1>5 DEF Uncite, HandIs
  <2> QED
    BY <1>1, <1>2, <2>1 DEF OtherInv, OtherKept
<1>6. CASE Judge
  <2>1. UNCHANGED others /\ (hand' = Nobody \/ hand'.pc = "finish")
    BY <1>6 DEF Judge, Unlock, HandTypes
  <2> QED
    BY <1>1, <1>2, <2>1, OtherStays DEF NoNewMap
<1>7. CASE Finish \/ Write \/ WriteFails \/ Record \/ SaveJob \/ PatchFails \/ CloseCorrection
  <2>1. UNCHANGED others /\ (hand' = Nobody \/ \E pc \in {"record", "write", "save"} : hand' = [hand EXCEPT !.pc = pc])
    BY <1>7 DEF Finish, Write, WriteFails, Record, SaveJob, PatchFails, CloseCorrection, Unlock
  <2> QED
    BY <1>1, <1>2, <2>1, OtherStays DEF NoNewMap
<1> QED
  BY <1>1, <1>3, <1>4, <1>5, <1>6, <1>7 DEF HandSteps

LEMMA OtherPerson ==
    ASSUME OtherInv, Person
    PROVE  OtherInv'
<1>1. OtherKept
  BY DEF Person, Meddles, Enriches, OtherKept
<1>2. CASE ResumeCorrection \/ (\E x \in assoc : Correct(x)) \/ (\E force \in BOOLEAN : Enqueue(force))
  <2>1. UNCHANGED others /\ (hand' = hand \/ hand'.pc = "correct")
    BY <1>2 DEF ResumeCorrection, Correct, Enqueue, Nobody
  <2> QED
    BY <1>1, <2>1, OtherStays DEF NoNewMap
<1>3. CASE People
  <2>1. UNCHANGED others /\ (hand' = hand \/ hand'.pc \in {"judge", "finish"})
    <3>1. PICK j \in Jobs : \/ Retry(j) \/ RetryFailed(j) \/ RejectRemaining(j) \/ AskResume(j)
                            \/ \E i \in Suggestions : Reject(j, i) \/ AskApproval(j, i)
      BY <1>3 DEF People
    <3>2. CASE AskResume(j) \/ \E i \in Suggestions : AskApproval(j, i)
      BY <3>2 DEF AskResume, AskApproval, Resume, Approve
    <3>3. CASE Retry(j) \/ RetryFailed(j) \/ RejectRemaining(j) \/ \E i \in Suggestions : Reject(j, i)
      BY <3>3 DEF Retry, RetryFailed, RejectRemaining, Reject
    <3> QED
      BY <3>1, <3>2, <3>3
  <2> QED
    BY <1>1, <2>1, OtherStays DEF NoNewMap
<1> QED
  BY <1>2, <1>3 DEF Person, Meddles, Enriches

LEMMA OtherReview ==
    ASSUME OtherInv,
           \/ \E j \in Jobs, sel \in SUBSET Suggestions : BeginReview(j, sel)
           \/ AskAgain \/ ReviewSteps \/ MarkFails
    PROVE  OtherInv'
<1>1. CASE \/ \E j \in Jobs, sel \in SUBSET Suggestions : BeginReview(j, sel)
           \/ AskAgain \/ MarkFails \/ Recover \/ NoteApplied \/ RecordMark \/ Mark \/ Complete \/ Dismiss
  <2>1. UNCHANGED <<others, hand>>
    BY <1>1 DEF BeginReview, AskAgain, MarkFails, Recover, NoteApplied, RecordMark, Mark, Complete, Dismiss, evars
  <2>2. OtherKept
    BY <1>1 DEF BeginReview, AskAgain, MarkFails, Recover, NoteApplied, RecordMark, Mark, Complete, Dismiss,
       OtherKept
  <2> QED
    BY <2>1, <2>2, OtherStays DEF NoNewMap
<1>2. CASE ResumePending \/ ApplyNext
  <2>1. UNCHANGED <<others, strange>> /\ (hand' = hand \/ hand'.pc \in {"judge", "finish"})
    BY <1>2 DEF ResumePending, ApplyNext, Resume, Approve, evars
  <2> QED
    BY <2>1, OtherStays DEF NoNewMap, OtherKept
<1> QED
  BY <1>1, <1>2 DEF ReviewSteps

LEMMA OtherStep ==
    ASSUME OtherInv, HandTypes, [Next]_allvars
    PROVE  OtherInv'
<1>1. CASE Worker \/ Device
  <2>1. UNCHANGED <<others, hand>> /\ OtherKept
    <3>1. CASE Worker
      BY <3>1 DEF Worker, Enriches, WorkerSteps, Pick, Start, Gather, Answered, Rejected, AutoQueue, OtherKept
    <3>2. CASE Device
      BY <3>2 DEF Device, Meddles, Edit, OtherKept
    <3> QED
      BY <1>1, <3>1, <3>2
  <2> QED
    BY <2>1, OtherStays DEF NoNewMap
<1>2. CASE Forget
  <2>1. UNCHANGED <<others, hand>> /\ OtherKept
    BY <1>2 DEF Forget, OtherKept, OtherMarks
  <2> QED
    BY <2>1, OtherStays DEF NoNewMap
<1>3. CASE ForgetOther
  BY <1>3 DEF ForgetOther, Stretch, Busy, OtherInv
<1>4. CASE Crash
  BY <1>4, OtherStays DEF Crash, Nobody, NoNewMap, OtherKept
<1>5. CASE UNCHANGED allvars
  BY <1>5, OtherStays DEF allvars, evars, rvars, NoNewMap, OtherKept
<1> QED
  BY <1>1, <1>2, <1>3, <1>4, <1>5, OtherHand, OtherPerson, OtherReview DEF Next

\* A purged note leaves nothing behind but the job its worker still had (entities.py:973);
\* nor does another note that is purged, unless a correction had read the associations of
\* all notes and waited at the gate for its write (association_corrections.py:101-116).
THEOREM NotesAreForgotten == Spec => []Forgotten
<1>1. Init => OtherInv
  BY DEF Init, OtherInv
<1>2. ReviewInv /\ OtherInv /\ [Next]_allvars => OtherInv'
  BY OtherStep DEF ReviewInv, Types
<1>3. ReviewInv /\ OtherInv => Forgotten
  BY DEF ReviewInv, Gone, OtherInv, Forgotten, OtherIsForgotten
<1> QED
  BY <1>1, <1>2, <1>3, ReviewsAreKept, PTL DEF Spec

-----------------------------------------------------------------------------
(* A person's decision stands *)

LEMMA IsItsPrefix == ASSUME NEW S, NEW s \in Seq(S) PROVE IsPrefix(s, s)
  BY DEF IsPrefix
LEMMA IsPrefixOfMore == ASSUME NEW S, NEW s \in Seq(S), NEW e PROVE IsPrefix(s, Append(s, e))
  BY DEF IsPrefix

Excused(j) == {<<"picked", j>>, <<"judged", j>>} \cap strange # {}
Stood(j) ==
    jobs[j] # None /\ jobs'[j] # None /\ ~Excused(j) =>
        /\ IsPrefix(jobs[j].done, jobs'[j].done)
        /\ jobs[j].state \in {"applied", "rejected"} => jobs'[j].state = jobs[j].state
AllStood == \A j \in Jobs : Stood(j)

LEMMA RestingStand == ASSUME JobTypes, NEW j \in Jobs, jobs'[j] = jobs[j] PROVE Stood(j)
<1> SUFFICES ASSUME jobs[j] # None PROVE IsPrefix(jobs[j].done, jobs[j].done)
  BY DEF Stood
<1>1. jobs[j].done \in Seq(Decisions)
  BY DEF JobTypes, JobSet
<1> QED
  BY <1>1, IsItsPrefix

\* What is saved of a job others may have decided is excused or no decision's loss.
LEMMA SavesStand ==
    ASSUME JobTypes, NEW j \in Jobs, NEW job, Save(j, job),
           jobs[j] # None /\ ~Excused(j) =>
               /\ jobs[j].state \notin {"applied", "rejected"}
               /\ job.done = jobs[j].done \/ \E e : job.done = Append(jobs[j].done, e)
    PROVE  AllStood
<1> SUFFICES ASSUME NEW k \in Jobs PROVE Stood(k)
  BY DEF AllStood
<1>1. CASE k # j
  BY <1>1, RestingStand DEF JobTypes, Save
<1>2. CASE k = j
  <2> SUFFICES ASSUME jobs[j] # None, ~Excused(j)
               PROVE  IsPrefix(jobs[j].done, job.done)
    BY <1>2 DEF Stood, JobTypes, Save
  <2>1. jobs[j].done \in Seq(Decisions)
    BY DEF JobTypes, JobSet
  <2> QED
    BY <2>1, IsItsPrefix, IsPrefixOfMore
<1> QED
  BY <1>1, <1>2

LEMMA UnchangedStand == ASSUME JobTypes, UNCHANGED jobs PROVE AllStood
  BY RestingStand DEF AllStood

LEMMA QueueStand ==
    ASSUME JobTypes, NEW force \in BOOLEAN, QueueNote(force)
    PROVE  AllStood
<1>1. CASE UNCHANGED jobs
  BY <1>1, UnchangedStand
<1>2. CASE Free # {} /\ Save(NextId, NewJob(note))
  <2>1. NextId \in Jobs /\ jobs[NextId] = None
    BY <1>2 DEF NextId, Free
  <2> QED
    BY <1>2, <2>1, SavesStand
<1> QED
  BY <1>1, <1>2 DEF QueueNote

LEMMA WorkerStand ==
    ASSUME Books, WorkerSteps \/ Rejected
    PROVE  AllStood
<1>1. JobTypes
  BY DEF Books
<1>2. CASE \E j \in Jobs : Pick(j)
  <2>1. PICK j \in Jobs : Pick(j)
    BY <1>2
  <2>2. jobs[j] # None /\ jobs[j].state \in {"queued", "running", "failed"} /\ jobs[j] \in JobSet
    BY <1>1, <2>1 DEF Pick, Runnable, Is, JobTypes
  <2>3. PICK job : Save(j, job) /\ job \in {jobs[j], In("failed", jobs[j]), In("queued", jobs[j])}
    BY <2>1 DEF Pick
  <2>4. job.done = jobs[j].done
    BY <2>2, <2>3, InStates DEF States
  <2> QED
    BY <1>1, <2>2, <2>3, <2>4, SavesStand
<1>3. CASE Start
  <2>1. Working /\ At("start") /\ worker.j \in Jobs /\ worker.job \in JobSet
    BY <1>3, WorkersJob DEF Start, At, Working
  <2>2. worker.job.attempts \in Nat /\ worker.job.attempts <= Limit
    BY <2>1, WorkersJob
  <2>3. PICK job : Save(worker.j, job) /\ job.done = worker.job.done
    <3>1. CASE worker.job.attempts >= Limit
      <4>1. Save(worker.j, In("failed", worker.job))
        BY <1>3, <3>1 DEF Start
      <4> QED
        BY <2>1, <4>1, InStates DEF States
    <3>2. CASE ~(worker.job.attempts >= Limit)
      <4>1. Save(worker.j, [In("running", worker.job) EXCEPT !.attempts = @ + 1])
        BY <1>3, <3>2 DEF Start
      <4>2. [In("running", worker.job) EXCEPT !.attempts = @ + 1].done = worker.job.done
        <5>1. worker.job.attempts < Limit
          BY <2>2, <3>2, Limits
        <5> QED
          BY <2>1, <5>1, Attempted
      <4> QED
        BY <4>1, <4>2
    <3> QED
      BY <3>1, <3>2
  <2>4. jobs[worker.j] # None => /\ jobs[worker.j].done = worker.job.done
                                 /\ jobs[worker.j].state \in {"queued", "failed"} \/ Excused(worker.j)
    BY <2>1 DEF Books, Behind, Excused
  <2> QED
    BY <1>1, <2>1, <2>3, <2>4, SavesStand
<1>4. CASE Gather \/ Answered \/ Rejected
  <2>1. Working /\ ~At("start") /\ worker.j \in Jobs /\ worker.job \in JobSet
    BY <1>4, WorkersJob DEF Gather, Answered, Rejected, At, Working
  <2>2. jobs[worker.j] # None => jobs[worker.j] = worker.job /\ worker.job.state = "running"
    BY <2>1 DEF Books, Behind
  <2>3. \/ UNCHANGED jobs
        \/ \E s \in {"failed", "stale"} : Save(worker.j, In(s, worker.job))
        \/ Save(worker.j, [In("suggested", worker.job) EXCEPT !.answered = TRUE])
    BY <1>4, Zenon DEF Gather, Answered, Rejected, Settle
  <2>4. UNCHANGED jobs \/ \E job : Save(worker.j, job) /\ job.done = worker.job.done
    <3>1. /\ In("failed", worker.job).done = worker.job.done
          /\ In("stale", worker.job).done = worker.job.done
      BY <2>1, InStates DEF States
    <3>2. [In("suggested", worker.job) EXCEPT !.answered = TRUE].done = worker.job.done
      BY <2>1, AnsweredJobs
    <3> QED
      BY <2>3, <3>1, <3>2
  <2>5. CASE UNCHANGED jobs
    BY <1>1, <2>5, UnchangedStand
  <2>6. CASE \E job : Save(worker.j, job) /\ job.done = worker.job.done
    BY <1>1, <2>1, <2>2, <2>6, SavesStand
  <2> QED
    BY <2>4, <2>5, <2>6
<1> QED
  BY <1>2, <1>3, <1>4 DEF WorkerSteps

LEMMA HandStand ==
    ASSUME Books, HandSteps \/ WriteFails \/ PatchFails
    PROVE  AllStood
<1>1. JobTypes
  BY DEF Books
<1>2. CASE HandQuiet
  <2>1. UNCHANGED jobs
    BY <1>2 DEF HandQuiet, Finish, Write, WriteFails, Record, CheckCorrection, PatchBack, PatchFails,
       Uncite, CloseCorrection
  <2> QED
    BY <1>1, <2>1, UnchangedStand
<1>3. CASE Judge
  <2>1. /\ Holding /\ hand.j \in Jobs /\ hand.job \in JobSet /\ hand.i \in Suggestions
        /\ jobs[hand.j] # None => /\ jobs[hand.j].done = hand.job.done
                                  /\ jobs[hand.j].state = "suggested" \/ Excused(hand.j)
    BY <1>3 DEF Judge, HandIs, Holding, Holds, Books, HandTypes, Held, Excused
  <2>2. UNCHANGED jobs \/ \E job : Save(hand.j, job) /\ job.done = hand.job.done
    <3>1. In("stale", hand.job).done = hand.job.done
      BY <2>1, InStates DEF States
    <3>2. \A p : [In("applying", hand.job) EXCEPT !.pending = p].done = hand.job.done
      <4>1. In("applying", hand.job) \in JobSet /\ In("applying", hand.job).done = hand.job.done
        BY <2>1, InStates DEF States
      <4> QED
        BY <4>1 DEF JobSet
    <3> QED
      BY <1>3, <3>1, <3>2 DEF Judge
  <2> QED
    BY <1>1, <2>1, <2>2, UnchangedStand, SavesStand
<1>4. CASE SaveJob
  <2>1. /\ Holding /\ hand.j \in Jobs /\ Pends(hand.j, hand.job) /\ hand.job.state = "applying"
        /\ jobs[hand.j] # None => jobs[hand.j] = hand.job
    BY <1>4 DEF SaveJob, HandIs, Holding, Holds, Books, HandTypes, Held
  <2>2. PICK s \in {"applied", "suggested", "stale"} : Save(hand.j, In(s, Settled))
    BY <1>4 DEF SaveJob
  <2>3. \E e : In(s, Settled).done = Append(hand.job.done, e)
    BY <2>1, SettledJobs DEF Books, States
  <2> QED
    BY <1>1, <2>1, <2>2, <2>3, SavesStand
<1> QED
  BY <1>2, <1>3, <1>4 DEF HandSteps, HandQuiet

LEMMA PersonStand ==
    ASSUME Books, Person
    PROVE  AllStood
<1>1. JobTypes
  BY DEF Books
<1>2. CASE ResumeCorrection \/ \E x \in assoc : Correct(x)
  BY <1>1, <1>2, UnchangedStand DEF ResumeCorrection, Correct
<1>3. CASE \E force \in BOOLEAN : Enqueue(force)
  BY <1>1, <1>3, QueueStand DEF Enqueue
<1>4. CASE People
  <2>1. PICK j \in Jobs : \/ Retry(j) \/ RetryFailed(j) \/ RejectRemaining(j) \/ AskResume(j)
                          \/ \E i \in Suggestions : Reject(j, i) \/ AskApproval(j, i)
    BY <1>4 DEF People
  <2>2. CASE Retry(j)
    BY <1>1, <2>2, QueueStand DEF Retry
  <2>3. CASE AskResume(j) \/ \E i \in Suggestions : AskApproval(j, i)
    BY <1>1, <2>3, UnchangedStand DEF AskResume, AskApproval, Resume, Approve
  <2>4. CASE RetryFailed(j)
    <3>1. Is(j, {"failed"}) /\ Save(j, [jobs[j] EXCEPT !.state = "queued", !.attempts = 0])
      BY <2>4 DEF RetryFailed
    <3>2. [jobs[j] EXCEPT !.state = "queued", !.attempts = 0].done = jobs[j].done
      BY <1>1, <3>1, IsAJob, RetriedJobs
    <3> QED
      BY <1>1, <3>1, <3>2, SavesStand DEF Is
  <2>5. CASE RejectRemaining(j)
    <3>1. Is(j, {"suggested"}) /\ Save(j, In("rejected", jobs[j]))
      BY <2>5 DEF RejectRemaining
    <3>2. In("rejected", jobs[j]).done = jobs[j].done
      BY <1>1, <3>1, IsAJob, InStates DEF States
    <3> QED
      BY <1>1, <3>1, <3>2, SavesStand DEF Is
  <2>6. CASE \E i \in Suggestions : Reject(j, i)
    <3>1. PICK i \in Suggestions : Reject(j, i)
      BY <2>6
    <3>2. jobs[j] \in JobSet /\ jobs[j].state = "suggested"
      BY <1>1, <3>1, IsAJob DEF Reject
    <3>3. PICK s, e : Save(j, [jobs[j] EXCEPT !.done = Append(jobs[j].done, e), !.state = s])
      BY <3>1 DEF Reject
    <3>4. [jobs[j] EXCEPT !.done = Append(jobs[j].done, e), !.state = s].done = Append(jobs[j].done, e)
      BY <3>2 DEF JobSet
    <3> QED
      BY <1>1, <3>2, <3>3, <3>4, SavesStand
  <2> QED
    BY <2>1, <2>2, <2>3, <2>4, <2>5, <2>6
<1> QED
  BY <1>2, <1>3, <1>4 DEF Person, Meddles, Enriches

LEMMA OthersStand ==
    ASSUME Books, [Next]_allvars, ~Worker, ~Hand, ~Person
    PROVE  AllStood
<1>1. JobTypes
  BY DEF Books
<1>2. CASE Device \/ (\E j \in Jobs, sel \in SUBSET Suggestions : BeginReview(j, sel)) \/ AskAgain \/ MarkFails \/ Crash
  BY <1>1, <1>2, UnchangedStand DEF Device, Meddles, Edit, BeginReview, AskAgain, MarkFails, Crash, evars
<1>3. CASE ResumePending \/ Recover \/ ApplyNext
  BY <1>1, <1>3, UnchangedStand DEF ResumePending, Recover, ApplyNext, Resume, Approve, evars
<1>4. CASE NoteApplied \/ RecordMark \/ Mark \/ Complete
  BY <1>1, <1>4, UnchangedStand DEF NoteApplied, RecordMark, Mark, Complete, evars
<1>5. CASE Dismiss
  <2> SUFFICES ASSUME NEW j \in Jobs PROVE Stood(j)
    BY DEF AllStood
  <2>1. jobs'[j] = Dismissed(jobs[j])
    BY <1>5 DEF Dismiss
  <2>2. CASE jobs'[j] = jobs[j]
    BY <1>1, <2>2, RestingStand
  <2>3. CASE jobs[j] # None /\ jobs[j].state \in {"suggested", "queued", "stale"}
    <3>1. jobs[j] \in JobSet /\ jobs[j].done \in Seq(Decisions)
      BY <1>1, <2>3 DEF JobTypes, JobSet
    <3>2. jobs'[j] = In("rejected", jobs[j]) /\ jobs'[j].done = jobs[j].done
      BY <2>1, <2>3, <3>1, InStates DEF Dismissed, States
    <3> QED
      BY <2>3, <3>1, <3>2, IsItsPrefix DEF Stood
  <2> QED
    BY <2>1, <2>2, <2>3 DEF Dismissed
<1>6. CASE Forget \/ ForgetOther
  BY <1>1, <1>6, UnchangedStand DEF Forget, ForgetOther, AllStood, Stood
<1>7. CASE UNCHANGED allvars
  BY <1>1, <1>7, UnchangedStand DEF allvars, evars
<1> QED
  BY <1>2, <1>3, <1>4, <1>5, <1>6, <1>7 DEF Next, ReviewSteps

\* Nobody takes a decision back by saving what was read before it.  The job a completed
\* review dismissed while it was in memory is excused (Behind, Held say when that is).
THEOREM DecisionsAreKept == Spec => DecisionsStand
<1>1. ReviewInv /\ [Next]_allvars => AllStood
  <2> SUFFICES ASSUME ReviewInv, [Next]_allvars PROVE AllStood
    OBVIOUS
  <2>1. Books
    BY BooksAndPapers
  <2>2. CASE Worker
    <3>1. CASE WorkerSteps \/ Rejected
      BY <2>1, <3>1, WorkerStand
    <3>2. CASE AutoQueue
      BY <2>1, <3>2, QueueStand DEF AutoQueue, Books
    <3> QED
      BY <2>2, <3>1, <3>2 DEF Worker, Enriches
  <2>3. CASE Hand
    BY <2>1, <2>3, HandStand DEF Hand, Enriches
  <2>4. CASE Person
    BY <2>1, <2>4, PersonStand
  <2> QED
    BY <2>1, <2>2, <2>3, <2>4, OthersStand
<1>2. ReviewInv /\ [Next]_allvars =>
        \A j \in Jobs : jobs[j] # None /\ jobs'[j] # None
         /\ {<<"picked", j>>, <<"judged", j>>} \cap strange = {} =>
           /\ IsPrefix(jobs[j].done, jobs'[j].done)
           /\ jobs[j].state \in {"applied", "rejected"} => jobs'[j].state = jobs[j].state
  BY <1>1 DEF AllStood, Stood, Excused
<1> QED
  BY <1>2, ReviewsAreKept, PTL DEF DecisionsStand, Spec
=============================================================================
