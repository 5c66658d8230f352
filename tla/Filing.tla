------------------------------ MODULE Filing ------------------------------
(***************************************************************************)
(* Filing of reviewed notes (filing.py) beside the ingest of their         *)
(* sources: a journal per note, the page carried from _Pending to its      *)
(* month and named in the manifest, the note's links rewritten, the note   *)
(* moved last, the approved revision published.  The page's part runs      *)
(* under the lock of the source that ingest takes too.                     *)
(***************************************************************************)
EXTENDS Ingest

VARIABLES journal,   \* the receipt of each note's filing
          review,    \* the revision a person's review approved
          fil,       \* the filing of one note under way
          seen       \* history: the revisions current at a person's reviews
fvars == <<journal, review, fil, seen>>
vars == <<ivars, fvars>>

Plans     == [from : Paths \cup {None}, froms : SUBSET Paths, rev : Revs \cup {0}, complete : BOOLEAN]
Approvals == [reviewed : BOOLEAN, rev : Revs \cup {0}]
FilingPhases == {"open", "lock", "copy", "name", "drop", "note", "rewrite", "move", "publish"}
Filings   == [pc : FilingPhases \cup {Idle}, s : Sids, text : {None} \cup Pages, fresh : BOOLEAN]
ASSUME FilingAssumption == None \notin Approvals /\ Idle \notin FilingPhases

NoPlan == [from |-> None, froms |-> {}, rev |-> 0, complete |-> FALSE]
NoFiling == [pc |-> Idle, s |-> 1, text |-> None, fresh |-> FALSE]

FInit ==
  /\ Init
  /\ journal = [s \in Sids |-> NoPlan] /\ review = [s \in Sids |-> None]
  /\ fil = NoFiling /\ seen = [s \in Sids |-> {}]

Filed(pc) == fil.pc = pc
Next1(pc) == fil' = [fil EXCEPT !.pc = pc]
plan == journal[fil.s]
HoldsSource == fil.pc \in {"copy", "name", "drop"}

(* record_review: what is current when the reviewed flag is written is approved *)
Recorded(s, flag) == [reviewed |-> flag, rev |-> IF flag /\ Whole(s) THEN man[s].cur ELSE 0]

(* A write of the note sets or clears the flag; the record is saved after the file *)
MarkReviewed ==
  /\ left.reviews > 0
  /\ \E s \in Sids, flag \in BOOLEAN :
       /\ note[s].files = 1
       /\ note' = [note EXCEPT ![s].reviewed = flag]
       /\ fil' = IF fil.s = s THEN [fil EXCEPT !.fresh = FALSE] ELSE fil
       /\ \/ /\ review' = [review EXCEPT ![s] = Recorded(s, flag)]
             /\ seen' = IF flag /\ Whole(s) THEN [seen EXCEPT ![s] = @ \cup {man[s].cur}] ELSE seen
             /\ left' = [left EXCEPT !.reviews = @ - 1] /\ UNCHANGED hurt
          \/ /\ left.accidents > 0 /\ left' = [left EXCEPT !.reviews = @ - 1, !.accidents = @ - 1]
             /\ hurt' = hurt \cup {"unrecorded"} /\ UNCHANGED <<review, seen>>
  /\ UNCHANGED <<claim, dirs, man, page, row, att, rec, acks, journal>>

(* The pass records the failure; only a missing approval leaves the note filed *)
Fails == /\ row' = IF row[fil.s] = None THEN row ELSE [row EXCEPT ![fil.s].filed = FALSE]
         /\ fil' = NoFiling

(* file_note up to the journal: what is approved, and whether all is done already *)
ApprovedByNow(s) == [reviewed |-> TRUE, rev |-> man[s].cur]
Approved(s) == IF review[s] # None THEN review[s]
               ELSE [reviewed |-> TRUE,
                     rev |-> IF journal[s].rev # 0 THEN journal[s].rev ELSE man[s].cur]
Current(s) == Approved(s).reviewed /\ Approved(s).rev = man[s].cur
(* Filed in its month already, as far as what was approved goes *)
InPlace(s) == /\ journal[s].complete /\ note[s].month /\ Approved(s).reviewed
              /\ Current(s) => journal[s].rev = man[s].cur /\ man[s].page = s
BeginNeverAgain(s) ==
  /\ Filed(Idle) /\ Whole(s) /\ row[s] # None /\ note[s].files = 1 /\ note[s].reviewed
  /\ review' = [review EXCEPT ![s] = Approved(s)]
  /\ \/ /\ InPlace(s) /\ row[s].approved # Approved(s).rev
        /\ fil' = [NoFiling EXCEPT !.pc = "publish", !.s = s, !.fresh = TRUE]
        /\ UNCHANGED journal
     \/ /\ Current(s) /\ ~InPlace(s)
        /\ journal' = [journal EXCEPT ![s] =
             [from |-> man[s].page, froms |-> @.froms \cup {man[s].page},
              rev |-> man[s].cur, complete |-> FALSE]]
        /\ fil' = [NoFiling EXCEPT !.pc = "open", !.s = s]
  /\ UNCHANGED <<claim, dirs, man, page, note, row, att, rec, acks, hurt, left, seen>>

Begin(s) ==
  /\ Filed(Idle) /\ Whole(s) /\ row[s] # None /\ note[s].files = 1 /\ note[s].reviewed
  /\ review' = [review EXCEPT ![s] = Approved(s)]
  /\ \/ /\ InPlace(s) /\ (~row[s].filed \/ row[s].approved # Approved(s).rev)
        /\ fil' = [NoFiling EXCEPT !.pc = "publish", !.s = s, !.fresh = TRUE]
        /\ UNCHANGED journal
     \/ /\ Current(s) /\ ~InPlace(s)
        /\ journal' = [journal EXCEPT ![s] =
             [from |-> man[s].page, froms |-> @.froms \cup {man[s].page},
              rev |-> man[s].cur, complete |-> FALSE]]
        /\ fil' = [NoFiling EXCEPT !.pc = "open", !.s = s]
  /\ UNCHANGED <<claim, dirs, man, page, note, row, att, rec, acks, hurt, left, seen>>

Open ==
  /\ Filed("open") /\ Next1("lock")
  /\ row' = [row EXCEPT ![fil.s].filed = FALSE]
  /\ UNCHANGED <<claim, dirs, man, page, note, att, rec, acks, hurt, left, journal, review, seen>>

(* Under the source's lock: the approved revision and the page that shows it *)
Lock ==
  /\ Filed("lock") /\ At(Idle)
  /\ LET s == fil.s
         from == IF page[plan.from] # None THEN plan.from ELSE s
     IN IF /\ man[s].cur = plan.rev /\ Verified(man[s], s, plan.rev)
           /\ Held(from, s) = plan.rev
        THEN fil' = [fil EXCEPT !.pc = "copy", !.text = page[from]] /\ UNCHANGED row
        ELSE Fails
  /\ UNCHANGED <<claim, dirs, man, page, note, att, rec, acks, hurt, left, journal, review, seen>>

Copy ==
  /\ Filed("copy")
  /\ LET s == fil.s
         text == [fil.text EXCEPT !.reviewed = TRUE]
     IN IF page[s] \in {IF plan.from = s THEN fil.text ELSE None, text}
        THEN page' = [page EXCEPT ![s] = text] /\ Next1("name") /\ UNCHANGED row
        ELSE Fails /\ UNCHANGED page
  /\ UNCHANGED <<claim, dirs, man, note, att, rec, acks, hurt, left, journal, review, seen>>

NameUnsaved ==
  /\ Filed("name") /\ Next1("drop")
  /\ UNCHANGED <<claim, dirs, man, page, note, row, att, rec, acks, hurt, left, journal, review, seen>>

Name ==
  /\ Filed("name") /\ Next1("drop")
  /\ man' = [man EXCEPT ![fil.s].page = fil.s]
  /\ UNCHANGED <<claim, dirs, page, note, row, att, rec, acks, hurt, left, journal, review, seen>>

Drop ==
  /\ Filed("drop")
  /\ IF plan.from = fil.s \/ page[plan.from] = None THEN Next1("note") /\ UNCHANGED <<page, row>>
     ELSE IF page[plan.from] = fil.text
     THEN page' = [page EXCEPT ![plan.from] = None] /\ Next1("note") /\ UNCHANGED row
     ELSE Fails /\ UNCHANGED page
  /\ UNCHANGED <<claim, dirs, man, note, att, rec, acks, hurt, left, journal, review, seen>>

(* The source's lock is free again; the note is read afresh *)
Refresh ==
  /\ Filed("note")
  /\ IF note[fil.s].files = 1 /\ note[fil.s].reviewed
     THEN fil' = [fil EXCEPT !.pc = "rewrite", !.fresh = TRUE] /\ UNCHANGED row
     ELSE Fails
  /\ UNCHANGED <<claim, dirs, man, page, note, att, rec, acks, hurt, left, journal, review, seen>>

(* replace_note and move_note against the ETag read; the move comes last *)
Unchanged == fil.fresh /\ note[fil.s].files = 1
Rewrite ==
  /\ Filed("rewrite")
  /\ IF Unchanged
     THEN /\ note' = [note EXCEPT ![fil.s].link = IF @ \in plan.froms THEN fil.s ELSE @]
          /\ Next1("move") /\ UNCHANGED row
     ELSE Fails /\ UNCHANGED note
  /\ UNCHANGED <<claim, dirs, man, page, att, rec, acks, hurt, left, journal, review, seen>>

Move ==
  /\ Filed("move")
  /\ IF Unchanged
     THEN /\ note' = [note EXCEPT ![fil.s].month = TRUE]
          /\ journal' = [journal EXCEPT ![fil.s].complete = TRUE]
          /\ Next1("publish") /\ UNCHANGED row
     ELSE Fails /\ UNCHANGED <<note, journal>>
  /\ UNCHANGED <<claim, dirs, man, page, att, rec, acks, hurt, left, review, seen>>

(* _publish: the row as it was read, and the revision the review approved *)
Publish ==
  /\ Filed("publish")
  /\ IF Unchanged
     THEN /\ row' = [row EXCEPT ![fil.s].filed = TRUE, ![fil.s].approved = review[fil.s].rev]
          /\ fil' = NoFiling
     ELSE Fails
  /\ UNCHANGED <<claim, dirs, man, page, note, att, rec, acks, hurt, left, journal, review, seen>>

FailFiling ==
  /\ fil.pc # Idle /\ Fault /\ Fails
  /\ UNCHANGED <<claim, dirs, man, page, note, att, rec, acks, hurt, journal, review, seen>>

(* A device edits the note that is being filed *)
EditNote ==
  /\ fil.fresh /\ Device /\ fil' = [fil EXCEPT !.fresh = FALSE]
  /\ UNCHANGED <<claim, dirs, man, page, note, row, att, rec, acks, hurt, journal, review, seen>>

(* _copy creates the page in place too, under the lock that keeps ingest away: what a
   crash leaves of it keeps the month's path *)
DiesCopying ==
  /\ Filed("copy") /\ At(Idle) /\ Fault /\ Short(fil.s, [fil.text EXCEPT !.reviewed = TRUE])
  /\ hurt' = hurt \cup {"short"} /\ att' = NoAttempt /\ rec' = Idle
  /\ UNCHANGED <<claim, dirs, man, note, row, acks>>
Crash == (Dies \/ DiesCopying) /\ fil' = NoFiling /\ UNCHANGED <<journal, review, seen>>

(* The store is one event loop: where one of the two goes on without an await,
   nothing else of the store comes between, only devices and the end of the process. *)
IngestRuns == att.pc \in {"note", "clean", "unclaim", "unpage", "fill"}
FilingRuns == fil.pc \in {"name", "drop"}

Ingesting == ~FilingRuns /\ UNCHANGED fvars /\ Working
FilingSteps == ~IngestRuns /\ (\/ \E s \in Sids : Begin(s)
                               \/ Open \/ Lock \/ Copy \/ Name \/ Drop \/ Refresh \/ Rewrite
                               \/ Move \/ Publish)
Recovering == ~FilingRuns /\ ~IngestRuns /\ UNCHANGED fvars /\ (RecoverRead \/ RecoverWrite)
FNext ==
  \/ \E c \in Contents : ~HoldsSource /\ Request(c) /\ UNCHANGED fvars
  \/ Ingesting \/ Recovering \/ FilingSteps
  \/ ~FilingRuns /\ (FailNew \/ RecordFails \/ FailRevision \/ FailPage) /\ UNCHANGED fvars
  \/ ~FilingRuns /\ ~IngestRuns /\ MarkReviewed
  \/ ~IngestRuns /\ FailFiling
  \/ (DevicePage \/ DeviceNote) /\ UNCHANGED fvars
  \/ EditNote \/ Crash

Spec == FInit /\ [][FNext]_vars
Fair == WF_vars(Ingesting) /\ WF_vars(Recovering) /\ WF_vars(FilingSteps)
FairSpec == Spec /\ Fair
-----------------------------------------------------------------------------
(* Properties *)

(* What each variable holds: files, rows, and the steps of the two operations. *)
TypeOK ==
  /\ claim \in {None, Torn} \cup Sids
  /\ dirs \in [Sids -> [Revs -> {None, Torn} \cup Contents]]
  /\ man \in [Sids -> {None, Torn} \cup Manifests]
  /\ page \in [Paths -> {None, Foreign} \cup Pages]
  /\ note \in [Sids -> Notes] /\ row \in [Sids -> {None} \cup Rows]
  /\ att \in Attempts /\ rec \in {Idle} \cup [Sids -> {None} \cup Readings]
  /\ acks \subseteq [s : Sids, r : Revs, c : Contents]
  /\ journal \in [Sids -> Plans] /\ review \in [Sids -> {None} \cup Approvals]
  /\ fil \in Filings /\ seen \in [Sids -> SUBSET Revs]

(* What a client was told is stored stays stored, under its revision, and the
   manifest goes on naming it: replays, revisions, failures and crashes included. *)
AcknowledgedIsKept ==
  \A a \in acks : /\ dirs[a.s][a.r] = a.c
                  /\ Whole(a.s) /\ man[a.s].ids[a.r] = a.c /\ man[a.s].cur >= a.r

(* Files first: no row names a revision the manifest does not, or a source without one. *)
RowsNeverAhead == \A s \in Sids : row[s] # None => Whole(s) /\ row[s].cur <= man[s].cur

(* Between attempts a claim leads to a manifest whose revisions are all intact and
   to one note, and an identity without a claim has left nothing behind, so that
   a retry is answered, unless an accident no cleanup could reach came between. *)
ClaimResolves ==
  At(Idle) /\ hurt \cap {"crash", "debris", "stranded", "note"} = {} =>
    /\ claim # Torn
    /\ \A s \in Sids :
         IF claim = s
         THEN /\ Whole(s) /\ note[s].files = 1
              /\ \A r \in Revs : dirs[s][r] = man[s].ids[r]
         ELSE man[s] = None /\ row[s] = None /\ \A r \in Revs : dirs[s][r] = None

(* A manifest leads to a page of its source: a page is carried, replaced or cleaned up
   only where the manifest follows.  A filed note links to the page in its month, and
   that is the page the manifest names.  Both unless a device was at the pages. *)
ManifestLeadsToPage ==
  hurt \cap {"foreign", "debris"} = {} =>
    \A s \in Sids : Whole(s) /\ att.pc # "unpage" => Held(man[s].page, s) # None

(* Neither ingest nor filing writes over, or removes, a file it did not generate. *)
ForeignIsLeftAlone ==
  [][\A p \in Paths : page[p] = Foreign =>
       page'[p] = Foreign \/ left'.accidents < left.accidents \/ "late" \in hurt']_vars

(* A published source carries a revision that a person's review met, never one
   that came after it. *)
PublishedWasApproved ==
  "unrecorded" \notin hurt =>
    \A s \in Sids : row[s] # None /\ row[s].approved # None => row[s].approved \in seen[s]

FiledLeadsToPage ==
  hurt \cap {"foreign", "late"} = {} =>
    \A s \in Sids : row[s] # None /\ row[s].filed =>
       note[s].link = s /\ man[s].page = s /\ Held(s, s) # None

(* All of the pages: links and manifests lead to them, and foreign files are left alone
   (projections.py, filing.py:360-384). *)
PagesStand == [](ManifestLeadsToPage /\ FiledLeadsToPage) /\ ForeignIsLeftAlone

(* A note whose review covers the current revision is filed in the end, once
   people, devices and faults leave it alone.  The copy of a page that a crash or a
   failure cut off stands in the way for ever where it was left short, and where a
   revision came before the retry that would have named it (_copy, filing.py:106-111). *)
Fileable(s) == /\ Whole(s) /\ row[s] # None /\ note[s].files = 1 /\ note[s].reviewed
               /\ Current(s) /\ Held(man[s].page, s) = man[s].cur
AllFiled == \A s \in Sids : Fileable(s) => row[s].filed
FilingConverges == <>[](hurt \cap {"foreign", "short", "outgrown"} = {} => AllFiled)
=============================================================================
