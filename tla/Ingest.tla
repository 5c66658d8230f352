------------------------------ MODULE Ingest ------------------------------
(***************************************************************************)
(* Ingest of one external identity: the claim, the bundle with its         *)
(* revisions, the manifest, the generated page, the opening note and the   *)
(* rows, in the order in which sources.py writes them, against devices,    *)
(* failures, crashes and the recovery of the rows from the manifests.      *)
(* Attempts for one identity take turns (_source_lock_for), so there is    *)
(* one attempt, `att'; a Foreign file is no page of this identity: another *)
(* identity's, a device's, or a page that was left short.                  *)
(***************************************************************************)
EXTENDS Naturals, FiniteSets

CONSTANTS Contents,      \* what a client may send: names and digests of the artifacts
          MaxSources, MaxRevisions, MaxRequests, MaxAccidents, MaxReviews,
          Pending,       \* names under _Pending a new page may take
          None, Torn, Foreign, Idle

ASSUME IngestAssumption ==
  /\ {MaxRequests, MaxAccidents, MaxReviews} \subseteq Nat
  /\ {MaxSources, MaxRevisions} \subseteq Nat \ {0}
  /\ {None, Torn, Foreign} \cap Contents = {}

Sids == 1..MaxSources
Revs == 1..MaxRevisions
Paths == Pending \cup Sids       \* s itself is the name a filed page of s has

Manifests == [cur : Revs, ids : [Revs -> Contents \cup {None}], page : Paths]
Pages     == [s : Sids, r : Revs, edited : BOOLEAN, reviewed : BOOLEAN]
Notes     == [files : 0..2, reviewed : BOOLEAN, link : Paths \cup {None}, month : BOOLEAN]
Rows      == [cur : Revs, linked : BOOLEAN, filed : BOOLEAN, approved : Revs \cup {0, None}]
Readings  == [cur : Revs, linked : BOOLEAN]

(* The steps of a first ingest, of its cleanup, and of a replay or a revision *)
NewSteps   == {"claim", "rows", "dir", "page", "manifest", "note"}
CleanSteps == {"clean", "unclaim", "unpage"}
OldSteps   == {"resolve", "look", "place", "swap", "record", "mkdir", "fill", "supersede", "commit"}

Attempts   == [pc : NewSteps \cup CleanSteps \cup OldSteps \cup {Idle}, c : Contents \cup {None}, s : Sids,
               r : Revs, at : Paths \cup {None}, made : BOOLEAN, flushed : BOOLEAN]

ASSUME ValuesAssumption ==
  /\ None # Torn /\ None # Foreign
  /\ {None, Torn} \cap Sids = {} /\ None \notin Revs \cup Paths
  /\ None \notin Manifests /\ Torn \notin Manifests
  /\ None \notin Pages /\ Foreign \notin Pages
  /\ None \notin Rows /\ None \notin Readings
  /\ Idle \notin NewSteps \cup CleanSteps \cup OldSteps
  /\ Idle \notin [Sids -> {None} \cup Readings]

VARIABLES claim,    \* the claim file: None, Torn, or the source it names
          dirs,     \* revision directories: dirs[s][r]
          man,      \* manifests: None, Torn or a record
          page,     \* what stands at each page name
          note,     \* the opening note: how many files carry it and what they say
          row,      \* committed rows: the source, its link, the note's filed columns
          att,      \* the ingest under way
          rec,      \* what a recovery under way has read
          acks,     \* history: what clients were told is stored
          hurt,     \* history: accidents the code does not promise to mend
          left      \* what may still happen: requests, reviews, device writes and faults

ivars == <<claim, dirs, man, page, note, row, att, rec, acks, hurt, left>>

NoAttempt == [pc |-> Idle, c |-> None, s |-> 1, r |-> 1, at |-> None, made |-> FALSE, flushed |-> FALSE]
NoNote == [files |-> 0, reviewed |-> FALSE, link |-> None, month |-> FALSE]
OpeningNote(p) == [files |-> 1, reviewed |-> FALSE, link |-> p, month |-> FALSE]
Page(s, r) == [s |-> s, r |-> r, edited |-> FALSE, reviewed |-> FALSE]

Init ==
  /\ claim = None
  /\ dirs = [s \in Sids |-> [r \in Revs |-> None]]
  /\ man = [s \in Sids |-> None]
  /\ page = [p \in Paths |-> None]
  /\ note = [s \in Sids |-> NoNote]
  /\ row = [s \in Sids |-> None]
  /\ att = NoAttempt /\ rec = Idle
  /\ acks = {} /\ hurt = {}
  /\ left = [requests |-> MaxRequests, accidents |-> MaxAccidents, reviews |-> MaxReviews]

Whole(s) == man[s] \notin {None, Torn}
(* _verify_revision_artifacts: every digest of revision r is the manifest's *)
Verified(m, s, r) == m.ids[r] = dirs[s][r]
(* projection_revision: the revision the file at p shows, if it is a page of s *)
Held(p, s) == IF p \in Paths /\ page[p] \notin {None, Foreign} /\ page[p].s = s
              THEN page[p].r ELSE None
(* new_projection_path: the first name nothing stands at *)
FreePending == {p \in Pending : page[p] = None}
FirstFree == CHOOSE p \in FreePending : TRUE
(* uq_sources_provider_external_id: another row holds the external identity *)
Conflicting(s) == \E t \in Sids \ {s} : row[t] # None
Linked(s) == row[s] # None /\ row[s].linked
(* What an attempt commits: the source's columns and the link, the rest left alone *)
Mirrored(s, r) == IF row[s] = None THEN [cur |-> r, linked |-> TRUE, filed |-> FALSE, approved |-> None]
                  ELSE [row[s] EXCEPT !.cur = r, !.linked = TRUE]

At(pc) == att.pc = pc
Goto(pc) == att' = [att EXCEPT !.pc = pc]
(* The lock and the transaction end without an answer: the rows are rolled back *)
Refuse == att' = NoAttempt
Fault == left.accidents > 0 /\ left' = [left EXCEPT !.accidents = @ - 1]

-----------------------------------------------------------------------------
(* The first ingest of an identity *)

(* ingest: an identity nobody claimed; _ingest_new names a source that never was *)
Fresh == {s \in Sids : /\ dirs[s][1] = None /\ man[s] = None /\ claim # s /\ row[s] = None
                       /\ note[s] = NoNote /\ \A p \in Paths : Held(p, s) = None}
Request(c) ==
  /\ At(Idle) /\ left.requests > 0
  /\ left' = [left EXCEPT !.requests = @ - 1]
  /\ IF claim = None
     THEN \E s \in Fresh : (\A t \in Fresh : s <= t)
            /\ att' = [NoAttempt EXCEPT !.pc = "claim", !.c = c, !.s = s]
     ELSE att' = [NoAttempt EXCEPT !.pc = "resolve", !.c = c]
  /\ UNCHANGED <<claim, dirs, man, page, note, row, rec, acks, hurt>>

Claim ==
  /\ At("claim")
  /\ claim' = att.s /\ Goto("rows")
  /\ UNCHANGED <<dirs, man, page, note, row, rec, acks, hurt, left>>

FlushRows ==
  /\ At("rows")
  /\ IF Conflicting(att.s) \/ FreePending = {} THEN Goto("clean")
     ELSE att' = [att EXCEPT !.pc = "dir", !.at = FirstFree, !.flushed = TRUE]
  /\ UNCHANGED <<claim, dirs, man, page, note, row, rec, acks, hurt, left>>

MakeFirstRevision ==
  /\ At("dir")
  /\ dirs' = [dirs EXCEPT ![att.s][1] = att.c] /\ Goto("page")
  /\ UNCHANGED <<claim, man, page, note, row, rec, acks, hurt, left>>

(* write_projection where nothing may stand: create_exclusive_bytes *)
PlaceFirstPage ==
  /\ At("page")
  /\ IF page[att.at] # None THEN Goto("clean") /\ UNCHANGED page
     ELSE /\ page' = [page EXCEPT ![att.at] = Page(att.s, 1)]
          /\ att' = [att EXCEPT !.pc = "manifest", !.made = TRUE]
  /\ UNCHANGED <<claim, dirs, man, note, row, rec, acks, hurt, left>>

WriteFirstManifest ==
  /\ At("manifest")
  /\ man' = [man EXCEPT ![att.s] =
              [cur |-> 1, ids |-> [r \in Revs |-> IF r = 1 THEN att.c ELSE None], page |-> att.at]]
  /\ Goto("note")
  /\ UNCHANGED <<claim, dirs, page, note, row, rec, acks, hurt, left>>

CreateNote ==
  /\ At("note")
  /\ note' = [note EXCEPT ![att.s] = OpeningNote(att.at)]
  /\ Goto("commit")
  /\ UNCHANGED <<claim, dirs, man, page, row, rec, acks, hurt, left>>

(* Any write of a first ingest may fail; the page's and the note's name may have been
   taken by another identity's ingest, which is no accident *)
FailNew ==
  /\ att.pc \in NewSteps
  /\ \/ Fault
     \/ att.pc \in {"page", "note"} /\ UNCHANGED left
  /\ IF At("claim") THEN Refuse ELSE Goto("clean")
  /\ UNCHANGED <<claim, dirs, man, page, note, row, rec, acks, hurt>>

(* The page this attempt created is removed by its name, whatever stands there by now *)
Late == hurt' = IF Held(att.at, att.s) = None THEN hurt \cup {"late"} ELSE hurt
TakeBack == IF att.made THEN page' = [page EXCEPT ![att.at] = None] /\ Late
            ELSE UNCHANGED <<page, hurt>>

(* The `finally' of _ingest_new: the bundle, then the claim, then the page *)
CleanBundleButManifest ==
  /\ At("clean") /\ Goto("unclaim")
  /\ dirs' = [dirs EXCEPT ![att.s] = [r \in Revs |-> None]]
  /\ UNCHANGED <<claim, man, page, note, row, rec, acks, hurt, left>>

CleanBundle ==
  /\ At("clean") /\ Goto("unclaim")
  /\ \/ /\ dirs' = [dirs EXCEPT ![att.s] = [r \in Revs |-> None]]
        /\ man' = [man EXCEPT ![att.s] = None]
        /\ UNCHANGED hurt
     \/ hurt' = hurt \cup {"debris"} /\ UNCHANGED <<dirs, man>>    \* rmtree(ignore_errors=True)
  /\ UNCHANGED <<claim, page, note, row, rec, acks, left>>

CleanClaim ==
  /\ At("unclaim") /\ Goto("unpage")
  /\ \/ claim' = None /\ UNCHANGED hurt
     \/ hurt' = hurt \cup {"stranded"} /\ UNCHANGED claim
  /\ UNCHANGED <<dirs, man, page, note, row, rec, acks, left>>

CleanPage ==
  /\ At("unpage") /\ Refuse /\ TakeBack
  /\ UNCHANGED <<claim, dirs, man, note, row, rec, acks, left>>

-----------------------------------------------------------------------------
(* An identity already claimed: replay or revision *)

(* _ingest_existing up to _ensure_mirror: the claim, the manifest and, for a
   replay, the bytes must be in order, and the link or a scan must name one note *)
Resolves(s, c) ==
  /\ s # Torn /\ Whole(s)
  /\ man[s].ids[man[s].cur] = c => Verified(man[s], s, man[s].cur)
  /\ Linked(s) \/ note[s].files = 1
  /\ row[s] = None => ~Conflicting(s)
  /\ man[s].ids[man[s].cur] # c => man[s].cur < MaxRevisions      \* a bound, not the code

Resolve ==
  /\ At("resolve")
  /\ IF ~Resolves(claim, att.c) THEN Refuse
     ELSE LET m == man[claim] IN
          att' = [att EXCEPT !.s = claim, !.flushed = TRUE,
                    !.pc = IF m.ids[m.cur] = att.c THEN "look" ELSE "mkdir",
                    !.r = IF m.ids[m.cur] = att.c THEN m.cur ELSE m.cur + 1]
  /\ UNCHANGED <<claim, dirs, man, page, note, row, rec, acks, hurt, left>>

(* The page where the manifest says, if it is this source's, else a new name *)
PagePath == IF Held(man[att.s].page, att.s) # None THEN man[att.s].page ELSE FirstFree
Nameable == Held(man[att.s].page, att.s) # None \/ FreePending # {}     \* a bound, not the code

Look ==
  /\ At("look") /\ Nameable
  /\ att' = [att EXCEPT !.at = PagePath,
                       !.pc = IF Held(PagePath, att.s) = att.r THEN "record" ELSE "place"]
  /\ UNCHANGED <<claim, dirs, man, page, note, row, rec, acks, hurt, left>>

PlaceOver ==
  /\ At("place")
  /\ page' = [page EXCEPT ![att.at] = Page(att.s, att.r)] /\ Goto("record")
  /\ UNCHANGED <<claim, dirs, man, note, row, rec, acks, hurt, left>>

(* write_projection: create where nothing stands, replace only this source's page *)
Place ==
  /\ At("place")
  /\ IF page[att.at] = None
     THEN /\ page' = [page EXCEPT ![att.at] = Page(att.s, att.r)]
          /\ att' = [att EXCEPT !.pc = "record", !.made = TRUE]
     ELSE /\ IF Held(att.at, att.s) = None THEN Refuse ELSE Goto("swap")
          /\ UNCHANGED page
  /\ UNCHANGED <<claim, dirs, man, note, row, rec, acks, hurt, left>>

(* commit_staged, a moment after _replace_projection looked *)
Swap ==
  /\ At("swap")
  /\ page' = [page EXCEPT ![att.at] = Page(att.s, att.r)]
  /\ Late /\ Goto("record")
  /\ UNCHANGED <<claim, dirs, man, note, row, rec, acks, left>>

(* A replay that placed a page elsewhere names it in the manifest *)
RecordPage ==
  /\ At("record")
  /\ man' = [man EXCEPT ![att.s].page = att.at] /\ Goto("commit")
  /\ UNCHANGED <<claim, dirs, page, note, row, rec, acks, hurt, left>>

RecordFails ==
  /\ At("record") /\ man[att.s].page # att.at /\ Fault /\ Refuse /\ TakeBack
  /\ UNCHANGED <<claim, dirs, man, note, row, rec, acks>>

MakeDirectory ==
  /\ At("mkdir")
  /\ IF dirs[att.s][att.r] # None THEN Refuse /\ UNCHANGED dirs      \* IncompleteRevision
     ELSE dirs' = [dirs EXCEPT ![att.s][att.r] = Torn] /\ Goto("fill")
  /\ UNCHANGED <<claim, man, page, note, row, rec, acks, hurt, left>>

FillDirectory ==
  /\ At("fill") /\ Nameable
  /\ dirs' = [dirs EXCEPT ![att.s][att.r] = att.c]
  /\ att' = [att EXCEPT !.at = PagePath, !.pc = "supersede"]
  /\ UNCHANGED <<claim, man, page, note, row, rec, acks, hurt, left>>

(* The manifest names the revision before its page shows it; a copy at the month's path
   that a filing never named still shows the one before *)
Supersede ==
  /\ At("supersede")
  /\ hurt' = IF att.at # att.s /\ Held(att.s, att.s) # None THEN hurt \cup {"outgrown"} ELSE hurt
  /\ man' = [man EXCEPT ![att.s] = [cur |-> att.r, ids |-> [@.ids EXCEPT ![att.r] = att.c],
                                    page |-> att.at]]
  /\ Goto("place")
  /\ UNCHANGED <<claim, dirs, page, note, row, rec, acks, left>>

FailRevisionRemovesSource ==
  /\ att.pc \in {"fill", "supersede"} /\ Fault /\ Refuse
  /\ dirs' = [dirs EXCEPT ![att.s] = [r \in Revs |-> None]]
  /\ UNCHANGED <<claim, man, page, note, row, rec, acks, hurt>>

FailRevision ==
  /\ att.pc \in {"fill", "supersede"} /\ Fault /\ Refuse
  /\ \/ dirs' = [dirs EXCEPT ![att.s][att.r] = None] /\ UNCHANGED hurt
     \/ hurt' = hurt \cup {"debris"} /\ UNCHANGED dirs
  /\ UNCHANGED <<claim, man, page, note, row, rec, acks>>

(* The page cannot be written: the manifest stands, the rows are rolled back *)
FailPage ==
  /\ att.pc \in {"place", "swap"} /\ Fault /\ Refuse
  /\ UNCHANGED <<claim, dirs, man, page, note, row, rec, acks, hurt>>

Commit ==
  /\ At("commit") /\ Refuse
  /\ \/ /\ row' = [row EXCEPT ![att.s] = Mirrored(att.s, att.r)]
        /\ acks' = acks \cup {[s |-> att.s, r |-> att.r, c |-> att.c]}
        /\ UNCHANGED left
     \/ Fault /\ UNCHANGED <<row, acks>>
  /\ UNCHANGED <<claim, dirs, man, page, note, rec, hurt>>

-----------------------------------------------------------------------------
(* recover_sources: what it reads in one go, its transaction writes later *)

RecoverRead ==
  /\ rec = Idle
  /\ \A s \in Sids : man[s] # None => Whole(s) /\ \A r \in 1..man[s].cur : Verified(man[s], s, r)
  /\ \E s \in Sids : Whole(s) /\ row[s] # Mirrored(s, man[s].cur)
  /\ rec' = [s \in Sids |-> IF Whole(s) THEN [cur |-> man[s].cur, linked |-> note[s].files = 1]
                             ELSE None]
  /\ UNCHANGED <<claim, dirs, man, page, note, row, att, acks, hurt, left>>

Recovered(s) ==
  IF rec[s] = None THEN row[s]
  ELSE IF row[s] = None THEN [cur |-> rec[s].cur, linked |-> rec[s].linked,
                              filed |-> FALSE, approved |-> None]
  ELSE [row[s] EXCEPT !.cur = rec[s].cur, !.approved = IF rec[s].linked THEN None ELSE @,
                      !.linked = @ \/ rec[s].linked]
RecoveryConflicts == \E s \in Sids : /\ rec[s] # None /\ row[s] = None
                                     /\ \E t \in Sids \ {s} : rec[t] # None \/ row[t] # None
RecoverWrite ==
  /\ rec # Idle /\ ~att.flushed            \* rows flushed by an attempt are waited for
  /\ rec' = Idle
  /\ row' = IF RecoveryConflicts THEN row ELSE [s \in Sids |-> Recovered(s)]
  /\ hurt' = IF \E s \in Sids : rec[s] # None /\ Whole(s) /\ rec[s].cur # man[s].cur
             THEN hurt \cup {"overtaken"} ELSE hurt
  /\ UNCHANGED <<claim, dirs, man, page, note, att, acks, left>>

-----------------------------------------------------------------------------
(* Devices, and the end of the process *)

Device == left.accidents > 0 /\ left' = [left EXCEPT !.accidents = @ - 1]

(* A device puts a file of its own at a page's name, or removes or edits a page;
   names that nobody uses or has chosen are all alike, so it leaves them alone *)
DevicePage ==
  /\ Device
  /\ \E p \in {q \in Paths : page[q] # None \/ q \in {att.at, claim}} :
       \/ page' = [page EXCEPT ![p] = Foreign] /\ hurt' = hurt \cup {"foreign"}
       \/ page[p] # None /\ page' = [page EXCEPT ![p] = None] /\ hurt' = hurt \cup {"foreign"}
       \/ /\ page[p] \notin {None, Foreign}
          /\ page' = [page EXCEPT ![p].edited = TRUE] /\ hurt' = hurt \cup {"foreign"}
  /\ UNCHANGED <<claim, dirs, man, note, row, att, rec, acks>>

(* A device deletes the opening note, or copies it under another name *)
DeviceNote ==
  /\ Device
  /\ \E s \in Sids, n \in {0, 2} : note[s].files = 1 /\ note' = [note EXCEPT ![s].files = n]
  /\ hurt' = hurt \cup {"note"}
  /\ UNCHANGED <<claim, dirs, man, page, row, att, rec, acks>>

(* The process dies; a file that was being created in place may be left short.  A page
   cut in its frontmatter is nobody's, one cut later reads as a page somebody edited. *)
Short(p, whole) == /\ page[p] = None
                   /\ \E cut \in {Foreign, [whole EXCEPT !.edited = TRUE]} :
                        page' = [page EXCEPT ![p] = cut]
Dies ==
  /\ Fault /\ att' = NoAttempt /\ rec' = Idle
  /\ hurt' = IF att.pc \in {Idle, "resolve", "look", "commit"} THEN hurt ELSE hurt \cup {"crash"}
  /\ \/ UNCHANGED <<claim, dirs, man, page>>
     \/ At("claim") /\ claim' = Torn /\ UNCHANGED <<dirs, man, page>>
     \/ At("dir") /\ dirs' = [dirs EXCEPT ![att.s][1] = Torn] /\ UNCHANGED <<claim, man, page>>
     \/ At("manifest") /\ man' = [man EXCEPT ![att.s] = Torn] /\ UNCHANGED <<claim, dirs, page>>
     \/ /\ att.pc \in {"page", "place"} /\ Short(att.at, Page(att.s, att.r))
        /\ UNCHANGED <<claim, dirs, man>>
  /\ UNCHANGED <<note, row, acks>>

Working == \/ Claim \/ FlushRows \/ MakeFirstRevision \/ PlaceFirstPage \/ WriteFirstManifest
           \/ CreateNote \/ CleanBundle \/ CleanClaim \/ CleanPage \/ Resolve \/ Look \/ Place
           \/ Swap \/ RecordPage \/ MakeDirectory \/ FillDirectory \/ Supersede \/ Commit
INext == \/ \E c \in Contents : Request(c)
         \/ Working \/ FailNew \/ RecordFails \/ FailRevision \/ FailPage
         \/ RecoverRead \/ RecoverWrite \/ DevicePage \/ DeviceNote
=============================================================================
