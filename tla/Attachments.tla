----------------------------- MODULE Attachments -----------------------------
(***************************************************************************)
(* The upgrade of attachments (artifacts.py migrate_attachments): what an  *)
(* earlier release copied into the folder of attachments becomes artifacts,*)
(* a batch in every sweep, the notes that link the former paths follow,    *)
(* and only then the files go.  People edit the notes beside it, a new     *)
(* revision of the source is filed, and the pass may end at any step.      *)
(*                                                                         *)
(* The storing of an artifact is one step here: Artifacts has its own.     *)
(***************************************************************************)
EXTENDS Naturals, FiniteSets

CONSTANTS Files, Artifact,  \* the former files, in the order they are listed
          Of,               \* the artifact each is a revision of, or None if no source names it
          Notes, Embeds,    \* the notes, and those that embed what others link
          Batch, MaxEdits, MaxFaults, None

VARIABLES files,      \* those still there
          kept, current,   \* what an artifact has as its revisions and shows; 0 is the newest
          notes,
          pc, job,
          missed,      \* history: <<note, file>>, linked too late or in a note that could not be read
          overtaken,   \* history: notes written between two looks
          leave

vars == <<files, kept, current, notes, pc, job, missed, overtaken, leave>>

NoText == [old |-> {}, new |-> {}, cited |-> {}, words |-> 0, kind |-> "fit"]
NoJob == [todo |-> {}, moved |-> {}, notes |-> {}, note |-> None, read |-> NoText, found |-> NoText]
Named == {f \in Files : Of[f] # None}

Start(at) ==
  /\ files = Files /\ kept = [a \in Artifact |-> {}] /\ current = [a \in Artifact |-> None]
  /\ \E kind \in (IF at = "off" THEN {[n \in Notes |-> "fit"]} ELSE [Notes -> {"fit", "unfit", "page"}]) :
       notes = [n \in Notes |-> [NoText EXCEPT !.old = Files, !.kind = kind[n]]]
  /\ pc = at /\ job = NoJob /\ missed = {} /\ overtaken = {}
  /\ leave = [edits |-> MaxEdits, faults |-> MaxFaults]
Init == Start("idle")

May(what) == leave[what] > 0 /\ leave' = [leave EXCEPT ![what] = @ - 1]
First(S) == CHOOSE x \in S : \A y \in S : x <= y
Keeps(a, b) == [kept EXCEPT ![a] = @ \cup {b}]

-----------------------------------------------------------------------------
Lists ==
  /\ pc = "idle" /\ files # {} /\ pc' = "register"
  /\ job' = [NoJob EXCEPT !.todo = {f \in files : Cardinality({g \in files : g < f}) < Batch}]
  /\ missed' = {m \in missed : m[2] \notin files}
  /\ UNCHANGED <<files, kept, current, notes, overtaken, leave>>

(* file_source_artifact: a replay where it is the current revision, a revision where it is not *)
Register ==
  /\ pc = "register" /\ job.todo # {}
  /\ LET f == First(job.todo)
     IN IF f \in Named
        THEN /\ kept' = Keeps(Of[f], f) /\ current' = [current EXCEPT ![Of[f]] = f]
             /\ job' = [job EXCEPT !.todo = @ \ {f}, !.moved = @ \cup {f}]
        ELSE job' = [job EXCEPT !.todo = @ \ {f}] /\ UNCHANGED <<kept, current>>
  /\ UNCHANGED <<files, notes, pc, missed, overtaken, leave>>

UnlinkFirst == "unlink"
FollowFirst == "notes"
AfterRegister == FollowFirst
Registered ==
  /\ pc = "register" /\ job.todo = {} /\ pc' = IF job.moved = {} THEN "idle" ELSE AfterRegister
  /\ job' = [job EXCEPT !.notes = Notes]
  /\ UNCHANGED <<files, kept, current, notes, missed, overtaken, leave>>

-----------------------------------------------------------------------------
(* _repoint_notes, one file after the other *)

(* Any revision's path is followed where it is embedded, the moved one's where it is linked *)
Follows(n) == IF n \in Embeds THEN {f \in Named : Of[f] \in {Of[g] : g \in job.moved}} ELSE job.moved
Repointed(n, text) == [text EXCEPT !.old = @ \ Follows(n), !.new = @ \cup {Of[f] : f \in text.old \cap Follows(n)}]

Misses(n) == missed \cup ({n} \X (notes[n].old \cap job.moved))
ReadNote ==
  /\ pc = "notes" /\ job.notes # {}
  /\ LET n == First(job.notes)
     IN /\ job' = [job EXCEPT !.notes = @ \ {n}, !.note = n, !.read = notes[n]]
        /\ pc' = IF notes[n].kind = "fit" /\ Repointed(n, notes[n]) # notes[n] THEN "fetch" ELSE "notes"
        /\ notes' = IF notes[n].kind = "page" THEN [notes EXCEPT ![n] = Repointed(n, @)] ELSE notes
        /\ missed' = IF notes[n].kind = "unfit" THEN Misses(n) ELSE missed
  /\ UNCHANGED <<files, kept, current, overtaken, leave>>

(* get_note: the frontmatter and the hash of the note as it is now *)
Fetch ==
  /\ pc = "fetch"
  /\ IF notes[job.note].kind = "fit"
     THEN pc' = "replace" /\ job' = [job EXCEPT !.found = notes[job.note]] /\ UNCHANGED missed
     ELSE \/ pc' = "notes" /\ missed' = Misses(job.note) /\ UNCHANGED job
          \/ pc' = "idle" /\ job' = NoJob /\ UNCHANGED missed
  /\ UNCHANGED <<files, kept, current, notes, overtaken, leave>>

(* replace_note: the body that was read first, with the frontmatter and the hash of the second *)
Regardless == TRUE
StillSo == notes[job.note] = job.found
Cites(text) == {a \in {Of[f] : f \in job.moved} : a \in text.new}
CitesNothing(text) == {}
Cited(text) == Cites(text)
Replace ==
  /\ pc = "replace"
  /\ IF StillSo
     THEN LET text == Repointed(job.note, job.read)
          IN /\ notes' = [notes EXCEPT ![job.note] = [text EXCEPT !.cited = job.found.cited \cup Cited(text)]]
             /\ pc' = "notes" /\ UNCHANGED job
     ELSE pc' = "idle" /\ job' = NoJob /\ UNCHANGED notes
  /\ UNCHANGED <<files, kept, current, missed, overtaken, leave>>

Followed ==
  /\ pc = "notes" /\ job.notes = {} /\ pc' = "unlink"
  /\ UNCHANGED <<files, kept, current, notes, job, missed, overtaken, leave>>

Unlink ==
  /\ pc = "unlink"
  /\ IF job.moved = {} THEN pc' = "idle" /\ UNCHANGED <<files, job>>
     ELSE /\ files' = files \ {First(job.moved)} /\ job' = [job EXCEPT !.moved = @ \ {First(job.moved)}]
          /\ UNCHANGED pc
  /\ UNCHANGED <<kept, current, notes, missed, overtaken, leave>>

-----------------------------------------------------------------------------
(* The database, the notes filesystem or the store itself fails *)
Fails ==
  /\ pc \notin {"off", "idle"} /\ May("faults") /\ pc' = "idle" /\ job' = NoJob
  /\ UNCHANGED <<files, kept, current, notes, missed, overtaken>>

(* The source's newest revision is filed *)
Refile(a) ==
  /\ pc # "off" /\ current[a] \notin {None, 0}
  /\ kept' = Keeps(a, 0) /\ current' = [current EXCEPT ![a] = 0]
  /\ May("edits") /\ UNCHANGED <<files, notes, pc, job, missed, overtaken>>

Visited(n) == pc = "unlink" \/ (pc = "notes" /\ n \notin job.notes)
              \/ (pc \in {"fetch", "replace"} /\ n \notin job.notes \cup {job.note})
(* Somebody writes in a note, links a former file or none, makes it unreadable or mends it *)
Edit(n) ==
  /\ pc # "off" /\ May("edits")
  /\ \E old \in {{}, notes[n].old, Files}, kind \in {"fit", "unfit"} :
       /\ notes' = [notes EXCEPT ![n].old = old, ![n].words = @ + 1,
                                 ![n].kind = IF @ = "page" THEN @ ELSE kind]
       /\ missed' = missed \cup ({n} \X {f \in old \ notes[n].old : Visited(n) \/ f \notin files})
  /\ overtaken' = IF pc = "fetch" /\ job.note = n THEN overtaken \cup {n} ELSE overtaken
  /\ UNCHANGED <<files, kept, current, pc, job>>

Migrate == Lists \/ Register \/ Registered \/ ReadNote \/ Fetch \/ Replace \/ Followed \/ Unlink
Next == Migrate \/ Fails \/ (\E a \in Artifact : Refile(a)) \/ \E n \in Notes : Edit(n)
(* A sweep comes with every pass of the reconciler *)
Fairness == WF_vars(Migrate)
Spec == Init /\ [][Next]_vars /\ Fairness

-----------------------------------------------------------------------------
TypeOK == /\ files \subseteq Files /\ job.moved \subseteq Named /\ job.todo \subseteq Files
          /\ \A n \in Notes : notes[n].old \subseteq Files /\ notes[n].new \subseteq Artifact

(* A file goes when an artifact has its bytes and every note has followed: not the notes that
   could not be read when their turn came, nor what was written after it *)
NothingDangles == \A f \in Files \ files : /\ f \in kept[Of[f]]
                                           /\ \A n \in Notes : f \in notes[n].old => <<n, f>> \in missed
(* A note that links an artifact because its attachment moved there cites it *)
MovedIsCited == \A n \in Notes : notes[n].kind = "fit" => notes[n].new \subseteq notes[n].cited
(* What somebody wrote stands, unless it came between the two looks at the note *)
WordsStand == \A n \in Notes : notes'[n].words >= notes[n].words \/ n \in overtaken
(* All that a source names is moved in the end, when a batch has room for more than what no
   source names *)
Moved == pc = "off" \/ Batch <= Cardinality(Files \ Named) \/ files \cap Named = {}

(* The attachments become artifacts, and no note loses what it shows or says. *)
AttachmentsFollow == [](NothingDangles /\ MovedIsCited) /\ [][WordsStand]_vars /\ []<>Moved
=============================================================================
