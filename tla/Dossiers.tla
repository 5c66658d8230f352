------------------------------ MODULE Dossiers ------------------------------
(***************************************************************************)
(* A dossier (entities.py): the facts the catalog keeps about a person,    *)
(* the page it generates from them, and what the owner says by editing     *)
(* that page.  A refresh reads the page, takes the owner's edits for       *)
(* corrections, follows the notes that support a fact, and writes the page *)
(* again; the catalog is saved with the text it is about to write first,   *)
(* so that its own writing is not taken for the owner's after a crash.     *)
(* One dossier, one note that mentions it; the lock makes the service's    *)
(* operations one at a time, devices edit whenever they like.              *)
(***************************************************************************)
EXTENDS Naturals, FiniteSets

CONSTANTS Versions,     \* of the note; a fact of the metadata belongs to one version
          MaxEdits, MaxChanges, MaxMirrors, MaxFaults, None

VARIABLES page,     \* the generated block of the page, or None
          note,     \* the version the mirror has of the reviewed note, or None
          catalog,  \* catalog.json
          job,      \* the operation under way and the catalog it has in memory
          owner,    \* history: the lines the owner has removed, the words written, and taken back
          torn,     \* history: what the page was given and the catalog may not know of
          unheard,  \* history: why an edit of the owner was not heard
          leave

vars == <<page, note, catalog, job, owner, torn, unheard, leave>>

(* Lines and facts are sets of words: the mention of a version, the evidence printed under
   it, and what the owner writes on the page or asks for *)
Mention(v) == {<<"mention", v>>}
Evidence(v) == <<"evidence", v>>
Word == <<"word", leave.edits>>
Asked == <<"asked", leave.changes>>
Line(id, text) == [id |-> id, text |-> text]
Block(lines, rest, retired) == [lines |-> lines, rest |-> rest, retired |-> retired]

Idle == [pc |-> "idle", mem |-> None, seen |-> None, then |-> None]
Start(pc) ==
  /\ page = None /\ note = CHOOSE v \in Versions : TRUE
  /\ catalog = [facts |-> [id \in {} |-> None], generated |-> None, pending |-> None, retired |-> FALSE]
  /\ job = [Idle EXCEPT !.pc = pc]
  /\ owner = [gone |-> {}, wrote |-> {}, took |-> {}] /\ torn = None /\ unheard = {}
  /\ leave = [edits |-> MaxEdits, changes |-> MaxChanges, mirrors |-> MaxMirrors, faults |-> MaxFaults]
Init == Start("idle")

MayEdit == leave.edits > 0 /\ leave' = [leave EXCEPT !.edits = @ - 1]
MayChange == leave.changes > 0 /\ leave' = [leave EXCEPT !.changes = @ - 1]
MayMirror == leave.mirrors > 0 /\ leave' = [leave EXCEPT !.mirrors = @ - 1]
Fails == leave.faults > 0 /\ leave' = [leave EXCEPT !.faults = @ - 1]

-----------------------------------------------------------------------------
(* Facts *)

Fact(state, why) == [state |-> state, why |-> why]
Ids(c) == DOMAIN c.facts
Is(c, id, state) == id \in Ids(c) /\ c.facts[id].state = state
With(c, ids, fact) == [c EXCEPT !.facts = [id \in Ids(c) \cup ids |->
                                             IF id \in ids THEN fact ELSE c.facts[id]]]
Withdraw(c, ids) == With(c, ids, Fact("withdrawn", None))
Confirm(c, ids) == With(c, ids, Fact("confirmed", None))

Supported(id) == note # None /\ id = Mention(note)
OfNote(id) == \E v \in Versions : id = Mention(v)

(* The mention of the current version is added once; the others wait for their version *)
Contribute(c) ==
  LET new == IF note # None /\ ~c.retired THEN {Mention(note)} \ Ids(c) ELSE {}
      all == Confirm(c, new)
  IN [all EXCEPT !.facts = [id \in Ids(all) |->
       LET f == all.facts[id]
       IN IF ~OfNote(id) THEN f
          ELSE IF ~Supported(id)
          THEN IF f.state = "confirmed" THEN Fact("withdrawn", "evidence") ELSE f
          ELSE IF f = Fact("withdrawn", "evidence") THEN Fact("confirmed", None) ELSE f]]

Render(c) ==
  IF c.retired THEN Block({}, {}, TRUE)
  ELSE LET shown == {id \in Ids(c) : Is(c, id, "confirmed")}
       IN Block({Line(id, id) : id \in shown}, {Evidence(v) : v \in {v \in Versions : Mention(v) \in shown}}, FALSE)

(* observe: the owner's edits are the differences to the text the store wrote last *)
Known(c) == IF page = c.pending /\ page # None
            THEN [c EXCEPT !.generated = page, !.pending = None] ELSE c
Corrected(c) ==
  LET old == c.generated
      open == {l \in old.lines : Is(c, l.id, "confirmed")}
      edits == {l \in page.lines : \E o \in open : o.id = l.id /\ o.text # l.text}
      gone == {o.id : o \in {o \in open : o \notin page.lines}}
      more == page.rest \ old.rest
      words == {l.text : l \in edits} \cup (IF more = {} THEN {} ELSE {more})
  IN [Confirm(Withdraw(c, gone), words) EXCEPT !.generated = page, !.pending = None]
Observe(c) ==
  IF page = None THEN [c EXCEPT !.retired = @ \/ c.generated # None]
  ELSE LET k == Known(c) IN IF k.generated # None /\ page # k.generated THEN Corrected(k) ELSE k

-----------------------------------------------------------------------------
(* refresh, and project at its end or after a change *)

(* What is to be written is saved before it is written *)
SaveAfter(c) == catalog
SaveBefore(c) == c
Due(c) == ~(c.retired /\ page = None) /\ page # Render(c)
Project(c, saved, then) ==
  LET wanted == [c EXCEPT !.pending = Render(c)]
  IN IF Due(c)
     THEN /\ catalog' = SaveBefore(wanted) /\ torn' = None
          /\ job' = [pc |-> "write", mem |-> wanted, seen |-> page, then |-> then]
     ELSE /\ catalog' = saved /\ UNCHANGED torn
          /\ job' = [pc |-> "save", mem |-> c, seen |-> page, then |-> then]

(* An edit is not heard when it met text the catalog does not know as its own, or the line
   of a fact that was withdrawn while the line was still on the page *)
Overtaken(c) == /\ page # None /\ c.generated # None /\ page # c.generated
                /\ \E l \in c.generated.lines \ page.lines : ~Is(c, l.id, "confirmed")
Listens(c) ==
  unheard' = unheard \cup (IF torn # None /\ page # torn THEN {"torn"} ELSE {})
                     \cup (IF Overtaken(Known(c)) THEN {"overtaken"} ELSE {})

Refresh(then) ==
  /\ job.pc = "idle" /\ (then = "change" => MayChange) /\ (then = None => UNCHANGED leave)
  /\ Listens(catalog)
  /\ Project(Contribute(Observe(catalog)), catalog, then)
  /\ UNCHANGED <<page, note, owner>>

(* What was on the page and not heard yet goes with the page *)
Unheard(c) == [owner EXCEPT
  !.gone = {id \in @ : id \in Ids(c) /\ c.facts[id] = Fact("withdrawn", None)},
  !.took = @ \cup {w \in owner.wrote : \A id \in Ids(c) : w \notin id}]

(* A page there was none of is created where there still is none; one that was read is looked
   at once more, and replaced only where it still is what was read *)
Written ==
  /\ page' = Render(job.mem) /\ torn' = page'
  /\ job' = [job EXCEPT !.pc = "save", !.mem.generated = Render(job.mem), !.mem.pending = None]
Anyway == TRUE
AsRead == page = job.seen
Create == job.seen = None /\ page = None /\ Written
LookAgain == job.seen # None /\ AsRead /\ job' = [job EXCEPT !.pc = "place", !.seen = page] /\ UNCHANGED <<page, torn>>
HeldBack == ~AsRead /\ job' = [job EXCEPT !.pc = "save"] /\ UNCHANGED <<page, torn>>
Write ==
  /\ job.pc = "write"
  /\ Create \/ LookAgain \/ HeldBack
  /\ UNCHANGED <<note, catalog, owner, unheard, leave>>

(* The replacement is a call of its own: what a device wrote since that look, and only that,
   is written over *)
Place ==
  /\ job.pc = "place" /\ Written
  /\ owner' = IF page = job.seen THEN owner ELSE Unheard(job.mem)
  /\ UNCHANGED <<note, catalog, unheard, leave>>

Save ==
  /\ job.pc = "save"
  /\ catalog' = job.mem /\ torn' = None
  /\ job' = IF job.then = None THEN Idle ELSE [Idle EXCEPT !.pc = job.then]
  /\ UNCHANGED <<page, note, owner, unheard, leave>>

(* change: the catalog is saved with the change, then the page read and written again *)
Change(c) ==
  /\ job.pc = "change"
  /\ Listens(c)
  /\ Project(Observe(c), c, None)
  /\ UNCHANGED <<page, note, leave>>

WithdrawFact(id) ==
  /\ ~catalog.retired
  /\ owner' = [owner EXCEPT !.gone = @ \cup {id}]
  /\ Change(Withdraw(catalog, {id}))
CorrectFact(id) ==
  /\ ~catalog.retired
  /\ owner' = [owner EXCEPT !.gone = @ \cup {id}, !.wrote = @ \cup {Asked}]
  /\ Change(Confirm(Withdraw(catalog, {id}), {{Asked}}))
Retire == ~catalog.retired /\ UNCHANGED owner /\ Change([catalog EXCEPT !.retired = TRUE])
Restore ==
  /\ catalog.retired /\ UNCHANGED owner
  /\ Change(IF page = None THEN [catalog EXCEPT !.retired = FALSE, !.generated = None, !.pending = None]
            ELSE [catalog EXCEPT !.retired = FALSE])
Refused == job.pc = "change" /\ job' = Idle /\ UNCHANGED <<page, note, catalog, owner, torn, unheard, leave>>

-----------------------------------------------------------------------------
(* The mirror, the owner, and the store's death *)

NoteChanges(v) ==
  /\ v # note /\ note' = v /\ MayMirror
  /\ UNCHANGED <<page, catalog, job, owner, torn, unheard>>

Edits(p, gone, words, taken) ==
  /\ MayEdit /\ page' = p
  /\ owner' = [gone |-> owner.gone \cup gone, wrote |-> owner.wrote \cup words,
               took |-> owner.took \cup taken]
  /\ UNCHANGED <<note, catalog, job, torn, unheard>>
Replaces(l, lines, words) ==
  Edits([page EXCEPT !.lines = (@ \ {l}) \cup lines], {l.id}, words, l.text \ l.id)
RemovesLine == \E l \in page.lines : Replaces(l, {}, {})
RewritesLine == \E l \in page.lines : Replaces(l, {Line(l.id, {Word})}, {Word})
AddsLine == Edits([page EXCEPT !.rest = @ \cup {Word}], {}, {Word}, {})
OwnerEdits == page # None /\ (RemovesLine \/ RewritesLine \/ AddsLine)

OwnerDeletesPage ==
  /\ page # None /\ MayEdit /\ page' = None
  /\ owner' = Unheard(IF job.pc \in {"write", "place", "save"} THEN job.mem ELSE catalog)
  /\ UNCHANGED <<note, catalog, job, torn, unheard>>

Crash ==
  /\ job.pc # "idle" /\ Fails /\ job' = Idle
  /\ owner' = IF page = None THEN Unheard(catalog) ELSE owner
  /\ UNCHANGED <<page, note, catalog, torn, unheard>>

Next ==
  \/ Refresh(None) \/ Refresh("change") \/ Write \/ Place \/ Save
  \/ (\E id \in Ids(catalog) : WithdrawFact(id) \/ CorrectFact(id)) \/ Retire \/ Restore \/ Refused
  \/ (\E v \in Versions \cup {None} : NoteChanges(v))
  \/ OwnerEdits \/ OwnerDeletesPage \/ Crash

Spec == Init /\ [][Next]_vars

-----------------------------------------------------------------------------
TypeOK == /\ job.pc \in {"idle", "write", "place", "save", "change", "off"}
          /\ \A id \in Ids(catalog) : OfNote(id) \/ catalog.facts[id].why = None

OnThePage(w) == page # None /\ (w \in page.rest \/ \E l \in page.lines : w \in l.text)
Shown(id) == page # None /\ Line(id, id) \in page.lines

(* What the owner took off the page is not printed again, and what the owner wrote is on the
   page or in the catalog *)
Heard == /\ \A id \in owner.gone : ~(Shown(id) /\ Is(catalog, id, "confirmed"))
         /\ \A w \in owner.wrote \ owner.took : OnThePage(w) \/ \E id \in Ids(catalog) : w \in id

(* What the store wrote itself is never taken for the owner's: every correction and every
   withdrawal in the catalog that no note explains is one the owner made *)
OwnersOnly == \A id \in Ids(catalog) :
  /\ ~OfNote(id) => id \subseteq owner.wrote
  /\ catalog.facts[id] = Fact("withdrawn", None) => id \in owner.gone

(* Through refreshes, changes of the note and crashes the owner's corrections stand, and
   nobody else makes any (entities.py:373, what is expected is saved before it is written).
   What the owner writes between the store's last look at the page (380) and its replacement
   (382) is written over and asked for no longer: see Place. *)
CorrectionsStand == unheard = {} => Heard /\ OwnersOnly

(* "Next pass imports the device edit before writing again" (entities.py:381), which the
   code says of an edit made between its reading of a page and its writing. *)
NextPassImports == unheard \subseteq {"overtaken"} => Heard
=============================================================================
