----------------------------- MODULE Reconciler -----------------------------
(***************************************************************************)
(* coppermind_store/reconciler.py: the pass that brings the mirror in      *)
(* PostgreSQL back to what the notes filesystem says.                      *)
(*                                                                         *)
(* A pass reads the mirror, walks the filesystem in a thread, gives        *)
(* identities to device-created files, and then updates the rows it has    *)
(* read stale, all while devices and the store's own writers go on.  The   *)
(* walk is no snapshot: each folder is listed, each file stat'ed and read  *)
(* at a moment of its own.                                                 *)
(*                                                                         *)
(* Every path stands for a file in a folder of its own.  A version stands  *)
(* for the bytes of a file, its size and its mtime together: whoever       *)
(* writes a file makes a new one.  A row keeps the hash and the stat apart,*)
(* as two versions.  NoteWrites has the writers in full; here a writer is  *)
(* the stretch from the moment it takes the time of its row update to the  *)
(* commit of that update.                                                  *)
(***************************************************************************)
EXTENDS Naturals, FiniteSets

CONSTANTS Ids, Paths, Versions, NoId, None,
          Ops,               \* tasks that write a note for a client
          AdoptionsPerPass,  \* _ADOPTIONS_PER_PASS
          MaxDevice,         \* bound: what devices do to the filesystem
          MaxWrites,         \* bound: the writes clients ask for
          MaxFaults          \* bound: passes that fail, crashes, failed adoptions

ASSUME BoundsAssumption == /\ IsFiniteSet(Ids) /\ IsFiniteSet(Paths)
                           /\ AdoptionsPerPass \in Nat \ {0}
                           /\ MaxDevice \in Nat /\ MaxWrites \in Nat /\ MaxFaults \in Nat

(* A file names an identity or none, parses or is broken (its identity may be
   recoverable all the same), or cannot be opened; it is settled once the
   quiet period has passed over its mtime. *)
Content == {"good", "broken", "locked"}
File    == [id : Ids \cup {NoId}, ver : Versions, content : Content, settled : BOOLEAN]
Row     == [path : Paths, hash : Versions, stat : Versions \cup {None},
            state : {"ok", "unparsed", "missing"}]
Observation == [id : Ids, path : Paths, state : {"ok", "unparsed", "unreadable"},
                hash : Versions, stat : Versions, derived : BOOLEAN]
Writer  == [id : Ids, from : Paths, to : Paths, etag : Versions, ver : Versions \cup {None},
            step : {"write", "unlink", "commit"}, early : BOOLEAN]
Candidate == [path : Paths, ver : Versions, stat : Versions]
Adoption  == [cand : Candidate, id : Ids, looked : BOOLEAN, ver : Versions \cup {None}]

ASSUME NamesAssumption == /\ NoId \notin Ids
                          /\ None \notin Ids \cup Paths \cup Versions
                          /\ None \notin File \cup Row \cup Writer \cup Adoption

NoRows  == [i \in Ids |-> None]
NoPaths == [p \in Paths |-> None]

VARIABLES files,      \* the notes filesystem: path -> file or None
          rows,       \* committed rows: identity -> row or None
          writing,    \* per writer: the write under way, or None
          late,       \* rows whose updated_at is past the start of this pass
          remembered, \* path -> the stat of a file that names no known note
          pass,       \* the pass under way
          touched,    \* history: paths somebody else changed during this pass
          meddled,    \* history: somebody else changed the file being adopted since the last look at it
          disturbed,  \* history: identities whose files a device touched during this pass,
                      \* or whose file a writer of another note took away during it
          overtaken,  \* history: rows a writer of before this pass committed during it
          devices, writes, faults  \* history: the bounded events so far

vars == <<files, rows, writing, late, remembered, pass, touched, meddled, disturbed, overtaken,
          devices, writes, faults>>

(* Between passes nothing of a pass is kept. *)
Rest == [phase |-> "rest", full |-> FALSE, mirror |-> NoRows, todo |-> {}, at |-> None,
         stat |-> None, settling |-> FALSE, observed |-> {}, held |-> {}, deferred |-> FALSE,
         learned |-> NoPaths, candidates |-> {}, adopting |-> None, adopted |-> 0,
         fetched |-> NoRows]

(* Every note begins with bytes of its own. *)
FirstVersions == LET distinct == {f \in [Ids -> Versions] : \A i, j \in Ids : i # j => f[i] # f[j]}
                 IN  IF distinct = {} THEN {} ELSE {CHOOSE f \in distinct : TRUE}

(* The store after some notes were created and one pass went over them. *)
Init ==
  /\ \E home \in [Ids -> Paths \cup {None}], ver \in FirstVersions :
        /\ \A i, j \in Ids : i # j => home[i] # home[j] \/ home[i] = None
        /\ files = [p \in Paths |->
              IF \E i \in Ids : home[i] = p
              THEN LET i == CHOOSE i \in Ids : home[i] = p
                   IN  [id |-> i, ver |-> ver[i], content |-> "good", settled |-> TRUE]
              ELSE None]
        /\ rows = [i \in Ids |->
              IF home[i] = None THEN None
              ELSE [path |-> home[i], hash |-> ver[i], stat |-> ver[i], state |-> "ok"]]
  /\ writing = [o \in Ops |-> None]
  /\ late = {} /\ remembered = NoPaths /\ pass = Rest
  /\ touched = {} /\ meddled = FALSE /\ disturbed = {} /\ overtaken = {}
  /\ devices = 0 /\ writes = 0 /\ faults = 0

-----------------------------------------------------------------------------
Names(i) == {p \in Paths : files[p] # None /\ files[p].id = i}
Live(i)  == rows[i] # None /\ rows[i].state # "missing"
Writers(i) == {o \in Ops : writing[o] # None /\ writing[o].id = i}

(* Bytes nobody holds or remembers. *)
RowVersions(r) == UNION {{r[i].hash, r[i].stat} : i \in {j \in Ids : r[j] # None}}
TakenVersions ==
  {files[p].ver : p \in {q \in Paths : files[q] # None}}
  \cup RowVersions(rows) \cup RowVersions(pass.mirror) \cup RowVersions(pass.fetched)
  \cup (UNION {{ob.hash, ob.stat} : ob \in pass.observed})
  \cup (UNION {{c.ver, c.stat} : c \in pass.candidates})
  \cup {remembered[p] : p \in Paths} \cup {pass.learned[p] : p \in Paths} \cup {pass.stat}
  \cup (IF pass.adopting = None THEN {} ELSE {pass.adopting.ver})
  \cup (UNION {{writing[o].etag, writing[o].ver} : o \in {u \in Ops : writing[u] # None}})
Fresh == LET free == Versions \ TakenVersions
         IN  IF free = {} THEN {} ELSE {CHOOSE v \in free : TRUE}

-----------------------------------------------------------------------------
(* The walk (_scan). *)

(* reconcile_once takes the time the pass starts at before it reads the mirror. *)
Begin ==
  /\ pass.phase = "rest"
  /\ \E full \in BOOLEAN : pass' = [Rest EXCEPT !.phase = "mirror", !.full = full]
  /\ late' = {}
  /\ writing' = [o \in Ops |-> IF writing[o] = None THEN None
                               ELSE [writing[o] EXCEPT !.early = TRUE]]
  /\ touched' = {} /\ meddled' = FALSE /\ disturbed' = {} /\ overtaken' = {}
  /\ UNCHANGED <<files, rows, remembered, devices, writes, faults>>

ReadMirror ==
  /\ pass.phase = "mirror"
  /\ pass' = [pass EXCEPT !.phase = "walk", !.mirror = rows, !.todo = Paths]
  /\ UNCHANGED <<files, rows, writing, late, remembered, touched, meddled, disturbed, overtaken,
                 devices, writes, faults>>

Known == {i \in Ids : pass.mirror[i] # None}

(* _by_path: the one live row that claims p, if only one does. *)
Claimants(p) == {i \in Known : pass.mirror[i].state # "missing" /\ pass.mirror[i].path = p}
Entry(p) == IF Cardinality(Claimants(p)) = 1 THEN Claimants(p) ELSE {}

(* A step of the walk reads the filesystem and touches nothing else. *)
Scanning == UNCHANGED <<files, rows, writing, late, remembered, touched, meddled, disturbed, overtaken,
                        devices, writes, faults>>
Visited(scan) == [scan EXCEPT !.at = None, !.stat = None, !.settling = FALSE,
                              !.phase = "walk"]

(* os.walk lists a folder: a file that is not in it now is never visited. *)
List(p) ==
  /\ pass.phase = "walk" /\ p \in pass.todo
  /\ pass' = [pass EXCEPT !.todo = @ \ {p},
                          !.at = IF files[p] = None THEN None ELSE p,
                          !.phase = IF files[p] = None THEN "walk" ELSE "stat"]
  /\ Scanning

(* What is left for the next pass, with the note whose path this is kept where it is. *)
Defer(scan, ids) == [scan EXCEPT !.deferred = TRUE, !.held = @ \cup ids]

HoldSettling(scan, ids) == [scan EXCEPT !.held = @ \cup ids]

(* A file of a note that a device may still be writing: whose bytes these are
   is not known, so no note can be called gone. *)
DeferSettling(scan, ids) == Defer(scan, ids)

TrustsAlways(i, f) == pass.mirror[i].stat = f.ver

(* _unchanged: a cheap pass takes a file at the stat its row has. *)
Trusts(i, f) == ~pass.full /\ pass.mirror[i].stat = f.ver

Stat ==
  LET p == pass.at  f == files[p]  entry == Entry(p)
      trusted == \E i \in entry : Trusts(i, f)
      rejected == ~pass.full /\ entry = {} /\ remembered[p] = f.ver
  IN /\ pass.phase = "stat"
     /\ pass' = CASE f = None -> Visited(Defer(pass, entry))
                  [] f # None /\ trusted -> Visited([pass EXCEPT !.held = @ \cup entry])
                  [] f # None /\ ~trusted /\ rejected ->
                       Visited([pass EXCEPT !.learned[p] = f.ver,
                                            !.deferred = @ \/ ~f.settled])
                  [] f # None /\ ~trusted /\ ~rejected /\ entry # {} /\ ~f.settled ->
                       Visited(DeferSettling(pass, entry))
                  [] OTHER -> [pass EXCEPT !.phase = "read", !.stat = f.ver,
                                           !.settling = ~f.settled]
     /\ Scanning

(* _observe: what the bytes at p say, given who is known; their stat was taken before. *)
Sees(i, state, derived) == {[id |-> i, path |-> pass.at, state |-> state,
                             hash |-> files[pass.at].ver, stat |-> pass.stat,
                             derived |-> derived]}

Observes(f, entry) ==
  CASE f.content = "locked" -> UNION {Sees(i, "unreadable", TRUE) : i \in entry}
    [] f.content # "locked" /\ f.id \in Known ->
         Sees(f.id, IF f.content = "good" THEN "ok" ELSE "unparsed", FALSE)
    [] OTHER -> UNION {Sees(i, "unparsed", TRUE) : i \in entry}

Read ==
  LET p == pass.at  f == files[p]  entry == Entry(p)
      seen == IF f = None THEN {} ELSE Observes(f, entry)
  IN /\ pass.phase = "read"
     /\ pass' =
          CASE f = None -> Visited(Defer(pass, entry))
            [] seen # {} -> Visited([pass EXCEPT !.observed = @ \cup seen])
            [] f # None /\ seen = {} /\ (pass.settling \/ f.content = "locked") ->
                 Visited(Defer(pass, {}))
            [] f # None /\ seen = {} /\ ~pass.settling /\ f.content = "broken" ->
                 Visited([pass EXCEPT !.learned[p] = pass.stat])
            [] OTHER -> Visited([pass EXCEPT !.candidates = @ \cup {[path |-> p, ver |-> f.ver,
                                                                     stat |-> pass.stat]}])
     /\ Scanning

(* The thread returns: what it learned of unknown files replaces what was remembered. *)
WalkEnds ==
  /\ pass.phase = "walk" /\ pass.todo = {}
  /\ remembered' = pass.learned
  /\ pass' = [pass EXCEPT !.phase = "adopt", !.learned = NoPaths]
  /\ UNCHANGED <<files, rows, writing, late, touched, meddled, disturbed, overtaken,
                 devices, writes, faults>>

-----------------------------------------------------------------------------
(* Adoption (adopt_note): one candidate at a time gets an identity and a row. *)

Unfinished == UNCHANGED <<writing, late, touched, disturbed, overtaken, devices, writes>>

(* The last look at the file goes on without an await to the row that is added. *)
AdoptionRuns == pass.adopting # None /\ pass.adopting.looked /\ pass.adopting.ver = None

(* The candidate is done with, whatever became of it. *)
Done(c) == [pass EXCEPT !.candidates = @ \ {c}, !.adopting = None]

(* Identities new_id can give; the bound on identities ends adoption too. *)
NewIds == {i \in Ids : rows[i] = None /\ Names(i) = {}}

StillThere(c) == files[c.path] # None

StillAsRead(c) == files[c.path] # None /\ files[c.path].ver = c.ver

AdoptCheck(c) ==
  /\ pass.phase = "adopt" /\ pass.adopting = None /\ c \in pass.candidates
  /\ LET f == files[c.path]
         ids == IF f = None THEN {} ELSE IF f.id = NoId THEN NewIds ELSE {f.id}
     IN  IF ~StillAsRead(c) \/ ids = {}
         THEN pass' = Done(c) /\ UNCHANGED remembered
         ELSE \E i \in ids :
                IF rows[i] # None \/ \E j \in Ids : Live(j) /\ rows[j].path = c.path
                THEN /\ pass' = Done(c)
                     /\ remembered' = [remembered EXCEPT ![c.path] = c.stat]
                ELSE /\ pass' = [pass EXCEPT !.adopting =
                                    [cand |-> c, id |-> i, looked |-> FALSE, ver |-> None]]
                     /\ UNCHANGED remembered
  /\ UNCHANGED <<files, rows, meddled, faults>> /\ Unfinished

(* With the new bytes staged the file is read once more; one that already says
   all it has to needs no more than that. *)
AdoptLook ==
  /\ pass.adopting # None /\ ~pass.adopting.looked
  /\ LET c == pass.adopting.cand  f == files[c.path]
     IN  IF ~StillAsRead(c)
         THEN pass' = Done(c)
         ELSE \E v \in {None} \cup (IF f.id = NoId THEN {} ELSE {f.ver}) :
                pass' = [pass EXCEPT !.adopting.looked = TRUE, !.adopting.ver = v]
  /\ meddled' = FALSE
  /\ UNCHANGED <<files, rows, remembered, faults>> /\ Unfinished

(* The staged bytes are renamed over whatever is there by now. *)
AdoptWrite ==
  /\ AdoptionRuns
  /\ \E v \in Fresh :
        /\ files' = [files EXCEPT ![pass.adopting.cand.path] =
                       [id |-> pass.adopting.id, ver |-> v, content |-> "good", settled |-> FALSE]]
        /\ pass' = [pass EXCEPT !.adopting.ver = v]
  /\ UNCHANGED <<rows, remembered, meddled, faults>> /\ Unfinished

OneTooMany == pass.adopted = AdoptionsPerPass

LastAdoption == pass.adopted + 1 = AdoptionsPerPass

(* The file is stat'ed, its row inserted with that stat and committed.  The
   pass stops adopting at _ADOPTIONS_PER_PASS. *)
AdoptCommit ==
  /\ pass.adopting # None /\ pass.adopting.ver # None
  /\ LET c == pass.adopting.cand  f == files[c.path]  i == pass.adopting.id
     IN  /\ f # None /\ rows[i] = None
         /\ rows' = [rows EXCEPT ![i] = [path |-> c.path, hash |-> pass.adopting.ver,
                                        stat |-> f.ver, state |-> "ok"]]
         /\ pass' = IF LastAdoption
                    THEN [pass EXCEPT !.adopting = None, !.candidates = {}]
                    ELSE [Done(c) EXCEPT !.adopted = @ + 1]
  /\ UNCHANGED <<files, remembered, meddled, faults>> /\ Unfinished

(* One file that cannot be stat'ed or written is remembered as read; the pass goes on. *)
AdoptFails ==
  /\ pass.adopting # None
  /\ \/ /\ pass.adopting.ver # None
        /\ files[pass.adopting.cand.path] = None \/ rows[pass.adopting.id] # None
        /\ UNCHANGED faults
     \/ faults < MaxFaults /\ faults' = faults + 1
  /\ remembered' = [remembered EXCEPT ![pass.adopting.cand.path] = pass.adopting.cand.stat]
  /\ pass' = Done(pass.adopting.cand)
  /\ UNCHANGED <<files, rows, meddled>> /\ Unfinished

-----------------------------------------------------------------------------
(* What the pass makes of the rows it knew (_choose_observations, _values_for). *)

ObservedOf(i) == {ob \in pass.observed : ob.id = i}

StrangerChosen(i) ==
  LET ranked == ObservedOf(i)
      home == {ob \in ranked : ob.path = pass.mirror[i].path}
  IN  IF i \in pass.held THEN {}
      ELSE IF Cardinality(home) = 1 THEN home
      ELSE IF Cardinality(ranked) = 1 THEN ranked ELSE {}

CopyChosen(i) ==
  LET named == {ob \in ObservedOf(i) : ~ob.derived}
      ranked == IF named = {} THEN ObservedOf(i) ELSE named
      home == {ob \in ranked : ob.path = pass.mirror[i].path}
  IN  IF Cardinality(home) = 1 THEN home
      ELSE IF Cardinality(ranked) = 1 THEN ranked ELSE {}

(* The one file that speaks for note i: files that name it before files that
   only lie where its row points, the one at its recorded path before others. *)
Chosen(i) ==
  LET named == {ob \in ObservedOf(i) : ~ob.derived}
      ranked == IF named = {} THEN ObservedOf(i) ELSE named
      home == {ob \in ranked : ob.path = pass.mirror[i].path}
  IN  IF i \in pass.held THEN {}
      ELSE IF Cardinality(home) = 1 THEN home
      ELSE IF Cardinality(ranked) = 1 THEN ranked ELSE {}

AbsentUnread == {i \in Known : i \notin pass.held /\ ObservedOf(i) = {}}

(* Nothing is called gone by a pass that left something unread. *)
Absent == IF pass.deferred THEN {}
          ELSE {i \in Known : i \notin pass.held /\ ObservedOf(i) = {}}

Target(i) ==
  LET r == pass.fetched[i]
  IN  IF i \in Absent THEN [r EXCEPT !.state = "missing"]
      ELSE LET ob == CHOOSE ob \in Chosen(i) : TRUE
           IN  IF ob.state = "unreadable"
               THEN [r EXCEPT !.path = ob.path, !.stat = None, !.state = "unparsed"]
               ELSE [path |-> ob.path, hash |-> ob.hash, stat |-> ob.stat, state |-> ob.state]

(* The rows that do not say yet what the pass has seen. *)
Stale == {i \in Known : (i \in Absent \/ Chosen(i) # {}) /\ Target(i) # pass.fetched[i]}

(* Only the columns that differed when the row was fetched are written. *)
Updated(i) == [field \in {"path", "hash", "stat", "state"} |->
                 IF Target(i)[field] = pass.fetched[i][field] THEN rows[i][field]
                 ELSE Target(i)[field]]

Fetch ==
  /\ pass.phase = "adopt" /\ pass.adopting = None /\ pass.candidates = {}
  /\ pass' = [pass EXCEPT !.phase = "apply", !.fetched = rows]
  /\ UNCHANGED <<files, rows, remembered, meddled, faults>> /\ Unfinished

(* Whatever ends a pass. *)
PassOver == /\ pass' = Rest
            /\ late' = {} /\ touched' = {} /\ meddled' = FALSE
            /\ disturbed' = {} /\ overtaken' = {}

WhateverWasWritten == Stale

(* Rows written since the pass began are passed over (updated_at <= scan_started). *)
NotNewer == Stale \ late

(* The updates wait for writers that hold their rows and become visible together. *)
Apply ==
  /\ pass.phase = "apply"
  /\ \A i \in Stale : Writers(i) = {}
  /\ rows' = [i \in Ids |-> IF i \in NotNewer THEN Updated(i) ELSE rows[i]]
  /\ PassOver
  /\ UNCHANGED <<files, writing, remembered, devices, writes, faults>>

(* PostgreSQL or the notes volume goes away; nothing of the pass is kept. *)
PassFails ==
  /\ pass.phase # "rest"
  /\ faults < MaxFaults /\ faults' = faults + 1
  /\ PassOver
  /\ UNCHANGED <<files, rows, writing, remembered, devices, writes>>

(* The process dies and starts again. *)
Crash ==
  /\ faults < MaxFaults /\ faults' = faults + 1
  /\ PassOver
  /\ remembered' = NoPaths
  /\ writing' = [o \in Ops |-> None]
  /\ UNCHANGED <<files, rows, devices, writes>>

-----------------------------------------------------------------------------
(* The store's own writers: an edit in place or a move, as in NoteWrites. *)

Resting == pass.phase = "rest"
Untouched == UNCHANGED <<touched, meddled>>
Touch(P) == /\ touched' = IF Resting THEN touched ELSE touched \cup P
            /\ meddled' = (meddled \/ (pass.adopting # None /\ pass.adopting.cand.path \in P))
WriterOnly == UNCHANGED <<remembered, pass, devices>>
TakesNothing == UNCHANGED disturbed

(* A name is taken back whatever lies there by now: what a device put there may
   be a copy of another note. *)
Takes(o, p) ==
  disturbed' = IF Resting THEN disturbed
               ELSE disturbed \cup {i \in Ids \ {writing[o].id} : files[p] # None /\ files[p].id = i}

(* A request finds its note, takes its lock and the time of its row update. *)
BeginWrite(o) ==
  /\ ~AdoptionRuns
  /\ writing[o] = None /\ writes < MaxWrites /\ writes' = writes + 1
  /\ \E i \in Ids, to \in Paths :
        /\ Live(i) /\ Writers(i) = {}
        /\ LET from == rows[i].path  f == files[from]
           IN  /\ f # None /\ f.id \in {i, NoId} /\ f.content = "good"
               /\ to # from => /\ files[to] = None
                               /\ \A j \in Ids : ~(Live(j) /\ rows[j].path = to)
               /\ writing' = [writing EXCEPT ![o] =
                     [id |-> i, from |-> from, to |-> to, etag |-> f.ver, ver |-> None,
                      step |-> "write", early |-> FALSE]]
  /\ UNCHANGED <<files, rows, late, overtaken, faults>> /\ Untouched /\ WriterOnly /\ TakesNothing

(* The bytes are checked again and replaced, or the new name is linked. *)
WriteFile(o) ==
  /\ writing[o] # None /\ writing[o].step = "write"
  /\ LET w == writing[o]  f == files[w.from]
         refused == f = None \/ f.ver # w.etag \/ (w.to # w.from /\ files[w.to] # None)
     IN  IF refused
         THEN writing' = [writing EXCEPT ![o] = None] /\ UNCHANGED files /\ Untouched
         ELSE IF w.to = w.from
         THEN \E v \in Fresh :
              /\ files' = [files EXCEPT ![w.from] = [id |-> w.id, ver |-> v,
                                                    content |-> "good", settled |-> FALSE]]
              /\ writing' = [writing EXCEPT ![o].step = "commit", ![o].ver = v]
              /\ Touch({w.from})
         ELSE /\ files' = [files EXCEPT ![w.to] = f]
              /\ writing' = [writing EXCEPT ![o].step = "unlink", ![o].ver = w.etag]
              /\ Touch({w.to})
  /\ UNCHANGED <<rows, late, overtaken, writes, faults>> /\ WriterOnly /\ TakesNothing

Unlink(o) ==
  /\ writing[o] # None /\ writing[o].step = "unlink"
  /\ files[writing[o].from] # None
  /\ files' = [files EXCEPT ![writing[o].from] = None]
  /\ writing' = [writing EXCEPT ![o].step = "commit"]
  /\ Touch({writing[o].from}) /\ Takes(o, writing[o].from)
  /\ UNCHANGED <<rows, late, overtaken, writes, faults>> /\ WriterOnly

(* The row as the writer leaves it: an edit stamps it with a time no file has. *)
Written(o) == [path |-> IF writing[o].to = writing[o].from THEN rows[writing[o].id].path
                        ELSE writing[o].to,
               hash |-> writing[o].ver,
               stat |-> IF writing[o].to = writing[o].from THEN None ELSE writing[o].etag,
               state |-> "ok"]

Commit(o) ==
  /\ writing[o] # None /\ writing[o].step = "commit"
  /\ LET i == writing[o].id
     IN  /\ rows' = [rows EXCEPT ![i] = Written(o)]
         /\ late' = IF Resting \/ writing[o].early THEN late ELSE late \cup {i}
         /\ overtaken' = IF ~Resting /\ writing[o].early THEN overtaken \cup {i} ELSE overtaken
  /\ writing' = [writing EXCEPT ![o] = None]
  /\ UNCHANGED <<files, writes, faults>> /\ Untouched /\ WriterOnly /\ TakesNothing

(* The write is refused or its commit fails; a new name is taken back while
   the old one is there. *)
WriteFails(o) ==
  /\ writing[o] # None
  /\ LET w == writing[o]
         undo == w.step = "unlink" /\ files[w.from] # None
     IN  /\ files' = IF undo THEN [files EXCEPT ![w.to] = None] ELSE files
         /\ IF undo THEN Touch({w.to}) /\ Takes(o, w.to) ELSE Untouched /\ TakesNothing
         /\ \/ w.step = "unlink" /\ files[w.from] = None /\ UNCHANGED faults
            \/ faults < MaxFaults /\ faults' = faults + 1
  /\ writing' = [writing EXCEPT ![o] = None]
  /\ UNCHANGED <<rows, late, overtaken, writes>> /\ WriterOnly

-----------------------------------------------------------------------------
(* Devices, and time. *)

DeviceTouches(P) ==
  /\ devices < MaxDevice /\ devices' = devices + 1
  /\ Touch(P)
  /\ disturbed' = IF Resting THEN disturbed
                  ELSE disturbed \cup {i \in Ids : \/ rows[i] # None /\ rows[i].path \in P
                                                  \/ \E p \in P : \/ files[p] # None /\ files[p].id = i
                                                                  \/ files'[p] # None /\ files'[p].id = i}
  /\ UNCHANGED <<rows, writing, late, remembered, pass, overtaken, writes, faults>>

(* A device writes new bytes: over a file, or a file of its own. *)
DeviceWrites(p) ==
  /\ \E id \in {NoId} \cup (IF files[p] = None THEN {} ELSE {files[p].id}), content \in Content,
        v \in Fresh :
        files' = [files EXCEPT ![p] = [id |-> id, ver |-> v, content |-> content,
                                       settled |-> FALSE]]
  /\ DeviceTouches({p})

DeviceDeletes(p) ==
  /\ files[p] # None
  /\ files' = [files EXCEPT ![p] = None]
  /\ DeviceTouches({p})

DeviceMoves(p, q) ==
  /\ files[p] # None /\ files[q] = None
  /\ files' = [files EXCEPT ![q] = files[p], ![p] = None]
  /\ DeviceTouches({p, q})

(* A copy that keeps the mtime, so that nothing but its place tells it apart. *)
DeviceCopies(p, q) ==
  /\ files[p] # None /\ files[q] = None
  /\ files' = [files EXCEPT ![q] = files[p]]
  /\ DeviceTouches({p, q})

(* The quiet period passes over a file. *)
Settle(p) ==
  /\ files[p] # None /\ ~files[p].settled
  /\ files' = [files EXCEPT ![p].settled = TRUE]
  /\ UNCHANGED <<rows, writing, late, remembered, pass, touched, meddled, disturbed, overtaken,
                 devices, writes, faults>>

Device == \E p, q \in Paths : \/ DeviceWrites(p)
                              \/ DeviceDeletes(p)
                              \/ DeviceMoves(p, q)
                              \/ DeviceCopies(p, q)

Adopt == \/ \E c \in pass.candidates : AdoptCheck(c)
         \/ AdoptLook \/ AdoptWrite \/ AdoptCommit

PassStep == \/ Begin \/ ReadMirror \/ \E p \in Paths : List(p)
            \/ Stat \/ Read \/ WalkEnds \/ Adopt \/ AdoptFails \/ Fetch \/ Apply

WriterStep(o) == ~AdoptionRuns /\ (WriteFile(o) \/ Unlink(o) \/ Commit(o) \/ WriteFails(o))

Next == \/ PassStep \/ PassFails \/ Crash
        \/ \E o \in Ops : BeginWrite(o) \/ WriterStep(o)
        \/ Device \/ \E p \in Paths : Settle(p)

Spec == Init /\ [][Next]_vars

(* The reconciler's loop and the event loop carry on what has begun, quiet
   periods end, and a full rehash comes round. *)
FairSpec == /\ Spec
            /\ WF_vars(PassStep)
            /\ SF_vars(Begin /\ pass'.full)
            /\ \A o \in Ops : WF_vars(WriterStep(o))
            /\ \A p \in Paths : WF_vars(Settle(p))

-----------------------------------------------------------------------------
Stats == [Paths -> Versions \cup {None}]
Phases == {"rest", "mirror", "walk", "stat", "read", "adopt", "apply"}
Pass == [phase : Phases, full : BOOLEAN, mirror : [Ids -> Row \cup {None}], todo : SUBSET Paths,
         at : Paths \cup {None}, stat : Versions \cup {None}, settling : BOOLEAN,
         observed : SUBSET Observation, held : SUBSET Ids, deferred : BOOLEAN, learned : Stats,
         candidates : SUBSET Candidate, adopting : Adoption \cup {None},
         adopted : 0 .. AdoptionsPerPass - 1, fetched : [Ids -> Row \cup {None}]]
TypeOK ==
  /\ files \in [Paths -> File \cup {None}]
  /\ rows \in [Ids -> Row \cup {None}]
  /\ writing \in [Ops -> Writer \cup {None}]
  /\ late \subseteq Ids /\ disturbed \subseteq Ids /\ overtaken \subseteq Ids
  /\ touched \subseteq Paths /\ meddled \in BOOLEAN
  /\ remembered \in Stats
  /\ pass \in Pass
  /\ devices \in 0 .. MaxDevice /\ writes \in 0 .. MaxWrites /\ faults \in 0 .. MaxFaults

(* A pass may pass over a file that names a note: one that cannot be opened and
   lies at another note's path speaks for that note, and a cheap pass does not
   read what an earlier one remembered as naming no note, nor what has the stat
   of another note's row. *)
Overlooked(p) ==
  LET others == Entry(p) \ {files[p].id}
  IN  \/ files[p].content = "locked" /\ others # {}
      \/ ~pass.full /\ \/ Entry(p) = {} /\ remembered[p] = files[p].ver
                       \/ \E j \in others : pass.mirror[j].stat = files[p].ver

(* Missing means that the walk observed absence, not uncertainty about a
   present file: a note is not declared missing while a file that names it
   stood at one place from the start of the pass to its end, unless that file
   is one the pass may pass over. *)
PresentNeverMissing ==
  [][\A i \in Ids : Apply /\ Live(i) /\ rows'[i].state = "missing"
       => \A p \in Names(i) \ touched : Overlooked(p)]_vars

(* The note's own file stands at its recorded path, and could be read there,
   since the pass began; no row of another note names that path, and it is not
   one the pass may pass over. *)
AtHome(i) == /\ rows[i] # None /\ rows[i].path \in Names(i) \ touched
             /\ files[rows[i].path].content # "locked"
             /\ Entry(rows[i].path) \subseteq {i} /\ ~Overlooked(rows[i].path)

(* A second copy never takes the row of a note that is at home. *)
CopyNeverTakesTheRow ==
  [][\A i \in Ids : Apply /\ i \notin overtaken /\ AtHome(i)
       => rows'[i].path = rows[i].path]_vars

(* What a row says of its note is so: it is gone, or at the recorded path with
   the bytes and in the state the row says. *)
Right(i) == \/ rows[i] = None
            \/ rows[i].state = "missing" /\ Names(i) = {}
            \/ /\ rows[i].path \in Names(i)
               /\ files[rows[i].path].content # "locked"
               /\ files[rows[i].path].ver = rows[i].hash
               /\ rows[i].state = IF files[rows[i].path].content = "good" THEN "ok" ELSE "unparsed"

(* A pass never makes a right row wrong, whatever the store's writers do
   meanwhile.  Excused are the notes whose files a device touched during the
   pass, or a writer of another note took away, those whose writer had its time
   taken before the pass began, and those at a place the pass may pass over. *)
PassNeverMisleads ==
  [][\A i \in Ids : Apply /\ Right(i) /\ i \notin disturbed \cup overtaken
                   /\ (Live(i) => ~Overlooked(rows[i].path))
       => Right(i)']_vars

(* The row describes the file at p, or a cheap pass trusts that it does. *)
Describes(row, p) ==
  /\ row.path = p
  /\ \/ /\ row.hash = files[p].ver
        /\ row.state = IF files[p].content = "good" THEN "ok" ELSE "unparsed"
     \/ ~pass.full /\ row.stat = files[p].ver /\ row.state # "missing"

(* Nothing but the pass has been at work since it began, and it read all it had to. *)
Quiet == /\ touched = {} /\ late = {} /\ overtaken = {} /\ \A o \in Ops : writing[o] = None
         /\ ~pass.deferred
Readable(i) == {p \in Names(i) : files[p].content # "locked"}

(* The row's stat is that of a stranger, or of a file nobody could read, which
   a cheap pass will trust. *)
Captured(i) == /\ files[rows[i].path] # None /\ files[rows[i].path].ver = rows[i].stat
               /\ rows[i].path \notin Readable(i)

(* The pass has what it needs to be right about note i: it is no cheap pass over
   a row whose stat is a stranger's, nor may it pass over a file of the note. *)
Discernible(i) == /\ pass.full \/ ~Captured(i)
                  /\ \A p \in Readable(i) : ~Overlooked(p)

(* A note with one name is described as it is, wherever it went and whatever
   lies at its old path; a note nothing names and whose path is bare is
   missing; a note with two names is left where it was. *)
ToldTrue(i) ==
  /\ Cardinality(Readable(i)) = 1 => \E p \in Readable(i) : Describes(rows'[i], p)
  /\ Names(i) = {} /\ files[rows[i].path] = None => rows'[i].state = "missing"
  /\ Cardinality(Readable(i)) > 1 => rows'[i].path = rows[i].path

(* A quiet pass tells the truth of every note it can discern. *)
QuietPassTellsTheTruth ==
  [][\A i \in Known : Apply /\ Quiet /\ Discernible(i) => ToldTrue(i)]_vars

(* Adoption loses no bytes a device wrote, and the note it adds is what lies on
   disk: what it renames over is what the walk has read, and the row it commits
   has the place, the bytes and the stat of the file that names the note, however
   long ago the walk and the check were (adopt_note).  Excused is a file that
   somebody changed after the last look at it: the code looks and renames in two
   calls and takes the stat in a third. *)
AdoptionLosesNothing ==
  [][~meddled =>
        /\ AdoptWrite => LET c == pass.adopting.cand
                         IN  files[c.path] # None /\ files[c.path].ver = c.ver
        /\ \A i \in Ids : AdoptCommit /\ i = pass.adopting.id
                         => Right(i)' /\ rows'[i].stat = rows'[i].hash]_vars

(* A file no pass can read and no row claims, so that every pass defers. *)
Undecided == \E p \in Paths : /\ files[p] # None /\ files[p].content = "locked"
                             /\ \A i \in Ids : Live(i) => rows[i].path # p

Followed == \A i \in Ids, p \in Paths :
              rows[i] # None /\ Readable(i) = {p}
              => /\ rows[i].path = p /\ rows[i].hash = files[p].ver
                 /\ rows[i].state = IF files[p].content = "good" THEN "ok" ELSE "unparsed"
ReportedGone == \A i \in Ids :
                  rows[i] # None /\ Names(i) = {} /\ files[rows[i].path] = None
                  => rows[i].state = "missing"
Adopted == \A p \in Paths :
             /\ files[p] # None /\ files[p].content = "good"
             /\ \A i \in Ids : Live(i) => rows[i].path # p
             => IF files[p].id = NoId THEN NewIds = {} ELSE rows[files[p].id] # None

(* Once devices and clients are quiet and failures stop, the mirror comes to
   say what the filesystem says and stays so: every note is followed to where
   it went, what is gone is reported gone (while no unreadable stranger makes
   every pass defer that), and what devices created has an identity. *)
Converges == <>[](Followed /\ Adopted /\ (Undecided \/ ReportedGone))
=============================================================================
