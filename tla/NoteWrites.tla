----------------------------- MODULE NoteWrites -----------------------------
(***************************************************************************)
(* The write protocol of coppermind_store/notes.py over the two places a   *)
(* note lives: its file, which Obsidian Sync and the person's devices also *)
(* write, and its row in PostgreSQL, which only mirrors the file.          *)
(*                                                                         *)
(* An operation is one request in the store's event loop.  A step of it is *)
(* the stretch between two points where something else can happen: another *)
(* request at an await, a device between any two calls to the filesystem.  *)
(* The commit comes last, so a failed commit or a crash leaves the file    *)
(* ahead of its row.                                                       *)
(*                                                                         *)
(* Bytes are abstract: a file is the identity it carries and a version,    *)
(* and an ETag is the file itself (the hash of all its bytes).  A path     *)
(* stands for every spelling of it that differs only by case, which is how *)
(* the collision checks compare names.                                     *)
(***************************************************************************)
EXTENDS Naturals, FiniteSets

CONSTANTS Ops,        \* tasks that serve requests
          Ids,        \* note identities
          Paths,      \* places in the notes filesystem
          Versions,   \* what distinguishes bytes; enough that a fresh one is left
          NoId,       \* the identity of a file that carries none
          None,
          MaxTries,   \* attempts of a create at a free name (5 in the code)
          Kinds,      \* bound: the kinds of change clients ask for
          MaxDevice   \* bound: what devices do to the notes filesystem

ASSUME NamesAssumption == /\ NoId \notin Ids
                          /\ None \notin Ids \cup Paths \cup Ops

File     == [id : Ids \cup {NoId}, ver : Versions]
Row      == [path : Paths, hash : File, live : BOOLEAN]
Change   == {"replace", "patch", "move", "rename"}
Request  == [kind : Change \cup {"create"}, id : Ids, etag : File \cup {None},
             to : Paths \cup {None}, tries : Nat]

ASSUME BoundsAssumption == /\ MaxTries \in Nat \ {0}
                           /\ MaxDevice \in Nat
                           /\ Kinds \subseteq Change

ASSUME NoneAssumption == None \notin File \cup Row \cup Request

VARIABLES files,      \* the notes filesystem: path -> file or None
          rows,       \* committed rows: identity -> row or None
          index,      \* _IdentityIndex._found: identity -> paths, or None
          lock,       \* _locks: identity -> the operation holding it, or None
          pc, req, at, seen, draft,  \* per operation: its step, its request,
                      \* where it found the file, the path its row named,
                      \* and the bytes its row update describes
          disturbed,  \* history: its files were touched since this operation's last check
          strayed,    \* history: identities whose row, or request, may mislead
          doubled,    \* history: identities that may have two live names
          devices     \* history: how often a device wrote, for its bound

opVars   == <<pc, req, at, seen, draft>>
history  == <<disturbed, strayed, doubled, devices>>
vars     == <<files, rows, index, lock, opVars, history>>

Start(written) ==
  /\ files = [p \in Paths |-> None]
  /\ rows = [i \in Ids |-> None]
  /\ index = None
  /\ lock = [i \in Ids |-> None]
  /\ pc = [o \in Ops |-> "idle"]
  /\ req = [o \in Ops |-> None]
  /\ at = [o \in Ops |-> None]
  /\ seen = [o \in Ops |-> None]
  /\ draft = [o \in Ops |-> None]
  /\ disturbed = [o \in Ops |-> FALSE]
  /\ strayed = {}
  /\ doubled = {}
  /\ devices = written

Init == Start(0)

-----------------------------------------------------------------------------
(* What the two stores say. *)

Names(i) == {p \in Paths : files[p] # None /\ files[p].id = i}
Live(i)  == rows[i] # None /\ rows[i].live

(* The select every operation that claims a path makes: does a live row hold it? *)
Occupied(p) == \E i \in Ids : Live(i) /\ rows[i].path = p

(* A row update issued and not yet committed locks its row. *)
Writing  == {"recheck", "write", "unlink", "commit"}
RowBusy(i) == \E o \in Ops : req[o] # None /\ req[o].id = i /\ pc[o] \in Writing

(* Bytes nobody holds or remembers. *)
Remembered == {files[p] : p \in Paths}
              \cup {rows[i].hash : i \in {j \in Ids : rows[j] # None}}
              \cup {draft[o] : o \in Ops}
              \cup {req[o].etag : o \in {u \in Ops : req[u] # None}}
TakenVersions == {f.ver : f \in Remembered \ {None}}
FreshVersion == LET taken == TakenVersions IN CHOOSE v \in Versions : v \notin taken
Fresh(i) == {[id |-> i, ver |-> v] : v \in {FreshVersion} \cap Versions}

(* _bytes_at: the file at p is note i's, at the ETag the caller sent. *)
Matches(p, i, etag) == /\ files[p] # None
                       /\ files[p].id \in {i, NoId}
                       /\ etag \in {None, files[p]}

-----------------------------------------------------------------------------
(* The end of an operation: answered, its lock released. *)

Forget(o) == /\ pc' = [pc EXCEPT ![o] = "idle"]
             /\ req' = [req EXCEPT ![o] = None]
             /\ at' = [at EXCEPT ![o] = None]
             /\ seen' = [seen EXCEPT ![o] = None]
             /\ draft' = [draft EXCEPT ![o] = None]

ReleaseForgotten(o) == UNCHANGED lock

Release(o) == lock' = [i \in Ids |-> IF lock[i] = o THEN None ELSE lock[i]]

Answer(o) == Forget(o) /\ Release(o) /\ disturbed' = [disturbed EXCEPT ![o] = FALSE]

(* The paths the store takes to be note i's: its row's, and those a request
   for it has found or asks for. *)
Claims(i) == {p \in Paths : \/ rows[i] # None /\ rows[i].path = p
                            \/ \E o \in Ops : /\ req[o] # None /\ req[o].id = i
                                              /\ p \in {at[o], req[o].to}}
Claimed(P) == {i \in Ids : Claims(i) \cap P # {}}

(* Operation o changes the files at the paths in P.  When its note's mirror may
   mislead it, what it takes for its own file may be another note's: it disturbs
   the others that are at work there, and their notes stray. *)
Near(u, P) == at[u] # None /\ {at[u], req[u].to} \cap P # {}
Doubtful(o) == req[o].id \in strayed
Spread(o, P) ==
  disturbed' = [u \in Ops |-> IF u = o THEN disturbed[o] /\ pc'[o] # "idle"
                              ELSE disturbed[u] \/ (Doubtful(o) /\ Near(u, P))]
Misled(o, P) == IF Doubtful(o) THEN Claimed(P) ELSE {}

(* A file without identity where the note is looked for is taken for the note:
   the one it has may lie elsewhere, until reconciliation sees to it. *)
Anonymous(o) == {i \in {req[o].id} : files[at[o]].id = NoId}
(* A move takes what lies at its path when it links it, another note's too. *)
Carried(o) == {i \in Ids \ {req[o].id} : req[o].kind = "move" /\ files[at[o]].id = i}

(* The answer of an operation that has changed the files in P on its way out. *)
AnswerTouching(o, P) == Forget(o) /\ Release(o) /\ Spread(o, P)

(* Nothing changed on disk or in a row: a refusal, or the transaction rolled back. *)
Refuse(o) == /\ Answer(o)
             /\ UNCHANGED <<files, rows, index, strayed, doubled, devices>>

Goto(o, step) == pc' = [pc EXCEPT ![o] = step]

-----------------------------------------------------------------------------
(* create_note *)

AskCreate(o) ==
  /\ pc[o] = "idle"
  /\ \E i \in Ids, p \in Paths :
        /\ rows[i] = None /\ Names(i) = {} /\ \A u \in Ops : req[u] # None => req[u].id # i
        /\ files[p] = None
        /\ req' = [req EXCEPT ![o] = [kind |-> "create", id |-> i, etag |-> None,
                                      to |-> p, tries |-> 1]]
  /\ Goto(o, "select")
  /\ UNCHANGED <<files, rows, index, lock, at, seen, draft, history>>

CreateSelect(o) ==
  /\ pc[o] = "select"
  /\ IF Occupied(req[o].to)
     THEN Refuse(o)
     ELSE /\ Goto(o, "create")
          /\ UNCHANGED <<files, rows, index, lock, req, at, seen, draft, history>>

CreateClobbers(o) ==
  /\ pc[o] = "create"
  /\ \E f \in Fresh(req[o].id) :
         /\ files' = [files EXCEPT ![req[o].to] = f]
         /\ draft' = [draft EXCEPT ![o] = f]
  /\ at' = [at EXCEPT ![o] = req[o].to]
  /\ Goto(o, "commit")
  /\ UNCHANGED <<rows, index, lock, req, seen, history>>

CreateFile(o) ==
  /\ pc[o] = "create"
  /\ files[req[o].to] = None
  /\ \E f \in Fresh(req[o].id) :
         /\ files' = [files EXCEPT ![req[o].to] = f]
         /\ draft' = [draft EXCEPT ![o] = f]
  /\ at' = [at EXCEPT ![o] = req[o].to]
  /\ Goto(o, "commit")
  /\ UNCHANGED <<rows, index, lock, req, seen, history>>

(* FileExistsError: the next free name of the live listing, a few times. *)
CreateAgain(o) ==
  /\ pc[o] = "create"
  /\ files[req[o].to] # None
  /\ \/ /\ req[o].tries < MaxTries
        /\ \E p \in Paths : /\ files[p] = None
                            /\ req' = [req EXCEPT ![o].to = p, ![o].tries = @ + 1]
        /\ Goto(o, "select")
        /\ UNCHANGED <<files, rows, index, lock, at, seen, draft, history>>
     \/ /\ \/ req[o].tries = MaxTries
           \/ \A p \in Paths : files[p] # None
        /\ Refuse(o)

(* PostgreSQL rejects a value of the new row: the file is taken back. *)
CreateRejected(o) ==
  /\ pc[o] = "commit"
  /\ req[o].kind = "create"
  /\ files' = [files EXCEPT ![req[o].to] = None]
  /\ AnswerTouching(o, {req[o].to})
  /\ strayed' = strayed \cup Misled(o, {req[o].to})
  /\ UNCHANGED <<rows, index, doubled, devices>>

-----------------------------------------------------------------------------
(* replace_note, patch_frontmatter, move_note, rename_note *)

(* A client read the note as it stands now (get_note serves a file without
   identity at the row's path as the note) and asks for a change of it;
   anything may happen before the store gets to the request.  Only a move may
   come without an ETag. *)
AskChange(o) ==
  /\ pc[o] = "idle"
  /\ \E i \in Ids, kind \in Kinds, p \in Paths, to \in Paths \cup {None} :
        /\ p \in Names(i) \/ (Live(i) /\ p = rows[i].path /\ Matches(p, i, None))
        /\ kind \in {"move", "rename"} <=> to # None
        /\ \E etag \in {files[p]} \cup (IF kind = "move" THEN {None} ELSE {}) :
              req' = [req EXCEPT ![o] = [kind |-> kind, id |-> i, etag |-> etag,
                                         to |-> to, tries |-> 1]]
  /\ Goto(o, "locate")
  /\ UNCHANGED <<files, rows, index, lock, at, seen, draft, history>>

(* _locate: the row's path while a file is there, else wherever the identity
   index (fresh, or not older than a reconciler interval) knows it. *)
Locate(o) ==
  /\ pc[o] = "locate"
  /\ LET i == req[o].id
         Found(p, step) == /\ at' = [at EXCEPT ![o] = p]
                           /\ seen' = [seen EXCEPT ![o] = rows[i].path]
                           /\ Goto(o, step)
                           /\ UNCHANGED <<files, rows, lock, req, draft, history>>
         Follow(known) == LET live == {p \in known : files[p] # None}
                          IN  \/ \E p \in live : live = {p} /\ Found(p, "repair")
                              \/ /\ Cardinality(live) # 1
                                 /\ Answer(o)
                                 /\ UNCHANGED <<files, rows, strayed, doubled, devices>>
     IN  \/ ~Live(i) /\ Refuse(o)
         \/ /\ Live(i) /\ files[rows[i].path] # None
            /\ Found(rows[i].path, "lock")
            /\ UNCHANGED index
         \/ /\ Live(i) /\ files[rows[i].path] = None
            /\ \/ /\ index # None
                  /\ Follow(index[i])
                  /\ UNCHANGED index
               \/ /\ index' = [j \in Ids |-> Names(j)]
                  /\ Follow(Names(i))

(* _repair_location: a conditional update, so it waits for a row in flight and
   does nothing to one that moved meanwhile or to a path another note holds. *)
Repair(o) ==
  /\ pc[o] = "repair"
  /\ LET i == req[o].id
     IN  /\ ~RowBusy(i)
         /\ rows' = IF /\ Live(i) /\ rows[i].path = seen[o]
                       /\ \A j \in Ids \ {i} : ~(Live(j) /\ rows[j].path = at[o])
                    THEN [rows EXCEPT ![i].path = at[o]]
                    ELSE rows
         /\ strayed' = IF rows' = rows THEN strayed ELSE strayed \cup {i}
  /\ Goto(o, "lock")
  /\ UNCHANGED <<files, index, lock, req, at, seen, draft, disturbed, doubled, devices>>

Relocates(o) == req[o].kind \in {"move", "rename"} /\ req[o].to # at[o]

LockIgnored(o) ==
  /\ pc[o] = "lock"
  /\ IF /\ Matches(at[o], req[o].id, req[o].etag)
        /\ Relocates(o) => files[req[o].to] = None
        /\ req[o].kind = "move" => Relocates(o)
     THEN /\ lock' = [lock EXCEPT ![req[o].id] = o]
          /\ Goto(o, "update")
          /\ disturbed' = [disturbed EXCEPT ![o] = FALSE]
          /\ strayed' = strayed \cup Anonymous(o) /\ doubled' = doubled \cup Anonymous(o)
          /\ UNCHANGED <<files, rows, index, req, at, seen, draft, devices>>
     ELSE Refuse(o)

(* The note's lock, and with nothing in between the first check, the listing
   of the target folder, and the answer of a move to where the note is. *)
LockAndCheck(o) ==
  /\ pc[o] = "lock"
  /\ lock[req[o].id] = None
  /\ IF /\ Matches(at[o], req[o].id, req[o].etag)
        /\ Relocates(o) => files[req[o].to] = None
        /\ req[o].kind = "move" => Relocates(o)
     THEN /\ lock' = [lock EXCEPT ![req[o].id] = o]
          /\ Goto(o, "update")
          /\ disturbed' = [disturbed EXCEPT ![o] = FALSE]
          /\ strayed' = strayed \cup Anonymous(o) /\ doubled' = doubled \cup Anonymous(o)
          /\ UNCHANGED <<files, rows, index, req, at, seen, draft, devices>>
     ELSE Refuse(o)

(* The bytes the operation will leave: a replace and a title rename write new
   ones, a patch and a body-preserving rename may come out byte identical, a
   move takes the file as it finds it when it builds its update. *)
Outcome(o) == CASE req[o].kind = "move" -> {files[at[o]]}
                [] req[o].kind = "replace" -> Fresh(req[o].id)
                [] OTHER -> {req[o].etag} \cup Fresh(req[o].etag.id)

UpdateSkipsWrite(o) ==
  /\ pc[o] = "update"
  /\ IF \/ Relocates(o) /\ Occupied(req[o].to)
        \/ req[o].kind = "move" /\ ~Matches(at[o], req[o].id, req[o].etag)
     THEN Refuse(o)
     ELSE /\ \E f \in Outcome(o) :
                /\ draft' = [draft EXCEPT ![o] = f]
                /\ Goto(o, CASE req[o].kind = "move" -> "write"
                             [] req[o].kind = "patch" -> "commit"
                             [] OTHER -> "recheck")
          /\ disturbed' = [disturbed EXCEPT ![o] = @ /\ req[o].kind # "move"]
          /\ LET found == IF req[o].kind = "move" THEN Anonymous(o) ELSE {}
             IN  strayed' = strayed \cup found /\ doubled' = doubled \cup found
          /\ UNCHANGED <<files, rows, index, lock, req, at, seen, devices>>

(* The transaction: the target is free of live rows, a move reads its file
   again, and the row update is issued. *)
UpdateRow(o) ==
  /\ pc[o] = "update"
  /\ IF \/ Relocates(o) /\ Occupied(req[o].to)
        \/ req[o].kind = "move" /\ ~Matches(at[o], req[o].id, req[o].etag)
     THEN Refuse(o)
     ELSE /\ \E f \in Outcome(o) :
                /\ draft' = [draft EXCEPT ![o] = f]
                /\ Goto(o, CASE req[o].kind = "move" -> "write"
                             [] req[o].kind = "patch" /\ f = req[o].etag -> "commit"
                             [] OTHER -> "recheck")
          /\ disturbed' = [disturbed EXCEPT ![o] = @ /\ req[o].kind # "move"]
          /\ LET found == IF req[o].kind = "move" THEN Anonymous(o) ELSE {}
             IN  strayed' = strayed \cup found /\ doubled' = doubled \cup found
          /\ UNCHANGED <<files, rows, index, lock, req, at, seen, devices>>

RecheckBlind(o) ==
  /\ pc[o] = "recheck"
  /\ Goto(o, "write")
  /\ disturbed' = [disturbed EXCEPT ![o] = FALSE]
  /\ UNCHANGED <<files, rows, index, lock, req, at, seen, draft, strayed, doubled, devices>>

(* The new bytes are staged beside the file and the file is checked once more. *)
Recheck(o) ==
  /\ pc[o] = "recheck"
  /\ IF Matches(at[o], req[o].id, req[o].etag)
     THEN /\ Goto(o, "write")
          /\ disturbed' = [disturbed EXCEPT ![o] = FALSE]
          /\ UNCHANGED <<files, rows, index, lock, req, at, seen, draft, strayed, doubled, devices>>
     ELSE Refuse(o)

(* The rename of the staged bytes over the file. *)
Overwrite(o) ==
  /\ pc[o] = "write" /\ ~Relocates(o)
  /\ files' = [files EXCEPT ![at[o]] = draft[o]]
  /\ Goto(o, "commit")
  /\ Spread(o, {at[o]}) /\ strayed' = strayed \cup Misled(o, {at[o]})
  /\ UNCHANGED <<rows, index, lock, req, at, seen, draft, doubled, devices>>

LinkClobbers(o) ==
  /\ pc[o] = "write" /\ Relocates(o)
  /\ files' = [files EXCEPT ![req[o].to] = IF req[o].kind = "move" THEN files[at[o]] ELSE draft[o]]
  /\ Goto(o, "unlink")
  /\ strayed' = strayed \cup Carried(o) /\ doubled' = doubled \cup Carried(o)
  /\ UNCHANGED <<rows, index, lock, req, at, seen, draft, disturbed, devices>>

(* _move_file: the exclusive link of the new name (of the file itself for a
   move, of the staged bytes for a rename) ... *)
Link(o) ==
  /\ pc[o] = "write" /\ Relocates(o)
  /\ IF \/ files[req[o].to] # None
        \/ req[o].kind = "move" /\ files[at[o]] = None
     THEN Refuse(o)
     ELSE /\ files' = [files EXCEPT ![req[o].to] = IF req[o].kind = "move" THEN files[at[o]]
                                                   ELSE draft[o]]
          /\ Goto(o, "unlink")
          /\ strayed' = strayed \cup Carried(o) /\ doubled' = doubled \cup Carried(o)
          /\ UNCHANGED <<rows, index, lock, req, at, seen, draft, disturbed, devices>>

(* ... and the removal of the old one. *)
Unlink(o) ==
  /\ pc[o] = "unlink"
  /\ files[at[o]] # None
  /\ files' = [files EXCEPT ![at[o]] = None]
  /\ index' = IF index = None THEN None ELSE [index EXCEPT ![req[o].id] = {req[o].to}]
  /\ Goto(o, "commit")
  /\ Spread(o, {at[o]}) /\ strayed' = strayed \cup Misled(o, {at[o]})
  /\ UNCHANGED <<rows, lock, req, at, seen, draft, doubled, devices>>

UndoLinkLeaves(o) ==
  /\ pc[o] = "unlink"
  /\ Answer(o)
  /\ UNCHANGED <<files, rows, index, strayed, doubled, devices>>

(* An error after the link takes the new name back while the old one is
   there; with the old one gone the new one is the only copy and stays. *)
UndoLink(o) ==
  /\ pc[o] = "unlink"
  /\ \/ /\ files[at[o]] # None
        /\ files' = [files EXCEPT ![req[o].to] = None]
        /\ AnswerTouching(o, {req[o].to})
        /\ strayed' = strayed \cup Misled(o, {req[o].to})
     \/ /\ files' = [files EXCEPT ![at[o]] = None]
        /\ AnswerTouching(o, {at[o]})
        /\ strayed' = strayed \cup {req[o].id} \cup Misled(o, {at[o]})
  /\ UNCHANGED <<rows, index, doubled, devices>>

-----------------------------------------------------------------------------
(* The commit, the failures, the devices. *)

CommittedInPlace(o) == [path |-> IF req[o].kind = "create" THEN req[o].to
                                 ELSE rows[req[o].id].path,
                        hash |-> draft[o],
                        live |-> TRUE]

CommittedAtTarget(o) == [path |-> req[o].to, hash |-> draft[o], live |-> TRUE]

(* The row as the operation leaves it: a replace and a patch keep its path. *)
Committed(o) == [path |-> IF req[o].kind \in {"create", "move", "rename"} THEN req[o].to
                          ELSE rows[req[o].id].path,
                 hash |-> draft[o],
                 live |-> TRUE]

Commit(o) ==
  /\ pc[o] = "commit"
  /\ rows' = [rows EXCEPT ![req[o].id] = Committed(o)]
  /\ Answer(o)
  /\ UNCHANGED <<files, index, strayed, doubled, devices>>

CommitFails(o) ==
  /\ pc[o] = "commit"
  /\ strayed' = strayed \cup {req[o].id}
  /\ Answer(o)
  /\ UNCHANGED <<files, rows, index, doubled, devices>>

(* PostgreSQL or the notes volume goes away, or the client does, before the
   file has been touched: the transaction rolls back, staged bytes are removed. *)
Interrupted(o) ==
  /\ pc[o] \in {"locate", "repair", "lock", "select", "create", "update", "recheck", "write"}
  /\ Refuse(o)

(* The process dies and starts again: files and committed rows survive. *)
Crash ==
  /\ \E o \in Ops : pc[o] # "idle"
  /\ strayed' = strayed \cup {req[o].id : o \in {u \in Ops : pc[u] \in {"unlink", "commit"}}}
  /\ doubled' = doubled \cup {req[o].id : o \in {u \in Ops : pc[u] = "unlink"}}
  /\ index' = None
  /\ lock' = [i \in Ids |-> None]
  /\ pc' = [o \in Ops |-> "idle"]
  /\ req' = [o \in Ops |-> None]
  /\ at' = [o \in Ops |-> None]
  /\ seen' = [o \in Ops |-> None]
  /\ draft' = [o \in Ops |-> None]
  /\ disturbed' = [o \in Ops |-> FALSE]
  /\ UNCHANGED <<files, rows, devices>>

(* What a device does to the paths in P disturbs every operation about to
   write, and the mirror of every note that is or was there.  A copy gives a
   note a second name. *)
DeviceTouches(P) ==
  /\ disturbed' = [o \in Ops |-> disturbed[o] \/ Near(o, P)]
  /\ strayed' = strayed \cup Claimed(P) \cup {i \in Ids : P \cap (Names(i) \cup Names(i)') # {}}
  /\ doubled' = doubled \cup {i \in Ids : \/ \E p \in P \cap Names(i)', q \in Names(i)' : p # q
                                          \/ \E o \in Ops : /\ pc[o] \in {"write", "unlink"}
                                                            /\ req[o].id = i
                                                            /\ at[o] \in P}
  /\ devices' = devices + 1
  /\ UNCHANGED <<rows, index, lock, opVars>>

(* A device writes new bytes: over a note, or a file of its own without identity. *)
DeviceWrites(p) ==
  /\ devices < MaxDevice
  /\ \E i \in IF files[p] = None THEN {NoId} ELSE {files[p].id, NoId} :
        \E f \in Fresh(i) : files' = [files EXCEPT ![p] = f]
  /\ DeviceTouches({p})

DeviceDeletes(p) ==
  /\ devices < MaxDevice /\ files[p] # None
  /\ files' = [files EXCEPT ![p] = None]
  /\ DeviceTouches({p})

DeviceMoves(p, q) ==
  /\ devices < MaxDevice /\ files[p] # None /\ files[q] = None
  /\ files' = [files EXCEPT ![q] = files[p], ![p] = None]
  /\ DeviceTouches({p, q})

DeviceCopies(p, q) ==
  /\ devices < MaxDevice /\ files[p] # None /\ files[q] = None
  /\ files' = [files EXCEPT ![q] = files[p]]
  /\ DeviceTouches({p, q})

Device == \E p, q \in Paths : \/ DeviceWrites(p)
                              \/ DeviceDeletes(p)
                              \/ DeviceMoves(p, q)
                              \/ DeviceCopies(p, q)

(* Nothing is awaited between the last check of a file and the rename or link
   that follows, or between a link and its unlink: no other request runs then. *)
InOneGo(o) == pc[o] = "unlink" \/ (pc[o] = "write" /\ req[o].kind # "move")
Turn(o) == \A u \in Ops \ {o} : ~InOneGo(u)

(* What the event loop does next with a request when nothing goes wrong ... *)
Advance(o) == \/ CreateSelect(o) \/ CreateFile(o) \/ CreateAgain(o)
              \/ Locate(o) \/ Repair(o) \/ LockAndCheck(o) \/ UpdateRow(o) \/ Recheck(o)
              \/ Overwrite(o) \/ Link(o) \/ Unlink(o) \/ Commit(o)
Progress(o) == Turn(o) /\ Advance(o)

(* ... and when something does. *)
Failure(o) == Turn(o) /\ (CreateRejected(o) \/ UndoLink(o) \/ CommitFails(o) \/ Interrupted(o))

Step(o) == Progress(o) \/ Failure(o)

Ask(o) == Turn(o) /\ (AskCreate(o) \/ AskChange(o))

Next == Device \/ Crash \/ \E o \in Ops : Ask(o) \/ Step(o)

Spec == Init /\ [][Next]_vars

(* The event loop's queue of ready tasks, asyncio.Lock and PostgreSQL's row
   locks are all first in, first out: a request that could go on again and
   again does go on, failures or not. *)
FairSpec == Spec /\ \A o \in Ops : SF_vars(Progress(o))

-----------------------------------------------------------------------------
TypeOK == /\ files \in [Paths -> File \cup {None}]
          /\ rows \in [Ids -> Row \cup {None}]
          /\ index \in [Ids -> SUBSET Paths] \cup {None}
          /\ lock \in [Ids -> Ops \cup {None}]
          /\ pc \in [Ops -> {"idle", "select", "create", "locate", "repair", "lock", "update"}
                              \cup Writing]
          /\ req \in [Ops -> Request \cup {None}]
          /\ at \in [Ops -> Paths \cup {None}]
          /\ seen \in [Ops -> Paths \cup {None}]
          /\ draft \in [Ops -> File \cup {None}]
          /\ disturbed \in [Ops -> BOOLEAN]
          /\ strayed \subseteq Ids
          /\ doubled \subseteq Ids

(* A note's lock is held by the one operation between its check and its
   answer, and by nobody otherwise: no refusal, failure or crash leaks it. *)
Critical == {"update"} \cup Writing
Holds(o, i) == pc[o] \in Critical /\ req[o].id = i /\ req[o].kind # "create"
LockDiscipline == \A i \in Ids, o \in Ops : lock[i] = o <=> Holds(o, i)

Bytes == {files[p] : p \in Paths} \ {None}

(* The heart of the protocol (notes.py:22-25 and _replace_if_unchanged): a
   change of a note makes no bytes disappear from the notes filesystem but the
   ones its caller named, or the ones it has itself just created, unless a
   device wrote in the narrow window after its last check.  (What a create may
   take back is what AcknowledgedIsOnDisk says it has there.) *)
NothingLostUnread ==
  [][\A o \in Ops : Step(o) /\ ~disturbed[o] /\ req[o].kind # "create"
       => Bytes \ Bytes' \subseteq {req[o].etag, draft[o]}]_vars

(* What the store is about to acknowledge is on disk, where it will say. *)
AcknowledgedIsOnDisk ==
  \A o \in Ops : pc[o] = "commit" /\ ~disturbed[o] =>
     files[IF Relocates(o) THEN req[o].to ELSE at[o]] = draft[o]

(* A row describes its file: the path holds a file with the hash the row
   mirrors.  Excused are a row in flight, and the notes a device, a failed
   commit or a crash has touched; those are reconciliation's work. *)
MirrorFollowsFile ==
  \A i \in Ids : Live(i) /\ i \notin strayed /\ ~RowBusy(i) => files[rows[i].path] = rows[i].hash

(* Two live rows never claim one path, once neither is being rewritten: the
   select and the exclusive link together see to it, for historical paths are
   not unique in the table. *)
LivePathsDistinct ==
  \A i, j \in Ids \ strayed :
     i # j /\ Live(i) /\ Live(j) /\ ~RowBusy(i) /\ ~RowBusy(j) => rows[i].path # rows[j].path

(* A note has one live name, but for the moment between a link and the unlink,
   unless a device copied it, or put another file in its place under a request,
   or the store died in that moment: two live names are the state reconciliation
   leaves alone (notes.py:136-145). *)
OneNamePerNote ==
  \A i \in Ids \ doubled : \/ \A p, q \in Names(i) : p = q
                           \/ \E o \in Ops : pc[o] = "unlink" /\ req[o].id = i

(* Every request is answered: no operation waits for a lock for ever. *)
EveryRequestAnswered == \A o \in Ops : pc[o] # "idle" ~> pc[o] = "idle"
=============================================================================
