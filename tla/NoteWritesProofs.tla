-------------------------- MODULE NoteWritesProofs --------------------------
(* What NoteWrites promises for any number of requests, notes, paths and
   device events: the types, the discipline of the note locks, and that no
   change of a note loses bytes nobody has read; then what acknowledgements
   and rows say of the disk. *)
EXTENDS NoteWrites, TLAPS

(* What a request is at each of its steps: what it asks for ... *)
Creating == {"select", "create"}
Changing == {"locate", "repair", "lock", "update", "recheck", "write", "unlink"}
Found    == {"repair", "lock"} \cup Critical

Asks(o) ==
  /\ pc[o] = "idle" <=> req[o] = None
  /\ pc[o] \in Creating => req[o].kind = "create"
  /\ pc[o] \in Changing => req[o].kind \in Change
  /\ pc[o] # "idle" /\ req[o].kind \in {"create", "move", "rename"} => req[o].to \in Paths
  /\ pc[o] # "idle" /\ req[o].kind \in {"replace", "patch", "rename"} => req[o].etag \in File

(* ... where it has found its file, and what it is about to leave. *)
Works(o) ==
  /\ pc[o] \in Found => at[o] \in Paths
  /\ pc[o] \in Writing => draft[o] \in File
  /\ pc[o] = "unlink" => req[o].kind \in {"move", "rename"} /\ req[o].to # at[o]
  /\ pc[o] \in Critical /\ req[o].kind = "move" => req[o].to # at[o]
  /\ pc[o] \in Found /\ req[o].kind # "create" => rows[req[o].id] # None

(* What it has checked is so until its rename or its unlink, unless a device
   comes in between. *)
Checked(o) ==
  ~disturbed[o] =>
     /\ pc[o] = "write" /\ req[o].kind # "move" => files[at[o]] = req[o].etag
     /\ pc[o] = "unlink" =>
          /\ req[o].kind = "move" => files[req[o].to] = files[at[o]]
          /\ req[o].kind = "rename" => files[at[o]] = req[o].etag /\ files[req[o].to] = draft[o]

Sound(o) == Asks(o) /\ Works(o) /\ Checked(o)

IInv == /\ TypeOK
        /\ LockDiscipline
        /\ \A o \in Ops : Sound(o)

USE NamesAssumption, NoneAssumption, BoundsAssumption DEF Change

-----------------------------------------------------------------------------
(* A step of o leaves what the other requests are at, and a lock that is not
   o's, as they are; nobody else is between a check and its rename. *)
Others(o) == \A u \in Ops \ {o} : /\ pc'[u] = pc[u] /\ req'[u] = req[u]
                                  /\ at'[u] = at[u] /\ draft'[u] = draft[u]

LEMMA OthersStaySound ==
  ASSUME NEW o \in Ops, IInv, Turn(o), Others(o),
         \A i \in Ids : rows[i] # None => rows'[i] # None
  PROVE  \A u \in Ops \ {o} : Sound(u)'
<1> SUFFICES ASSUME NEW u \in Ops \ {o} PROVE Sound(u)'
  OBVIOUS
<1>1. Sound(u) /\ ~InOneGo(u) /\ (req[u] \in Request \/ req[u] = None)
  BY DEF IInv, Turn, TypeOK
<1>2. Asks(u)'
  BY <1>1 DEF Sound, Asks, Others
<1>3. Works(u)'
  BY <1>1 DEF Sound, Works, Asks, Others, Request, Found, Critical, Writing
<1>4. Checked(u)'
  BY <1>1 DEF InOneGo, Checked, Others
<1> QED BY <1>2, <1>3, <1>4 DEF Sound

(* However a request ends, the others go on as they were and its lock is free. *)
LEMMA AnswerKeeps ==
  ASSUME NEW o \in Ops, IInv, Turn(o), Forget(o), Release(o), TypeOK',
         \A i \in Ids : rows[i] # None => rows'[i] # None
  PROVE  IInv'
<1>1. Others(o)
  BY DEF IInv, TypeOK, Forget, Others
<1>2. pc'[o] = "idle" /\ req'[o] = None
  BY DEF IInv, TypeOK, Forget
<1>3. Sound(o)'
  BY <1>2 DEF Sound, Asks, Works, Checked, Creating, Changing, Found, Critical, Writing
<1>4. LockDiscipline'
  BY <1>1, <1>2 DEF IInv, TypeOK, LockDiscipline, Holds, Others, Release, Critical, Writing
<1> QED BY <1>1, <1>3, <1>4, OthersStaySound DEF IInv

LEMMA ForgetTypes ==
  ASSUME NEW o \in Ops, TypeOK, Forget(o), Release(o)
  PROVE  /\ lock' \in [Ids -> Ops \cup {None}]
         /\ pc' \in [Ops -> {"idle", "select", "create", "locate", "repair", "lock", "update"}
                              \cup Writing]
         /\ req' \in [Ops -> Request \cup {None}]
         /\ at' \in [Ops -> Paths \cup {None}]
         /\ seen' \in [Ops -> Paths \cup {None}]
         /\ draft' \in [Ops -> File \cup {None}]
  BY DEF TypeOK, Forget, Release

LEMMA RefuseKeeps ==
  ASSUME NEW o \in Ops, IInv, Turn(o), Refuse(o)
  PROVE  IInv'
<1>1. TypeOK'
  BY ForgetTypes DEF IInv, TypeOK, Refuse, Answer
<1> QED BY <1>1, AnswerKeeps DEF Refuse, Answer

(* Only notes stray. *)
LEMMA OnlyNotesStray ==
  ASSUME NEW o \in Ops, NEW P, req[o] \in Request
  PROVE  Anonymous(o) \subseteq Ids /\ Carried(o) \subseteq Ids /\ Misled(o, P) \subseteq Ids
  BY DEF Anonymous, Carried, Misled, Claimed, Request

-----------------------------------------------------------------------------
LEMMA AskKeeps ==
  ASSUME NEW o \in Ops, IInv, Turn(o), AskCreate(o) \/ AskChange(o)
  PROVE  IInv'
<1>1. TypeOK'
  <2>1. CASE AskCreate(o)
    BY <2>1 DEF IInv, TypeOK, AskCreate, Goto, history, Request
  <2>2. CASE AskChange(o)
    BY <2>2 DEF IInv, TypeOK, AskChange, Goto, history, Request
  <2> QED BY <2>1, <2>2
<1>2. Others(o)
  BY DEF IInv, TypeOK, AskCreate, AskChange, Goto, Others
<1>3. Sound(o)'
  <2>1. CASE AskCreate(o)
    BY <2>1 DEF IInv, TypeOK, AskCreate, Goto, Sound, Asks, Works, Checked, Creating, Changing, Found,
                Critical, Writing, Request
  <2>2. CASE AskChange(o)
    BY <2>2 DEF IInv, TypeOK, AskChange, Goto, Sound, Asks, Works, Checked, Creating, Changing, Found,
                Critical, Writing, Request, Names, Matches
  <2> QED BY <2>1, <2>2
<1>4. LockDiscipline'
  BY DEF IInv, TypeOK, AskCreate, AskChange, Goto, LockDiscipline, Holds, Critical, Writing
<1> QED BY <1>1, <1>2, <1>3, <1>4, OthersStaySound DEF IInv, AskCreate, AskChange

LEMMA CreateKeeps ==
  ASSUME NEW o \in Ops, IInv, Turn(o), CreateSelect(o) \/ CreateFile(o) \/ CreateAgain(o)
  PROVE  IInv'
<1>1. CASE CreateSelect(o)
  <2>1. CASE Refuse(o)
    BY <2>1, RefuseKeeps
  <2>2. CASE ~Refuse(o)
    <3>1. TypeOK'
      BY <1>1, <2>2 DEF IInv, TypeOK, CreateSelect, Goto, history
    <3>2. Others(o)
      BY <1>1, <2>2 DEF IInv, TypeOK, CreateSelect, Goto, Others
    <3>3. Sound(o)'
      BY <1>1, <2>2 DEF IInv, TypeOK, CreateSelect, Goto, Sound, Asks, Works, Checked, Creating, Changing,
                        Found, Critical, Writing
    <3>4. LockDiscipline'
      BY <1>1, <2>2 DEF IInv, TypeOK, CreateSelect, Goto, LockDiscipline, Holds, Critical, Writing
    <3> QED BY <1>1, <2>2, <3>1, <3>2, <3>3, <3>4, OthersStaySound DEF IInv, CreateSelect
  <2> QED BY <2>1, <2>2
<1>2. CASE CreateFile(o)
  <2>1. TypeOK'
    BY <1>2 DEF IInv, TypeOK, CreateFile, Goto, history, Fresh, File, Sound, Asks, Creating, Request, Writing
  <2>2. Others(o)
    BY <1>2 DEF IInv, TypeOK, CreateFile, Goto, Others
  <2>3. Sound(o)'
    BY <1>2 DEF IInv, TypeOK, CreateFile, Goto, Sound, Asks, Works, Checked, Creating, Changing,
                Found, Critical, Writing, Fresh, File, Request
  <2>4. LockDiscipline'
    BY <1>2 DEF IInv, TypeOK, CreateFile, Goto, LockDiscipline, Holds, Critical, Writing, Sound, Asks, Creating
  <2> QED BY <1>2, <2>1, <2>2, <2>3, <2>4, OthersStaySound DEF IInv, CreateFile
<1>3. CASE CreateAgain(o)
  <2>1. CASE Refuse(o)
    BY <2>1, RefuseKeeps
  <2>2. CASE ~Refuse(o)
    <3>1. PICK p \in Paths : req' = [req EXCEPT ![o].to = p, ![o].tries = @ + 1]
      BY <1>3, <2>2 DEF CreateAgain
    <3>2. req[o] \in Request /\ req[o].kind = "create" /\ pc[o] = "create"
      BY <1>3 DEF IInv, TypeOK, CreateAgain, Sound, Asks, Creating
    <3>3. req'[o] \in Request /\ req'[o].kind = "create" /\ req'[o].to = p
      BY <3>1, <3>2 DEF IInv, TypeOK, Request
    <3>4. TypeOK'
      BY <1>3, <2>2, <3>1, <3>3 DEF IInv, TypeOK, CreateAgain, Goto, history
    <3>5. Others(o)
      BY <1>3, <2>2, <3>1 DEF IInv, TypeOK, CreateAgain, Goto, Others
    <3>6. Sound(o)'
      BY <1>3, <2>2, <3>3 DEF IInv, TypeOK, CreateAgain, Goto, Sound, Asks, Works, Checked, Creating, Changing,
                              Found, Critical, Writing
    <3>7. LockDiscipline'
      BY <1>3, <2>2, <3>2, <3>3, <3>5 DEF IInv, TypeOK, CreateAgain, Goto, LockDiscipline, Holds, Critical,
                                    Writing, Others
    <3> QED BY <1>3, <2>2, <3>4, <3>5, <3>6, <3>7, OthersStaySound DEF IInv, CreateAgain
  <2> QED BY <2>1, <2>2
<1> QED BY <1>1, <1>2, <1>3

LEMMA LocateKeeps ==
  ASSUME NEW o \in Ops, IInv, Turn(o), Locate(o)
  PROVE  IInv'
<1> DEFINE i == req[o].id
           Goes(step) == \E p \in Paths : /\ at' = [at EXCEPT ![o] = p]
                                        /\ seen' = [seen EXCEPT ![o] = rows[i].path]
                                        /\ Goto(o, step) /\ Live(i)
                                        /\ UNCHANGED <<files, rows, lock, req, draft, history>>
<1>1. /\ pc[o] = "locate" /\ req[o] \in Request /\ req[o].kind \in Change /\ i \in Ids
      /\ Live(i) => rows[i] \in Row /\ rows[i].path \in Paths
  BY DEF IInv, TypeOK, Locate, Sound, Asks, Changing, Request, Live, Row
<1>2. index' \in [Ids -> SUBSET Paths] \cup {None}
  BY <1>1 DEF IInv, TypeOK, Locate, Names, Refuse
<1>3. \/ Refuse(o)
      \/ Answer(o) /\ UNCHANGED <<files, rows, strayed, doubled, devices>>
      \/ Goes("repair") \/ Goes("lock")
  BY <1>1 DEF Locate, IInv, TypeOK, Names
<1>4. CASE Refuse(o)
  BY <1>4, RefuseKeeps
<1>5. CASE Answer(o) /\ UNCHANGED <<files, rows, strayed, doubled, devices>>
  <2>1. TypeOK'
    BY <1>2, <1>5, ForgetTypes DEF IInv, TypeOK, Answer
  <2> QED BY <1>5, <2>1, AnswerKeeps DEF Answer
<1>6. CASE Goes("repair") \/ Goes("lock")
  <2>1. TypeOK'
    BY <1>1, <1>2, <1>6 DEF IInv, TypeOK, Goto, history
  <2>2. Others(o)
    BY <1>6 DEF IInv, TypeOK, Goto, Others
  <2>3. Sound(o)'
    BY <1>1, <1>6 DEF IInv, TypeOK, Goto, Sound, Asks, Works, Checked, Creating, Changing, Found, Critical,
                      Writing, Live
  <2>4. LockDiscipline'
    BY <1>1, <1>6 DEF IInv, TypeOK, Goto, LockDiscipline, Holds, Critical, Writing
  <2> QED BY <1>6, <2>1, <2>2, <2>3, <2>4, OthersStaySound DEF IInv
<1> QED BY <1>3, <1>4, <1>5, <1>6

LEMMA RepairKeeps ==
  ASSUME NEW o \in Ops, IInv, Turn(o), Repair(o)
  PROVE  IInv'
<1>1. /\ pc[o] = "repair" /\ req[o] \in Request /\ req[o].id \in Ids /\ at[o] \in Paths
      /\ req[o].kind \in Change
  BY DEF IInv, TypeOK, Repair, Sound, Asks, Works, Changing, Found, Request
<1>2. rows' \in [Ids -> Row \cup {None}] /\ \A i \in Ids : rows[i] # None => rows'[i] # None
  BY <1>1 DEF IInv, TypeOK, Repair, Live, Row
<1>3. TypeOK'
  BY <1>1, <1>2 DEF IInv, TypeOK, Repair, Goto
<1>4. Others(o)
  BY DEF IInv, TypeOK, Repair, Goto, Others
<1>5. Sound(o)'
  BY <1>1, <1>2 DEF IInv, TypeOK, Repair, Goto, Sound, Asks, Works, Checked, Creating, Changing, Found,
                    Critical, Writing
<1>6. LockDiscipline'
  BY <1>1 DEF IInv, TypeOK, Repair, Goto, LockDiscipline, Holds, Critical, Writing
<1> QED BY <1>2, <1>3, <1>4, <1>5, <1>6, OthersStaySound DEF IInv

LEMMA LockKeeps ==
  ASSUME NEW o \in Ops, IInv, Turn(o), LockAndCheck(o)
  PROVE  IInv'
<1>1. /\ pc[o] = "lock" /\ req[o] \in Request /\ req[o].id \in Ids /\ req[o].kind \in Change
      /\ lock[req[o].id] = None
  BY DEF IInv, TypeOK, LockAndCheck, Sound, Asks, Changing, Request
<1>2. CASE Refuse(o)
  BY <1>2, RefuseKeeps
<1>3. CASE ~Refuse(o)
  <2>1. TypeOK'
    <3>1. /\ lock' = [lock EXCEPT ![req[o].id] = o] /\ pc' = [pc EXCEPT ![o] = "update"]
          /\ disturbed' = [disturbed EXCEPT ![o] = FALSE]
          /\ strayed' = strayed \cup Anonymous(o) /\ doubled' = doubled \cup Anonymous(o)
          /\ UNCHANGED <<files, rows, index, req, at, seen, draft, devices>>
      BY <1>3 DEF LockAndCheck, Goto
    <3>2. /\ lock' \in [Ids -> Ops \cup {None}] /\ disturbed' \in [Ops -> BOOLEAN]
          /\ strayed' \subseteq Ids /\ doubled' \subseteq Ids
      BY <1>1, <3>1, OnlyNotesStray DEF IInv, TypeOK
    <3> QED BY <3>1, <3>2 DEF IInv, TypeOK
  <2>2. Others(o)
    BY <1>3 DEF IInv, TypeOK, LockAndCheck, Goto, Others
  <2>3. Sound(o)'
    BY <1>1, <1>3 DEF IInv, TypeOK, LockAndCheck, Goto, Sound, Asks, Works, Checked, Creating, Changing,
                      Found, Critical, Writing, Relocates
  <2>4. LockDiscipline'
    BY <1>1, <1>3 DEF IInv, TypeOK, LockAndCheck, Goto, LockDiscipline, Holds, Critical, Writing
  <2> QED BY <1>3, <2>1, <2>2, <2>3, <2>4, OthersStaySound DEF IInv, LockAndCheck
<1> QED BY <1>2, <1>3

LEMMA FreshIsAFile ==
  ASSUME NEW i \in Ids \cup {NoId}, NEW f \in Fresh(i) PROVE f \in File
  BY DEF Fresh, File

(* The steps inside a request's lock. *)
LEMMA UpdateKeeps ==
  ASSUME NEW o \in Ops, IInv, Turn(o), UpdateRow(o)
  PROVE  IInv'
<1>1. /\ pc[o] = "update" /\ req[o] \in Request /\ req[o].id \in Ids /\ req[o].kind \in Change
      /\ req[o].kind # "move" => req[o].etag \in File /\ req[o].etag.id \in Ids \cup {NoId}
      /\ at[o] \in Paths
  BY DEF IInv, TypeOK, UpdateRow, Sound, Asks, Works, Changing, Found, Critical, Request, File
<1>2. CASE Refuse(o)
  BY <1>2, RefuseKeeps
<1>3. CASE ~Refuse(o)
  <2>1. PICK f \in Outcome(o) :
          /\ draft' = [draft EXCEPT ![o] = f]
          /\ Goto(o, CASE req[o].kind = "move" -> "write"
                       [] req[o].kind = "patch" /\ f = req[o].etag -> "commit"
                       [] OTHER -> "recheck")
    BY <1>3 DEF UpdateRow
  <2>2. f \in File
    <3>1. CASE req[o].kind = "move"
      BY <1>1, <1>3, <2>1, <3>1 DEF IInv, TypeOK, UpdateRow, Matches, Outcome
    <3>2. CASE req[o].kind = "replace"
      BY <1>1, <3>2, FreshIsAFile DEF Outcome
    <3>3. CASE req[o].kind \in {"patch", "rename"}
      BY <1>1, <3>3, FreshIsAFile DEF Outcome
    <3> QED BY <1>1, <3>1, <3>2, <3>3
  <2>3. /\ pc' = [pc EXCEPT ![o] = pc'[o]] /\ pc'[o] \in {"write", "commit", "recheck"}
        /\ pc'[o] = "write" <=> req[o].kind = "move"
    BY <1>1, <2>1 DEF Goto, IInv, TypeOK
  <2>4. TypeOK'
    <3>1. /\ UNCHANGED <<files, rows, index, lock, req, at, seen, devices>>
          /\ disturbed' \in [Ops -> BOOLEAN]
      BY <1>3 DEF IInv, TypeOK, UpdateRow
    <3>4. strayed' \subseteq Ids /\ doubled' \subseteq Ids
      BY <1>1, <1>3, OnlyNotesStray DEF IInv, TypeOK, UpdateRow
    <3>2. draft' \in [Ops -> File \cup {None}]
      BY <2>1, <2>2 DEF IInv, TypeOK
    <3>3. pc' \in [Ops -> {"idle", "select", "create", "locate", "repair", "lock", "update"} \cup Writing]
      BY <2>3 DEF IInv, TypeOK, Writing
    <3> QED BY <3>1, <3>2, <3>3, <3>4 DEF IInv, TypeOK
  <2>5. Others(o)
    BY <1>3, <2>1, <2>3 DEF IInv, TypeOK, UpdateRow, Others
  <2>6. Sound(o)'
    BY <1>1, <1>3, <2>1, <2>2, <2>3 DEF IInv, TypeOK, UpdateRow, Sound, Asks, Works, Checked, Creating,
                                        Changing, Found, Critical, Writing
  <2>7. LockDiscipline'
    BY <1>1, <1>3, <2>3, <2>5 DEF IInv, TypeOK, UpdateRow, LockDiscipline, Holds, Critical, Writing, Others
  <2> QED BY <1>3, <2>4, <2>5, <2>6, <2>7, OthersStaySound DEF IInv, UpdateRow
<1> QED BY <1>2, <1>3

LEMMA RecheckKeeps ==
  ASSUME NEW o \in Ops, IInv, Turn(o), Recheck(o)
  PROVE  IInv'
<1>1. /\ pc[o] = "recheck" /\ req[o] \in Request /\ req[o].kind \in Change
      /\ req[o].kind # "move" => req[o].etag \in File
  BY DEF IInv, TypeOK, Recheck, Sound, Asks, Changing
<1>2. CASE Refuse(o)
  BY <1>2, RefuseKeeps
<1>3. CASE ~Refuse(o)
  <2>1. TypeOK'
    BY <1>3 DEF IInv, TypeOK, Recheck, Goto, Writing
  <2>2. Others(o)
    BY <1>3 DEF IInv, TypeOK, Recheck, Goto, Others
  <2>3. Sound(o)'
    BY <1>1, <1>3 DEF IInv, TypeOK, Recheck, Goto, Sound, Asks, Works, Checked, Creating,
                      Changing, Found, Critical, Writing, Matches
  <2>4. LockDiscipline'
    BY <1>1, <1>3 DEF IInv, TypeOK, Recheck, Goto, LockDiscipline, Holds, Critical, Writing
  <2> QED BY <1>3, <2>1, <2>2, <2>3, <2>4, OthersStaySound DEF IInv, Recheck
<1> QED BY <1>2, <1>3

LEMMA SpreadTypes ==
  ASSUME NEW o \in Ops, NEW P, TypeOK, Spread(o, P),
         pc' \in [Ops -> {"idle", "select", "create", "locate", "repair", "lock", "update"}
                              \cup Writing]
  PROVE  disturbed' \in [Ops -> BOOLEAN]
  BY DEF TypeOK, Spread

LEMMA OverwriteKeeps ==
  ASSUME NEW o \in Ops, IInv, Turn(o), Overwrite(o)
  PROVE  IInv'
<1>1. /\ pc[o] = "write" /\ at[o] \in Paths /\ draft[o] \in File /\ req[o] \in Request
  BY DEF IInv, TypeOK, Overwrite, Sound, Asks, Works, Found, Critical, Writing
<1>2. pc' = [pc EXCEPT ![o] = "commit"] /\ pc'[o] = "commit"
  BY DEF IInv, TypeOK, Overwrite, Goto
<1>3. TypeOK'
  <2>1. pc' \in [Ops -> {"idle", "select", "create", "locate", "repair", "lock", "update"} \cup Writing]
    BY <1>2 DEF IInv, TypeOK, Writing
  <2>2. disturbed' \in [Ops -> BOOLEAN]
    BY <2>1, SpreadTypes DEF IInv, Overwrite
  <2>3. files' \in [Paths -> File \cup {None}]
    BY <1>1 DEF IInv, TypeOK, Overwrite
  <2>4. strayed' \subseteq Ids
    BY <1>1, OnlyNotesStray DEF IInv, TypeOK, Overwrite
  <2> QED BY <2>1, <2>2, <2>3, <2>4 DEF IInv, TypeOK, Overwrite
<1>4. Others(o)
  BY <1>2 DEF IInv, TypeOK, Overwrite, Others
<1>5. Sound(o)'
  BY <1>1, <1>2 DEF IInv, TypeOK, Overwrite, Sound, Asks, Works, Checked, Creating, Changing, Found,
                    Critical, Writing
<1>6. LockDiscipline'
  BY <1>1, <1>2, <1>4 DEF IInv, TypeOK, Overwrite, LockDiscipline, Holds, Critical, Writing, Others
<1> QED BY <1>3, <1>4, <1>5, <1>6, OthersStaySound DEF IInv, Overwrite

LEMMA LinkKeeps ==
  ASSUME NEW o \in Ops, IInv, Turn(o), Link(o)
  PROVE  IInv'
<1>1. /\ pc[o] = "write" /\ at[o] \in Paths /\ draft[o] \in File /\ req[o] \in Request
      /\ req[o].kind \in {"move", "rename"} /\ req[o].to \in Paths /\ req[o].to # at[o]
  BY DEF IInv, TypeOK, Link, Relocates, Sound, Asks, Works, Found, Critical, Writing
<1>2. CASE Refuse(o)
  BY <1>2, RefuseKeeps
<1>3. CASE ~Refuse(o)
  <2>1. /\ files[req[o].to] = None /\ req[o].kind = "move" => files[at[o]] # None
        /\ files' = [files EXCEPT ![req[o].to] = IF req[o].kind = "move" THEN files[at[o]] ELSE draft[o]]
        /\ pc' = [pc EXCEPT ![o] = "unlink"] /\ pc'[o] = "unlink"
        /\ strayed' = strayed \cup Carried(o) /\ doubled' = doubled \cup Carried(o)
        /\ UNCHANGED <<rows, index, lock, req, at, seen, draft, disturbed, devices>>
    BY <1>3 DEF IInv, TypeOK, Link, Goto
  <2>2. TypeOK'
    <3>1. files' \in [Paths -> File \cup {None}]
      BY <1>1, <2>1 DEF IInv, TypeOK
    <3>2. pc' \in [Ops -> {"idle", "select", "create", "locate", "repair", "lock", "update"} \cup Writing]
      BY <2>1 DEF IInv, TypeOK, Writing
    <3>3. strayed' \subseteq Ids /\ doubled' \subseteq Ids
      BY <1>1, <2>1, OnlyNotesStray DEF IInv, TypeOK
    <3> QED BY <2>1, <3>1, <3>2, <3>3 DEF IInv, TypeOK
  <2>3. Others(o)
    BY <2>1 DEF IInv, TypeOK, Others
  <2>4. Sound(o)'
    <3>1. Asks(o)' /\ Works(o)'
      BY <1>1, <2>1 DEF IInv, Sound, Asks, Works, Creating, Changing, Found, Critical, Writing
    <3>2. Checked(o)'
      BY <1>1, <2>1 DEF IInv, TypeOK, Sound, Checked
    <3> QED BY <3>1, <3>2 DEF Sound
  <2>5. LockDiscipline'
    BY <1>1, <2>1, <2>3 DEF IInv, TypeOK, LockDiscipline, Holds, Critical, Writing, Others
  <2> QED BY <2>1, <2>2, <2>3, <2>4, <2>5, OthersStaySound DEF IInv
<1> QED BY <1>2, <1>3

LEMMA UnlinkKeeps ==
  ASSUME NEW o \in Ops, IInv, Turn(o), Unlink(o)
  PROVE  IInv'
<1>1. /\ pc[o] = "unlink" /\ at[o] \in Paths /\ draft[o] \in File /\ req[o] \in Request
      /\ req[o].to \in Paths /\ req[o].id \in Ids
  BY DEF IInv, TypeOK, Unlink, Sound, Asks, Works, Found, Critical, Writing, Request
<1>2. pc' = [pc EXCEPT ![o] = "commit"] /\ pc'[o] = "commit"
  BY DEF IInv, TypeOK, Unlink, Goto
<1>3. TypeOK'
  <2>1. pc' \in [Ops -> {"idle", "select", "create", "locate", "repair", "lock", "update"} \cup Writing]
    BY <1>2 DEF IInv, TypeOK, Writing
  <2>2. disturbed' \in [Ops -> BOOLEAN]
    BY <2>1, SpreadTypes DEF IInv, Unlink
  <2>3. files' \in [Paths -> File \cup {None}]
    BY <1>1 DEF IInv, TypeOK, Unlink
  <2>4. index' \in [Ids -> SUBSET Paths] \cup {None}
    BY <1>1 DEF IInv, TypeOK, Unlink
  <2>5. strayed' \subseteq Ids
    BY <1>1, OnlyNotesStray DEF IInv, TypeOK, Unlink
  <2> QED BY <2>1, <2>2, <2>3, <2>4, <2>5 DEF IInv, TypeOK, Unlink
<1>4. Others(o)
  BY <1>2 DEF IInv, TypeOK, Unlink, Others
<1>5. Sound(o)'
  BY <1>1, <1>2 DEF IInv, TypeOK, Unlink, Sound, Asks, Works, Checked, Creating, Changing, Found,
                    Critical, Writing
<1>6. LockDiscipline'
  BY <1>1, <1>2, <1>4 DEF IInv, TypeOK, Unlink, LockDiscipline, Holds, Critical, Writing, Others
<1> QED BY <1>3, <1>4, <1>5, <1>6, OthersStaySound DEF IInv, Unlink

(* The ends of a request that leave something changed. *)
LEMMA EndKeeps ==
  ASSUME NEW o \in Ops, IInv, Turn(o),
         CreateRejected(o) \/ UndoLink(o) \/ Commit(o) \/ CommitFails(o)
  PROVE  IInv'
<1>1. /\ req[o] \in Request /\ req[o].id \in Ids /\ draft[o] \in File
      /\ pc[o] = "unlink" => req[o].to \in Paths /\ at[o] \in Paths
      /\ pc[o] = "commit" /\ req[o].kind = "create" => req[o].to \in Paths
  BY DEF IInv, TypeOK, CreateRejected, UndoLink, Commit, CommitFails, Sound, Asks, Works, Found, Critical,
         Writing, Request
<1>2. CASE CreateRejected(o)
  <2>1. Forget(o) /\ Release(o) /\ Spread(o, {req[o].to})
    BY <1>2 DEF CreateRejected, AnswerTouching
  <2>2. files' \in [Paths -> File \cup {None}] /\ strayed' \subseteq Ids
    BY <1>1, <1>2, OnlyNotesStray DEF IInv, TypeOK, CreateRejected
  <2>3. disturbed' \in [Ops -> BOOLEAN]
    BY <2>1, ForgetTypes, SpreadTypes DEF IInv
  <2>4. TypeOK'
    BY <1>2, <2>1, <2>2, <2>3, ForgetTypes DEF IInv, TypeOK, CreateRejected
  <2> QED BY <1>2, <2>1, <2>4, AnswerKeeps DEF CreateRejected
<1>3. CASE UndoLink(o)
  <2>1. PICK p \in {at[o], req[o].to} :
          /\ files' = [files EXCEPT ![p] = None] /\ AnswerTouching(o, {p})
          /\ strayed' \subseteq strayed \cup {req[o].id} \cup Misled(o, {p})
    BY <1>3 DEF UndoLink
  <2>2. Forget(o) /\ Release(o) /\ Spread(o, {p})
    BY <2>1 DEF AnswerTouching
  <2>3. files' \in [Paths -> File \cup {None}] /\ strayed' \subseteq Ids
    BY <1>1, <2>1, OnlyNotesStray DEF IInv, TypeOK
  <2>4. disturbed' \in [Ops -> BOOLEAN]
    BY <2>2, ForgetTypes, SpreadTypes DEF IInv
  <2>5. TypeOK'
    BY <1>3, <2>2, <2>3, <2>4, ForgetTypes DEF IInv, TypeOK, UndoLink
  <2> QED BY <1>3, <2>2, <2>5, AnswerKeeps DEF UndoLink
<1>4. CASE Commit(o)
  <2>1. req[o].kind \in Change => rows[req[o].id] \in Row
    BY <1>1, <1>4 DEF IInv, TypeOK, Commit, Sound, Works, Found, Critical, Writing
  <2>2. Committed(o) \in Row
    BY <1>1, <1>4, <2>1 DEF Commit, Committed, Row, Request, IInv, Sound, Asks
  <2>3. rows' \in [Ids -> Row \cup {None}] /\ \A i \in Ids : rows[i] # None => rows'[i] # None
    BY <1>1, <1>4, <2>2 DEF IInv, TypeOK, Commit
  <2>4. TypeOK'
    BY <1>4, <2>3, ForgetTypes DEF IInv, TypeOK, Commit, Answer
  <2> QED BY <1>4, <2>3, <2>4, AnswerKeeps DEF Commit, Answer
<1>5. CASE CommitFails(o)
  <2>1. TypeOK'
    BY <1>1, <1>5, ForgetTypes DEF IInv, TypeOK, CommitFails, Answer
  <2> QED BY <1>5, <2>1, AnswerKeeps DEF CommitFails, Answer
<1> QED BY <1>2, <1>3, <1>4, <1>5

LEMMA CrashKeeps ==
  ASSUME IInv, Crash
  PROVE  IInv'
<1>1. strayed' \subseteq Ids /\ doubled' \subseteq Ids
  BY DEF IInv, TypeOK, Crash, Sound, Asks, Request
<1>2. TypeOK'
  BY <1>1 DEF IInv, TypeOK, Crash
<1>3. \A o \in Ops : Sound(o)'
  BY DEF Crash, Sound, Asks, Works, Checked, Creating, Changing, Found, Critical, Writing
<1>4. LockDiscipline'
  BY DEF Crash, LockDiscipline, Holds, Critical, Writing
<1> QED BY <1>2, <1>3, <1>4 DEF IInv

(* A device changes the paths in P and says so to every request at work there. *)
LEMMA TouchKeeps ==
  ASSUME NEW P \in SUBSET Paths, IInv, DeviceTouches(P), files' \in [Paths -> File \cup {None}],
         \A p \in Paths \ P : files'[p] = files[p]
  PROVE  IInv'
<1>1. TypeOK'
  BY DEF IInv, TypeOK, DeviceTouches, Claimed, opVars
<1>2. LockDiscipline'
  BY DEF IInv, LockDiscipline, Holds, DeviceTouches, opVars
<1>3. ASSUME NEW o \in Ops PROVE Sound(o)'
  <2>1. Asks(o)' /\ Works(o)'
    BY <1>3 DEF IInv, Sound, Asks, Works, DeviceTouches, opVars
  <2>2. Checked(o)'
    <3>1. SUFFICES ASSUME ~disturbed'[o], pc[o] \in {"write", "unlink"} PROVE Checked(o)'
      BY DEF Checked, DeviceTouches, opVars
    <3>2. at[o] \in Paths /\ (pc[o] = "unlink" => req[o].to \in Paths)
      BY <3>1 DEF IInv, Sound, Asks, Works, Found, Critical, Writing
    <3>3. ~disturbed[o] /\ at[o] \notin P /\ req[o].to \notin P
      BY <3>1, <3>2 DEF DeviceTouches, Near
    <3> QED BY <3>2, <3>3 DEF IInv, Sound, Checked, DeviceTouches, opVars
  <2> QED BY <2>1, <2>2 DEF Sound
<1> QED BY <1>1, <1>2, <1>3 DEF IInv

LEMMA DeviceKeeps ==
  ASSUME IInv, Device
  PROVE  IInv'
<1>1. PICK p \in Paths, q \in Paths :
        DeviceWrites(p) \/ DeviceDeletes(p) \/ DeviceMoves(p, q) \/ DeviceCopies(p, q)
  BY DEF Device
<1>2. CASE DeviceWrites(p)
  <2>1. PICK i \in Ids \cup {NoId} : \E f \in Fresh(i) : files' = [files EXCEPT ![p] = f]
    BY <1>2 DEF DeviceWrites, IInv, TypeOK, File
  <2>2. PICK f \in Fresh(i) : files' = [files EXCEPT ![p] = f]
    BY <2>1
  <2>3. f \in File
    BY <2>2, FreshIsAFile
  <2> QED BY <1>2, <2>2, <2>3, TouchKeeps DEF DeviceWrites, IInv, TypeOK
<1>3. CASE DeviceDeletes(p)
  BY <1>3, TouchKeeps DEF DeviceDeletes, IInv, TypeOK
<1>4. CASE DeviceMoves(p, q)
  BY <1>4, TouchKeeps DEF DeviceMoves, IInv, TypeOK
<1>5. CASE DeviceCopies(p, q)
  BY <1>5, TouchKeeps DEF DeviceCopies, IInv, TypeOK
<1> QED BY <1>1, <1>2, <1>3, <1>4, <1>5

-----------------------------------------------------------------------------
LEMMA StepKeeps ==
  ASSUME NEW o \in Ops, IInv, Step(o)
  PROVE  IInv'
<1>1. CASE Progress(o)
  BY <1>1, CreateKeeps, LocateKeeps, RepairKeeps, LockKeeps, UpdateKeeps, RecheckKeeps, OverwriteKeeps,
     LinkKeeps, UnlinkKeeps, EndKeeps DEF Progress, Advance
<1>2. CASE Failure(o)
  BY <1>2, EndKeeps, RefuseKeeps DEF Failure, Interrupted
<1> QED BY <1>1, <1>2 DEF Step

LEMMA InitHolds == Init => IInv
  BY DEF Init, Start, IInv, TypeOK, LockDiscipline, Holds, Sound, Asks, Works, Checked, Creating, Changing, Found,
         Critical, Writing

LEMMA Inductive == IInv /\ [Next]_vars => IInv'
<1> SUFFICES ASSUME IInv, [Next]_vars PROVE IInv'
  OBVIOUS
<1>1. CASE Device
  BY <1>1, DeviceKeeps
<1>2. CASE Crash
  BY <1>2, CrashKeeps
<1>3. ASSUME NEW o \in Ops, Ask(o) PROVE IInv'
  BY <1>3, AskKeeps DEF Ask
<1>4. ASSUME NEW o \in Ops, Step(o) PROVE IInv'
  BY <1>4, StepKeeps
<1>5. CASE UNCHANGED vars
  BY <1>5 DEF vars, opVars, history, IInv, TypeOK, LockDiscipline, Holds, Sound, Asks, Works, Checked
<1> QED BY <1>1, <1>2, <1>3, <1>4, <1>5 DEF Next

LEMMA Invariance == Spec => []IInv
  BY InitHolds, Inductive, PTL DEF Spec

(* The state of the write protocol has its types in every reachable state. *)
THEOREM WritesAreTyped == Spec => []TypeOK
  BY Invariance, PTL DEF IInv

(* However many requests there are for however many notes, a note's lock is
   held by the one request between its first check and its answer, and nothing,
   no refusal, failure, cancellation or restart, leaks it (notes.py _lock_for). *)
THEOREM LocksAreDisciplined == Spec => []LockDiscipline
  BY Invariance, PTL DEF IInv

(* The only bytes a replace, a patch, a move or a rename makes disappear from
   the notes filesystem are those its caller named by their ETag or those it
   put there itself, unless a device writes between its last check and its
   rename (notes.py:22-25). *)
THEOREM ChangesLoseNothing == Spec => NothingLostUnread
<1> DEFINE Loses(o) == Bytes \ Bytes' \subseteq {req[o].etag, draft[o]}
<1>1. ASSUME IInv, NEW o \in Ops, Step(o), ~disturbed[o], req[o].kind # "create" PROVE Loses(o)
  <2>1. CASE files' = files
    BY <2>1 DEF Bytes
  <2>2. CASE Overwrite(o)
    <3>1. files[at[o]] = req[o].etag /\ files' = [files EXCEPT ![at[o]] = draft[o]]
      BY <1>1, <2>2 DEF IInv, Sound, Works, Checked, Overwrite, Relocates, Critical, Writing
    <3> QED BY <3>1 DEF Bytes, IInv, TypeOK
  <2>3. CASE Link(o) /\ files' # files
    <3>1. /\ files[req[o].to] = None
          /\ files' = [files EXCEPT ![req[o].to] = IF req[o].kind = "move" THEN files[at[o]] ELSE draft[o]]
      BY <2>3 DEF Link, Refuse
    <3> QED BY <1>1, <3>1 DEF Bytes, IInv, TypeOK
  <2>4. CASE Unlink(o) \/ UndoLink(o)
    <3>1. /\ req[o].kind \in {"move", "rename"} /\ req[o].to # at[o] /\ at[o] \in Paths /\ req[o].to \in Paths
          /\ req[o].kind = "move" => files[req[o].to] = files[at[o]]
          /\ req[o].kind = "rename" => files[at[o]] = req[o].etag /\ files[req[o].to] = draft[o]
      BY <1>1, <2>4 DEF IInv, Sound, Asks, Works, Checked, Unlink, UndoLink, Found, Critical, Writing
    <3>2. \E p \in {at[o], req[o].to} : files' = [files EXCEPT ![p] = None]
      BY <2>4 DEF Unlink, UndoLink
    <3> QED BY <1>1, <3>1, <3>2 DEF Bytes, IInv, TypeOK
  <2>5. \/ files' = files \/ Overwrite(o) \/ Link(o) \/ Unlink(o) \/ UndoLink(o)
    BY <1>1 DEF Step, Progress, Failure, Advance, CreateSelect, CreateFile, CreateAgain, CreateRejected,
                Locate, Repair, LockAndCheck, UpdateRow, Recheck, Commit, CommitFails, Interrupted, Refuse,
                IInv, Sound, Asks, Creating, history
  <2> QED BY <2>1, <2>2, <2>3, <2>4, <2>5
<1>2. IInv => [\A o \in Ops : Step(o) /\ ~disturbed[o] /\ req[o].kind # "create" => Loses(o)]_vars
  BY <1>1
<1> QED BY <1>2, Invariance, PTL DEF NothingLostUnread

-----------------------------------------------------------------------------
(***************************************************************************)
(* What acknowledgements and rows say of the disk: what is about to be     *)
(* acknowledged is on disk, a committed row describes its file, no two of  *)
(* them share a path, and a note has one name.                             *)
(*                                                                         *)
(* None of this is inductive.  It rests on whose file lies where: a        *)
(* request's checked file carries its note's identity, so that no other    *)
(* note's request takes it away, unless a device has led one astray; and   *)
(* a file without identity is a device's, whoever takes it for a note's.   *)
(***************************************************************************)

(* The bytes f are note i's, or carry no identity and i is known to be misled. *)
Marked(f, i) == f.id = i \/ (f.id = NoId /\ i \in strayed /\ i \in doubled)

(* A create's identity is nobody else's: it has no row, no file until it writes
   one, and no other request until that file can be read. *)
Alone(o) ==
  pc[o] # "idle" /\ req[o].kind = "create" =>
    /\ rows[req[o].id] = None
    /\ pc[o] \in Creating => Names(req[o].id) = {}
    /\ pc[o] = "commit" => at[o] = req[o].to
    /\ \A u \in Ops \ {o} : pc[u] # "idle" /\ req[u].id = req[o].id => pc[o] = "commit" /\ pc[u] = "locate"

(* Only the notes a device has led astray have disturbed requests. *)
Traced(o) == /\ disturbed[o] => pc[o] # "idle" /\ req[o].id \in strayed
             /\ pc[o] = "idle" => at[o] = None

(* What a request names and leaves are its note's bytes. *)
Signed(o) ==
  /\ pc[o] # "idle" /\ req[o].etag # None => req[o].etag.id \in {req[o].id, NoId}
  /\ pc[o] \in Critical /\ req[o].kind # "create" /\ req[o].etag # None => Marked(req[o].etag, req[o].id)
  /\ pc[o] \in Writing => Marked(draft[o], req[o].id)
  /\ pc[o] = "recheck" => req[o].kind # "move"

Target(o) == IF Relocates(o) THEN req[o].to ELSE at[o]

(* What an undisturbed request has checked or written is on disk. *)
OnDisk(o) ==
  ~disturbed[o] =>
    /\ pc[o] = "update" => /\ files[at[o]] # None /\ Marked(files[at[o]], req[o].id)
                           /\ req[o].etag \in {None, files[at[o]]}
    /\ pc[o] \in {"write", "unlink"} => files[at[o]] = IF req[o].kind = "move" THEN draft[o] ELSE req[o].etag
    /\ pc[o] = "unlink" => files[req[o].to] = draft[o]
    /\ pc[o] = "commit" => files[Target(o)] = draft[o]

(* A file is replaced or renamed where its note is, even by a disturbed request. *)
Kept(o) == pc[o] = "write" /\ req[o].kind # "move" /\ req[o].id \notin doubled
             => files[at[o]] # None /\ files[at[o]].id = req[o].id

(* A request works where its note's row says, unless the note has strayed. *)
InPlace(o) == \/ pc[o] \in {"update", "recheck", "write", "unlink"}
              \/ pc[o] = "commit" /\ req[o].kind \in {"replace", "patch"}
Placed(o) == InPlace(o) /\ req[o].id \notin strayed => at[o] = rows[req[o].id].path

AtMostOne(S) == \A p, q \in S : p = q
Linking(i) == {o \in Ops : pc[o] = "unlink" /\ req[o].id = i}
Committing(i) == {o \in Ops : pc[o] = "commit" /\ req[o].id = i}

(* Between a link and its unlink, either name is the only one without the other. *)
Named(i) ==
  i \notin doubled =>
    /\ AtMostOne(Names(i)) \/ Linking(i) # {}
    /\ \A o \in Linking(i) : AtMostOne(Names(i) \ {at[o]}) /\ AtMostOne(Names(i) \ {req[o].to})

(* A row describes its file, which carries its identity, until the next commit. *)
Mirrored(i) ==
  i \notin strayed /\ rows[i] # None =>
    /\ rows[i].hash.id = i
    /\ files[rows[i].path] = rows[i].hash \/ Committing(i) # {}

Own(o) == Traced(o) /\ Signed(o) /\ OnDisk(o) /\ Kept(o) /\ Placed(o)

JInv == /\ doubled \subseteq strayed
        /\ \A o \in Ops : Alone(o) /\ Own(o)
        /\ \A i \in Ids : Named(i) /\ Mirrored(i)

-----------------------------------------------------------------------------
(* Who is at work on what. *)

LEMMA Known ==
  ASSUME IInv, NEW o \in Ops, pc[o] # "idle"
  PROVE  req[o] # None /\ req[o] \in Request /\ req[o].id \in Ids
  BY DEF IInv, TypeOK, Sound, Asks, Request

(* Past the check, a note is one request's. *)
LEMMA Exclusive ==
  ASSUME IInv, JInv, NEW o \in Ops, NEW u \in Ops \ {o}, pc[o] \in Critical, pc[u] \in Critical
  PROVE  req[o].id # req[u].id
<1>1. /\ pc[o] \notin {"idle", "locate"} /\ pc[u] \notin {"idle", "locate"}
      /\ req[o].id \in Ids /\ req[u].id \in Ids
  BY Known DEF Critical, Writing
<1>2. CASE req[o].kind = "create" \/ req[u].kind = "create"
  BY <1>1, <1>2 DEF JInv, Alone
<1>3. CASE req[o].kind # "create" /\ req[u].kind # "create"
  BY <1>1, <1>3 DEF IInv, LockDiscipline, Holds
<1> QED BY <1>2, <1>3

Grows == strayed \subseteq strayed' /\ doubled \subseteq doubled'

(* A step of o that changes neither files nor rows. *)
LEMMA QuietOthers ==
  ASSUME IInv, JInv, NEW o \in Ops, Others(o), UNCHANGED <<files, rows>>, Grows,
         \A u \in Ops \ {o} : disturbed'[u] = disturbed[u]
  PROVE  \A u \in Ops \ {o} : Own(u)'
<1> SUFFICES ASSUME NEW u \in Ops \ {o} PROVE Own(u)'
  OBVIOUS
<1>1. Own(u) /\ pc'[u] = pc[u] /\ req'[u] = req[u] /\ at'[u] = at[u] /\ draft'[u] = draft[u]
      /\ disturbed'[u] = disturbed[u]
  BY DEF JInv, Others
<1>2. \A f, i : Marked(f, i) => Marked(f, i)'
  BY DEF Marked, Grows
<1>3. Traced(u)'
  BY <1>1 DEF Own, Traced, Grows
<1>4. Signed(u)'
  BY <1>1, <1>2 DEF Own, Signed
<1>5. OnDisk(u)'
  BY <1>1, <1>2 DEF Own, OnDisk, Target, Relocates
<1>6. Kept(u)' /\ Placed(u)'
  BY <1>1 DEF Own, Kept, Placed, InPlace, Grows
<1> QED BY <1>3, <1>4, <1>5, <1>6 DEF Own

LEMMA QuietNotes ==
  ASSUME IInv, JInv, NEW o \in Ops, Others(o), UNCHANGED <<files, rows>>, Grows,
         pc[o] \notin {"unlink", "commit"}, pc'[o] # "unlink"
  PROVE  \A i \in Ids : Named(i)' /\ Mirrored(i)'
<1> SUFFICES ASSUME NEW i \in Ids PROVE Named(i)' /\ Mirrored(i)'
  OBVIOUS
<1>1. Linking(i)' = Linking(i) /\ Committing(i) \subseteq Committing(i)'
      /\ \A u \in Linking(i) : at'[u] = at[u] /\ req'[u] = req[u]
  BY DEF Linking, Committing, Others
<1>2. Names(i)' = Names(i)
  BY DEF Names
<1>3. Named(i)'
  BY <1>1, <1>2 DEF JInv, Named, Grows, AtMostOne
<1>4. Mirrored(i)'
  BY <1>1 DEF JInv, Mirrored, Grows
<1> QED BY <1>3, <1>4

(* A step of o that changes the file at p: there was none, or it was o's note's,
   or o is misled and whoever is at p is told. *)
Takes(o, p) ==
  \/ files[p] = None
  \/ ~Doubtful(o) /\ files[p].id = req[o].id /\ pc[o] \in Critical
  \/ Doubtful(o) /\ (\A u \in Ops \ {o} : Near(u, {p}) => disturbed'[u]) /\ Claimed({p}) \subseteq strayed'

LEMMA TouchOthers ==
  ASSUME IInv, JInv, NEW o \in Ops, Turn(o), Others(o), UNCHANGED rows, Grows,
         NEW p \in Paths, \A q \in Paths \ {p} : files'[q] = files[q], Takes(o, p), pc[o] # "idle",
         \A u \in Ops \ {o} : disturbed'[u] \in {disturbed[u], Near(u, {p})},
         \A u \in Ops \ {o} : disturbed[u] => disturbed'[u],
         \A u \in Ops \ {o} : disturbed'[u] => disturbed[u] \/ Claimed({p}) \subseteq strayed'
  PROVE  \A u \in Ops \ {o} : Own(u)'
<1> SUFFICES ASSUME NEW u \in Ops \ {o} PROVE Own(u)'
  OBVIOUS
<1>1. Own(u) /\ pc'[u] = pc[u] /\ req'[u] = req[u] /\ at'[u] = at[u] /\ draft'[u] = draft[u]
      /\ (disturbed[u] => disturbed'[u]) /\ ~InOneGo(u)
  BY DEF JInv, Others, Turn
<1>2. \A f, i : Marked(f, i) => Marked(f, i)'
  BY DEF Marked, Grows
<1>3. Traced(u)'
  <2>1. CASE disturbed[u] \/ ~disturbed'[u]
    BY <1>1, <2>1 DEF Own, Traced, Grows
  <2>2. CASE ~disturbed[u] /\ disturbed'[u]
    <3>1. Near(u, {p}) /\ Claimed({p}) \subseteq strayed'
      BY <2>2
    <3>2. pc[u] # "idle"
      BY <1>1, <3>1 DEF Own, Traced, Near
    <3>3. req[u] # None /\ req[u].id \in Ids
      BY <3>2, Known
    <3>4. req[u].id \in Claimed({p})
      BY <3>1, <3>3 DEF Near, Claimed, Claims
    <3> QED BY <1>1, <3>1, <3>2, <3>4 DEF Traced
  <2> QED BY <2>1, <2>2
<1>4. Signed(u)'
  BY <1>1, <1>2 DEF Own, Signed
<1>5. OnDisk(u)'
  <2> SUFFICES ASSUME ~disturbed'[u], pc[u] \in {"update", "write", "unlink", "commit"} PROVE OnDisk(u)'
    BY <1>1 DEF OnDisk
  <2>1. /\ pc[u] \in Critical /\ at[u] \in Paths /\ draft[u] \in File \cup {None}
        /\ req[u].id \in Ids
        /\ pc[u] = "unlink" => req[u].to \in Paths
        /\ pc[u] \in Writing => draft[u] \in File
        /\ req[u].kind # "create" /\ req[u].kind # "move" => req[u].etag \in File
        /\ pc[u] = "commit" => Target(u) \in Paths
    BY Known DEF IInv, TypeOK, Sound, Asks, Works, Found, Critical, Writing, Target, Relocates, Request
  <2>2. ~disturbed[u] /\ OnDisk(u) /\ Signed(u)
    BY <1>1 DEF Own
  <2>3. ASSUME NEW q \in {at[u], req[u].to}, files[q] # None, files[q] \in File,
               Marked(files[q], req[u].id), q = p
        PROVE  FALSE
    <3>1. CASE Doubtful(o)
      BY <2>1, <2>3, <3>1 DEF Takes, Near
    <3>2. CASE ~Doubtful(o)
      <4>1. files[p].id = req[o].id /\ pc[o] \in Critical /\ req[o].id \notin strayed
        BY <2>3, <3>2 DEF Takes, Doubtful
      <4>2. req[o].id \in Ids
        BY Known
      <4>3. req[o].id = req[u].id
        BY <2>3, <4>1, <4>2 DEF Marked
      <4> QED BY <2>1, <4>1, <4>3, Exclusive
    <3> QED BY <3>1, <3>2
  <2>4. CASE pc[u] = "update"
    <3>1. req[u].kind # "create"
      BY <2>4 DEF IInv, Sound, Asks, Changing, Critical
    <3>2. files[at[u]] # None /\ files[at[u]] \in File /\ Marked(files[at[u]], req[u].id)
      BY <2>1, <2>2, <2>4 DEF OnDisk, IInv, TypeOK
    <3>3. files'[at[u]] = files[at[u]]
      BY <2>1, <2>3, <3>2
    <3> QED BY <1>1, <1>2, <2>2, <2>4, <3>3 DEF OnDisk
  <2>5. CASE pc[u] \in {"write", "unlink"}
    <3>1. req[u].kind # "create" /\ pc[u] = "unlink" => req[u].kind \in {"move", "rename"}
      BY <2>5 DEF IInv, Sound, Asks, Works, Changing
    <3>2. files[at[u]] # None /\ files[at[u]] \in File /\ Marked(files[at[u]], req[u].id)
      BY <2>1, <2>2, <2>5, <3>1 DEF OnDisk, Signed, Critical, Writing, IInv, Sound, Asks, Changing
    <3>3. files'[at[u]] = files[at[u]]
      BY <2>1, <2>3, <3>2
    <3>4. pc[u] = "unlink" => files'[req[u].to] = files[req[u].to]
      BY <2>1, <2>2, <2>3 DEF OnDisk, Signed, Writing
    <3> QED BY <1>1, <2>2, <2>5, <3>3, <3>4 DEF OnDisk
  <2>6. CASE pc[u] = "commit"
    <3>1. files[Target(u)] # None /\ files[Target(u)] \in File /\ Marked(files[Target(u)], req[u].id)
      BY <2>1, <2>2, <2>6 DEF OnDisk, Signed, Writing
    <3>2. Target(u) \in {at[u], req[u].to} /\ Target(u)' = Target(u)
      BY <1>1 DEF Target, Relocates
    <3>3. files'[Target(u)] = files[Target(u)]
      BY <2>1, <2>3, <2>6, <3>1, <3>2
    <3> QED BY <1>1, <2>2, <2>6, <3>2, <3>3 DEF OnDisk
  <2> QED BY <2>4, <2>5, <2>6
<1>6. Kept(u)'
  BY <1>1 DEF Kept, InOneGo
<1>7. Placed(u)'
  BY <1>1 DEF Own, Placed, InPlace, Grows
<1> QED BY <1>3, <1>4, <1>5, <1>6, <1>7 DEF Own

LEMMA TouchNotes ==
  ASSUME IInv, JInv, NEW o \in Ops, Others(o), UNCHANGED rows, Grows,
         NEW p \in Paths, \A q \in Paths \ {p} : files'[q] = files[q], Takes(o, p), pc[o] # "idle",
         req'[o] = req[o] \/ pc'[o] = "idle",
         \A i \in Ids \ {req[o].id} : files'[p] # None /\ files'[p].id = i => i \in doubled'
  PROVE  \A i \in Ids \ {req[o].id} : Named(i)' /\ Mirrored(i)'
<1> SUFFICES ASSUME NEW i \in Ids \ {req[o].id} PROVE Named(i)' /\ Mirrored(i)'
  OBVIOUS
<1>1. Linking(i) \subseteq Ops \ {o} /\ Linking(i)' \subseteq Linking(i) \cup {o}
      /\ Committing(i) \ {o} \subseteq Committing(i)' /\ o \notin Committing(i)
      /\ \A u \in Ops \ {o} : at'[u] = at[u] /\ req'[u] = req[u]
  BY DEF Linking, Committing, Others
<1>2. Linking(i)' \ {o} = Linking(i)
  BY <1>1 DEF Linking, Others
<1>3. i \notin doubled' => Names(i)' \subseteq Names(i)
  BY DEF Names
<1>4. o \notin Linking(i)'
  BY DEF Linking
<1>5. Mirrored(i)'
  <2> SUFFICES ASSUME i \notin strayed', rows'[i] # None
               PROVE  rows'[i].hash.id = i /\ (files'[rows'[i].path] = rows'[i].hash \/ Committing(i)' # {})
    BY DEF Mirrored
  <2>3. CASE Committing(i)' # {}
    BY <2>3 DEF JInv, Mirrored, Grows
  <2>4. CASE Committing(i)' = {}
    <3>1. /\ rows[i].hash.id = i /\ files[rows[i].path] = rows[i].hash
          /\ rows[i].path \in Paths /\ rows[i].hash \in File
      BY <1>1, <2>4 DEF JInv, Mirrored, Grows, IInv, TypeOK, Row
    <3>2. ASSUME rows[i].path = p PROVE FALSE
      <4>1. i \in Claimed({p})
        BY <3>1, <3>2 DEF Claimed, Claims
      <4> QED BY <3>1, <3>2, <4>1 DEF Takes
    <3> QED BY <3>1, <3>2
  <2> QED BY <2>3, <2>4
<1>6. Named(i)'
  BY <1>1, <1>2, <1>3, <1>4 DEF JInv, Named, Grows, AtMostOne
<1> QED BY <1>5, <1>6

(* A step of o leaves the identities of the creates under way alone. *)
LEMMA AloneOthers ==
  ASSUME IInv, JInv, NEW o \in Ops, Others(o),
         \A p \in Paths : \/ files'[p] \in {None} \cup {files[q] : q \in Paths}
                         \/ files'[p].id \in {req[o].id, NoId},
         rows' = rows \/ (pc[o] # "locate" /\ \A i \in Ids \ {req[o].id} : rows'[i] = rows[i]),
         pc[o] # "idle",
         \/ pc'[o] = "idle"
         \/ req'[o].id = req[o].id /\ (pc[o] # "locate" \/ pc'[o] = "locate")
  PROVE  \A u \in Ops \ {o} : Alone(u)'
<1> SUFFICES ASSUME NEW u \in Ops \ {o}, pc[u] # "idle", req[u].kind = "create" PROVE Alone(u)'
  BY DEF Others, Alone
<1>1. Alone(u) /\ pc'[u] = pc[u] /\ req'[u] = req[u] /\ at'[u] = at[u]
  BY DEF JInv, Others
<1>2. req[u].id \in Ids /\ req[o].id \in Ids
  BY Known
<1>3. rows'[req[u].id] = None
  BY <1>1, <1>2 DEF Alone
<1>4. pc[u] \in Creating => Names(req[u].id)' = {}
  BY <1>1, <1>2 DEF Alone, Names, Creating
<1>5. ASSUME NEW v \in Ops \ {u}, pc'[v] # "idle", req'[v].id = req[u].id
      PROVE  pc[u] = "commit" /\ pc'[v] = "locate"
  BY <1>1, <1>5 DEF Alone, Others
<1> QED BY <1>1, <1>3, <1>4, <1>5 DEF Alone

-----------------------------------------------------------------------------
(* What is left to show of a step of o. *)

LEMMA QuietStep ==
  ASSUME IInv, JInv, NEW o \in Ops, Others(o), UNCHANGED <<files, rows>>,
         Grows, doubled' \subseteq strayed', \A u \in Ops \ {o} : disturbed'[u] = disturbed[u],
         pc[o] \notin {"idle", "unlink", "commit"}, pc'[o] # "unlink",
         pc'[o] = "idle" \/ (req'[o].id = req[o].id /\ pc[o] # "locate") \/ rows[req[o].id] # None,
         pc'[o] # "idle" => req'[o].id = req[o].id,
         Alone(o)', Own(o)'
  PROVE  JInv'
<1>1. \A u \in Ops \ {o} : Own(u)'
  BY QuietOthers
<1>2. \A i \in Ids : Named(i)' /\ Mirrored(i)'
  BY QuietNotes
<1>3. \A u \in Ops \ {o} : Alone(u)'
  <2>1. CASE pc'[o] = "idle" \/ (req'[o].id = req[o].id /\ pc[o] # "locate")
    BY <2>1, AloneOthers
  <2>2. CASE req'[o].id = req[o].id /\ rows[req[o].id] # None
    <3> SUFFICES ASSUME NEW u \in Ops \ {o}, pc[u] # "idle", req[u].kind = "create" PROVE Alone(u)'
      BY DEF Others, Alone
    <3>1. Alone(u) /\ pc'[u] = pc[u] /\ req'[u] = req[u] /\ at'[u] = at[u]
      BY DEF JInv, Others
    <3>2. req[u].id # req[o].id
      BY <2>2, <3>1 DEF Alone
    <3>3. Names(req[u].id)' = Names(req[u].id)
      BY <3>1 DEF Names
    <3> QED BY <2>2, <3>1, <3>2, <3>3 DEF Alone, Others
  <2> QED BY <2>1, <2>2
<1> QED BY <1>1, <1>2, <1>3 DEF JInv

(* A request that has ended promises nothing. *)
LEMMA Done ==
  ASSUME NEW o \in Ops, pc'[o] = "idle", at'[o] = None, ~disturbed'[o]
  PROVE  Alone(o)' /\ Own(o)'
  BY DEF Alone, Own, Traced, Signed, OnDisk, Kept, Placed, InPlace, Critical, Writing

LEMMA AnswerMirrors ==
  ASSUME IInv, JInv, NEW o \in Ops, Answer(o), UNCHANGED <<files, rows, strayed, doubled>>,
         pc[o] \notin {"idle", "unlink", "commit"}
  PROVE  JInv'
<1>1. Others(o) /\ pc'[o] = "idle" /\ at'[o] = None
  BY DEF IInv, TypeOK, Answer, Forget, Others
<1>2. ~disturbed'[o] /\ \A u \in Ops \ {o} : disturbed'[u] = disturbed[u]
  BY DEF IInv, TypeOK, Answer
<1>3. Alone(o)' /\ Own(o)'
  BY <1>1, <1>2, Done
<1> QED BY <1>1, <1>2, <1>3, QuietStep DEF Grows, JInv

LEMMA RefuseMirrors ==
  ASSUME IInv, JInv, NEW o \in Ops, Refuse(o), pc[o] \notin {"idle", "unlink", "commit"}
  PROVE  JInv'
  BY AnswerMirrors DEF Refuse

LEMMA TouchStep ==
  ASSUME IInv, JInv, NEW o \in Ops, Turn(o), Others(o), UNCHANGED rows,
         Grows, doubled' \subseteq strayed',
         NEW p \in Paths, \A q \in Paths \ {p} : files'[q] = files[q], Takes(o, p),
         \/ files'[p] \in {None} \cup {files[q] : q \in Paths}
         \/ files'[p].id \in {req[o].id, NoId},
         \A u \in Ops \ {o} : disturbed'[u] \in {disturbed[u], Near(u, {p})},
         \A u \in Ops \ {o} : disturbed[u] => disturbed'[u],
         \A u \in Ops \ {o} : disturbed'[u] => disturbed[u] \/ Claimed({p}) \subseteq strayed',
         pc[o] \notin {"idle", "locate"}, req'[o] = req[o] \/ pc'[o] = "idle",
         \A i \in Ids \ {req[o].id} : files'[p] # None /\ files'[p].id = i => i \in doubled',
         Alone(o)', Own(o)', \A i \in {req[o].id} : Named(i)' /\ Mirrored(i)'
  PROVE  JInv'
<1>1. \A u \in Ops \ {o} : Own(u)'
  BY TouchOthers
<1>2. \A i \in Ids \ {req[o].id} : Named(i)' /\ Mirrored(i)'
  BY TouchNotes
<1>3. \A u \in Ops \ {o} : Alone(u)'
  <2>1. \A q \in Paths : \/ files'[q] \in {None} \cup {files[r] : r \in Paths}
                        \/ files'[q].id \in {req[o].id, NoId}
    OBVIOUS
  <2>2. pc'[o] = "idle" \/ (req'[o].id = req[o].id /\ (pc[o] # "locate" \/ pc'[o] = "locate"))
    OBVIOUS
  <2>3. rows' = rows \/ (pc[o] # "locate" /\ \A i \in Ids \ {req[o].id} : rows'[i] = rows[i])
    OBVIOUS
  <2> QED BY <2>1, <2>2, <2>3, AloneOthers
<1> QED BY <1>1, <1>2, <1>3 DEF JInv

-----------------------------------------------------------------------------
LEMMA AskMirrors ==
  ASSUME IInv, JInv, NEW o \in Ops, AskCreate(o) \/ AskChange(o)
  PROVE  JInv'
<1>1. Others(o) /\ UNCHANGED <<files, rows, at, draft, disturbed, strayed, doubled>> /\ pc[o] = "idle"
      /\ pc'[o] \in {"select", "locate"}
  BY DEF IInv, TypeOK, AskCreate, AskChange, Goto, Others, history
<1>2. \A u \in Ops \ {o} : Own(u)'
  BY <1>1, QuietOthers DEF Grows
<1>3. \A i \in Ids : Named(i)' /\ Mirrored(i)'
  BY <1>1, QuietNotes DEF Grows
<1>4. at[o] = None /\ ~disturbed[o]
  BY <1>1 DEF JInv, Own, Traced
<1>5. CASE AskCreate(o)
  <2>1. PICK i \in Ids, p \in Paths :
          /\ rows[i] = None /\ Names(i) = {} /\ \A u \in Ops : req[u] # None => req[u].id # i
          /\ req' = [req EXCEPT ![o] = [kind |-> "create", id |-> i, etag |-> None,
                                        to |-> p, tries |-> 1]]
    BY <1>5 DEF AskCreate
  <2>2. req'[o].kind = "create" /\ req'[o].id = i /\ req'[o].etag = None /\ pc'[o] = "select"
    BY <1>5, <2>1 DEF IInv, TypeOK, AskCreate, Goto
  <2>3. \A u \in Ops \ {o} : pc[u] # "idle" => req[u].id # i
    BY <2>1 DEF IInv, Sound, Asks
  <2>4. Alone(o)'
    BY <1>1, <2>1, <2>2, <2>3 DEF Alone, Names, Others
  <2>5. Own(o)'
    BY <1>1, <1>4, <2>2 DEF Own, Traced, Signed, OnDisk, Kept, Placed, InPlace, Critical, Writing
  <2>6. \A u \in Ops \ {o} : Alone(u)'
    <3> SUFFICES ASSUME NEW u \in Ops \ {o}, pc[u] # "idle", req[u].kind = "create" PROVE Alone(u)'
      BY <1>1 DEF Others, Alone
    <3>1. Alone(u) /\ pc'[u] = pc[u] /\ req'[u] = req[u] /\ at'[u] = at[u] /\ req[u].id # i
      BY <1>1, <2>3 DEF JInv, Others
    <3>2. Names(req[u].id)' = Names(req[u].id)
      BY <1>1, <3>1 DEF Names
    <3> QED BY <1>1, <2>2, <3>1, <3>2 DEF Alone, Others
  <2> QED BY <1>1, <1>2, <1>3, <2>4, <2>5, <2>6 DEF JInv
<1>6. CASE AskChange(o)
  <2>1. PICK i \in Ids, kind \in Kinds, p \in Paths, to \in Paths \cup {None},
             etag \in File \cup {None} :
          /\ etag \in {files[p], None}
          /\ p \in Names(i) \/ (Live(i) /\ p = rows[i].path /\ Matches(p, i, None))
          /\ req' = [req EXCEPT ![o] = [kind |-> kind, id |-> i, etag |-> etag,
                                        to |-> to, tries |-> 1]]
    BY ZenonT(60), <1>6 DEF AskChange, IInv, TypeOK
  <2>2. /\ req'[o].kind = kind /\ req'[o].id = i /\ req'[o].etag = etag /\ pc'[o] = "locate"
        /\ kind # "create"
    BY <1>6, <2>1 DEF IInv, TypeOK, AskChange, Goto
  <2>3. files[p] # None /\ files[p].id \in {i, NoId}
    BY <2>1 DEF Names, Matches
  <2>4. Alone(o)' /\ Own(o)'
    <3>1. Alone(o)' /\ Traced(o)' /\ OnDisk(o)' /\ Kept(o)' /\ Placed(o)'
      BY <1>1, <1>4, <2>2 DEF Alone, Traced, OnDisk, Kept, Placed, InPlace
    <3>2. Signed(o)'
      BY <2>1, <2>2, <2>3 DEF Signed, Critical, Writing
    <3> QED BY <3>1, <3>2 DEF Own
  <2>6. \A u \in Ops \ {o} : Alone(u)'
    <3> SUFFICES ASSUME NEW u \in Ops \ {o}, pc[u] # "idle", req[u].kind = "create" PROVE Alone(u)'
      BY <1>1 DEF Others, Alone
    <3>1. Alone(u) /\ pc'[u] = pc[u] /\ req'[u] = req[u] /\ at'[u] = at[u]
      BY <1>1 DEF JInv, Others
    <3>2. Names(req[u].id)' = Names(req[u].id)
      BY <1>1, <3>1 DEF Names
    <3>3. req[u].id = i => pc[u] = "commit"
      BY <2>1, <3>1 DEF Alone, Live, IInv, Sound, Asks, Changing, Creating, TypeOK, Writing
    <3> QED BY <1>1, <2>2, <3>1, <3>2, <3>3 DEF Alone, Others
  <2> QED BY <1>1, <1>2, <1>3, <2>4, <2>6 DEF JInv
<1> QED BY <1>5, <1>6

(* A create's steps: its name is free, and nobody knows its identity yet. *)
LEMMA CreateMirrors ==
  ASSUME IInv, JInv, NEW o \in Ops, Turn(o), CreateSelect(o) \/ CreateFile(o) \/ CreateAgain(o)
  PROVE  JInv'
<1>1. /\ pc[o] \in Creating /\ req[o] \in Request /\ req[o].kind = "create"
      /\ req[o].id \in Ids /\ req[o].to \in Paths /\ Alone(o) /\ Own(o)
  BY Known DEF IInv, Sound, Asks, CreateSelect, CreateFile, CreateAgain, Creating, JInv
<1>2. CASE Refuse(o)
  BY <1>1, <1>2, RefuseMirrors DEF Creating
<1>3. CASE ~Refuse(o) /\ (CreateSelect(o) \/ CreateAgain(o))
  <2>1. /\ UNCHANGED <<files, rows, at, draft, history>> /\ pc'[o] \in Creating
        /\ req'[o].kind = "create" /\ req'[o].id = req[o].id /\ req'[o].etag = req[o].etag
        /\ Others(o)
    <3>1. CASE CreateSelect(o)
      BY <1>1, <1>3, <3>1 DEF IInv, TypeOK, CreateSelect, Goto, Others, Creating
    <3>2. CASE CreateAgain(o)
      <4>1. PICK q \in Paths : req' = [req EXCEPT ![o].to = q, ![o].tries = @ + 1]
        BY <1>3, <3>2 DEF CreateAgain
      <4>2. req'[o].kind = "create" /\ req'[o].id = req[o].id /\ req'[o].etag = req[o].etag
        BY <1>1, <4>1 DEF IInv, TypeOK, Request
      <4> QED BY <1>1, <1>3, <3>2, <4>1, <4>2 DEF IInv, TypeOK, CreateAgain, Goto, Others, Creating
    <3> QED BY <1>3, <3>1, <3>2
  <2>2. Alone(o)'
    BY <1>1, <2>1 DEF Alone, Names, Others, Creating
  <2>3. Own(o)'
    BY <1>1, <2>1 DEF Own, Traced, Signed, OnDisk, Kept, Placed, InPlace, Critical, Writing, Creating,
                      history
  <2> QED BY <1>1, <2>1, <2>2, <2>3, QuietStep DEF Creating, Grows, JInv, history
<1>4. CASE CreateFile(o)
  <2> DEFINE p == req[o].to
  <2>1. PICK f \in Fresh(req[o].id) : files' = [files EXCEPT ![p] = f] /\ draft' = [draft EXCEPT ![o] = f]
    BY <1>4 DEF CreateFile
  <2>2. f \in File /\ f.id = req[o].id
    BY <1>1, FreshIsAFile DEF Fresh
  <2>3. /\ files[p] = None /\ files'[p] = f /\ \A q \in Paths \ {p} : files'[q] = files[q]
        /\ draft'[o] = f /\ at'[o] = p /\ pc'[o] = "commit" /\ UNCHANGED <<rows, req, history>>
        /\ pc[o] = "create" /\ Others(o)
    BY <1>1, <1>4, <2>1 DEF IInv, TypeOK, CreateFile, Goto, Others
  <2>4. Alone(o)'
    BY <1>1, <2>3 DEF Alone, Others, Creating
  <2>5. Own(o)'
    BY <1>1, <2>2, <2>3 DEF Own, Traced, Signed, OnDisk, Kept, Placed, InPlace, Critical, Writing, Target,
                            Relocates, Marked, history
  <2>6. ASSUME NEW i \in {req[o].id} PROVE Named(i)' /\ Mirrored(i)'
    <3>1. Names(i)' \subseteq {p}
      BY <1>1, <2>1, <2>3 DEF Alone, Names, Creating
    <3>2. Linking(i)' = {}
      BY <1>1, <2>3 DEF Linking, Others, Alone
    <3> QED BY <1>1, <2>3, <3>1, <3>2 DEF Named, Mirrored, AtMostOne, Alone
  <2>7. f.id \in Ids /\ \A i \in Ids \ {req[o].id} : ~(files'[p] # None /\ files'[p].id = i)
    BY <1>1, <2>2, <2>3
  <2>8. \A u \in Ops \ {o} : disturbed'[u] = disturbed[u]
    BY <2>3 DEF history
  <2>9. Grows /\ doubled' \subseteq strayed'
    BY <2>3 DEF history, Grows, JInv
  <2>10. /\ Takes(o, p) /\ files'[p].id \in {req[o].id, NoId}
         /\ \A i \in Ids \ {req[o].id} : files'[p] # None /\ files'[p].id = i => i \in doubled'
    BY <2>2, <2>3, <2>7 DEF Takes
  <2>11. /\ \A u \in Ops \ {o} : disturbed'[u] \in {disturbed[u], Near(u, {p})}
         /\ \A u \in Ops \ {o} : disturbed[u] => disturbed'[u]
         /\ \A u \in Ops \ {o} : disturbed'[u] => disturbed[u] \/ Claimed({p}) \subseteq strayed'
    BY <2>8
  <2>12. /\ p \in Paths /\ \A q \in Paths \ {p} : files'[q] = files[q]
         /\ pc[o] \notin {"idle", "locate"} /\ req'[o] = req[o] /\ UNCHANGED rows /\ Others(o)
    BY <1>1, <2>3
  <2> HIDE DEF p
  <2> QED BY <2>4, <2>5, <2>6, <2>9, <2>10, <2>11, <2>12, TouchStep
<1> QED BY <1>2, <1>3, <1>4

(* A change's first steps, up to its lock. *)
LEMMA LocateMirrors ==
  ASSUME IInv, JInv, NEW o \in Ops, Locate(o)
  PROVE  JInv'
<1> DEFINE i == req[o].id
           Goes == \E p \in Paths : /\ at' = [at EXCEPT ![o] = p]
                                  /\ pc'[o] \in {"repair", "lock"} /\ pc' = [pc EXCEPT ![o] = pc'[o]]
                                  /\ UNCHANGED <<files, rows, req, draft, history>>
<1>1. /\ pc[o] = "locate" /\ req[o].kind \in Change /\ i \in Ids /\ Own(o)
      /\ Live(i) => rows[i] # None /\ rows[i].path \in Paths
  BY Known DEF IInv, TypeOK, Locate, Sound, Asks, Changing, Live, JInv, Row
<1>2. \/ Refuse(o)
      \/ Answer(o) /\ UNCHANGED <<files, rows, strayed, doubled>>
      \/ Goes /\ Live(i)
  BY <1>1 DEF Locate, Goto, IInv, TypeOK, Names
<1>3. CASE Refuse(o) \/ (Answer(o) /\ UNCHANGED <<files, rows, strayed, doubled>>)
  BY <1>1, <1>3, AnswerMirrors, RefuseMirrors
<1>4. CASE Goes /\ Live(i)
  <2>1. Others(o)
    BY <1>4 DEF IInv, TypeOK, Others
  <2>2. Alone(o)'
    BY <1>1, <1>4 DEF Alone
  <2>3. Own(o)'
    BY <1>1, <1>4 DEF Own, Traced, Signed, OnDisk, Kept, Placed, InPlace, Critical, Writing, history
  <2> QED BY <1>1, <1>4, <2>1, <2>2, <2>3, QuietStep DEF Grows, JInv, history
<1> QED BY <1>2, <1>3, <1>4

LEMMA RepairMirrors ==
  ASSUME IInv, JInv, NEW o \in Ops, Repair(o)
  PROVE  JInv'
<1> DEFINE i == req[o].id
<1>1. /\ pc[o] = "repair" /\ req[o].kind \in Change /\ i \in Ids /\ Own(o)
  BY Known DEF IInv, Repair, Sound, Asks, Changing, JInv
<1>2. /\ UNCHANGED <<files, req, at, draft, disturbed, doubled>> /\ Others(o) /\ pc'[o] = "lock"
      /\ \A j \in Ids \ {i} : rows'[j] = rows[j]
      /\ rows' = rows \/ i \in strayed'
      /\ strayed \subseteq strayed' /\ strayed' \subseteq strayed \cup {i}
  BY <1>1 DEF IInv, TypeOK, Repair, Goto, Others
<1>3. Alone(o)'
  BY <1>1, <1>2 DEF Alone
<1>4. Own(o)'
  BY <1>1, <1>2 DEF Own, Traced, Signed, OnDisk, Kept, Placed, InPlace, Critical, Writing
<1>5. ASSUME NEW u \in Ops \ {o} PROVE Own(u)'
  <2>1. Own(u) /\ pc'[u] = pc[u]
    BY <1>2 DEF JInv, Others
  <2>2. \A f, j : Marked(f, j) => Marked(f, j)'
    BY <1>2 DEF Marked
  <2>3. Placed(u)'
    <3> SUFFICES ASSUME InPlace(u), req[u].id \notin strayed' PROVE at[u] = rows'[req[u].id].path
      BY <1>2, <2>1 DEF Placed, InPlace
    <3>1. at[u] = rows[req[u].id].path /\ req[u].id \in Ids
      BY <1>2, <2>1, Known DEF Own, Placed, InPlace
    <3> QED BY <1>2, <3>1
  <2> QED BY <1>2, <2>1, <2>2, <2>3 DEF Own, Traced, Signed, OnDisk, Kept, Target, Relocates
<1>6. \A u \in Ops \ {o} : Alone(u)'
  BY <1>1, <1>2, AloneOthers
<1>7. ASSUME NEW j \in Ids PROVE Named(j)' /\ Mirrored(j)'
  <2>1. Linking(j)' = Linking(j) /\ Committing(j)' = Committing(j) /\ Names(j)' = Names(j)
    BY <1>1, <1>2 DEF Linking, Committing, Names, Others
  <2> QED BY <1>2, <2>1 DEF JInv, Named, Mirrored, AtMostOne
<1> QED BY <1>2, <1>3, <1>4, <1>5, <1>6, <1>7 DEF JInv

(* A change that gets its lock found its note's one file where the row says. *)
LEMMA LockMirrors ==
  ASSUME IInv, JInv, NEW o \in Ops, LockAndCheck(o)
  PROVE  JInv'
<1> DEFINE i == req[o].id
<1>1. /\ pc[o] = "lock" /\ req[o].kind \in Change /\ i \in Ids /\ Own(o) /\ lock[i] = None
      /\ at[o] \in Paths /\ rows[i] # None /\ rows[i].path \in Paths /\ rows[i].hash \in File
  BY Known DEF IInv, TypeOK, LockAndCheck, Sound, Asks, Works, Changing, Found, JInv, Row
<1>2. CASE Refuse(o)
  BY <1>1, <1>2, RefuseMirrors
<1>3. CASE ~Refuse(o)
  <2>1. /\ Matches(at[o], i, req[o].etag) /\ pc'[o] = "update" /\ ~disturbed'[o]
        /\ strayed' = strayed \cup Anonymous(o) /\ doubled' = doubled \cup Anonymous(o)
        /\ UNCHANGED <<files, rows, req, at, draft>> /\ Others(o)
        /\ \A u \in Ops \ {o} : disturbed'[u] = disturbed[u]
    BY <1>1, <1>3 DEF IInv, TypeOK, LockAndCheck, Goto, Others
  <2>2. Alone(o)'
    BY <1>1, <2>1 DEF Alone
  <2>3. files[at[o]] # None /\ Marked(files[at[o]], i)' /\ req[o].etag \in {None, files[at[o]]}
    BY <1>1, <2>1 DEF Matches, Marked, Anonymous
  <2>4. Placed(o)'
    <3> SUFFICES ASSUME i \notin strayed' PROVE at[o] = rows[i].path
      BY <2>1 DEF Placed
    <3>1. i \notin strayed /\ i \notin doubled
      BY <2>1 DEF JInv
    <3>2. Committing(i) = {} /\ Linking(i) = {}
      <4>1. ASSUME NEW u \in Ops, pc[u] \in {"commit", "unlink"}, req[u].id = i PROVE FALSE
        <5>1. req[u].kind # "create"
          BY <1>1, <4>1 DEF JInv, Alone
        <5> QED BY <1>1, <4>1, <5>1 DEF IInv, LockDiscipline, Holds, Critical, Writing
      <4> QED BY <4>1 DEF Committing, Linking
    <3>3. rows[i].hash.id = i /\ files[rows[i].path] = rows[i].hash
      BY <1>1, <3>1, <3>2 DEF JInv, Mirrored
    <3>4. rows[i].path \in Names(i)
      BY <1>1, <3>3 DEF Names
    <3>5. at[o] \in Names(i)
      BY <1>1, <2>1, <2>3, <3>1 DEF Names, Marked
    <3> QED BY <1>1, <3>1, <3>2, <3>4, <3>5 DEF JInv, Named, AtMostOne
  <2>5. Traced(o)' /\ OnDisk(o)' /\ Kept(o)'
    BY <2>1, <2>3 DEF Traced, OnDisk, Kept
  <2>6. Signed(o)'
    BY <1>1, <2>1, <2>3 DEF Own, Signed, Writing
  <2>7. doubled' \subseteq strayed' /\ Grows
    BY <2>1 DEF JInv, Grows
  <2> QED BY <1>1, <2>1, <2>2, <2>4, <2>5, <2>6, <2>7, QuietStep DEF Own
<1> QED BY <1>2, <1>3

(* What the steps inside a request's lock share. *)
LEMMA AtWork ==
  ASSUME IInv, JInv, NEW o \in Ops, pc[o] \in {"update", "recheck", "write", "unlink"}
  PROVE  /\ req[o] # None /\ req[o].kind \in Change /\ req[o].id \in Ids /\ at[o] \in Paths
         /\ req[o].kind \in {"move", "rename"} => req[o].to \in Paths
         /\ req[o].kind # "move" => req[o].etag \in File
         /\ pc[o] \in Writing => draft[o] \in File
         /\ Own(o) /\ disturbed[o] \in BOOLEAN
         /\ rows[req[o].id] # None /\ rows[req[o].id].hash \in File
         /\ Committing(req[o].id) = {}
         /\ Linking(req[o].id) \subseteq {o}
<1>1. pc[o] # "idle" /\ pc[o] \in Changing /\ pc[o] \in Found /\ pc[o] \in Critical
  BY DEF Changing, Found, Critical, Writing
<1>2. Sound(o) /\ req[o] # None /\ req[o].id \in Ids
  BY <1>1, Known DEF IInv
<1>3. req[o].kind \in Change /\ at[o] \in Paths /\ rows[req[o].id] # None
      /\ (pc[o] \in Writing => draft[o] \in File)
      /\ (req[o].kind \in {"move", "rename"} => req[o].to \in Paths)
      /\ (req[o].kind # "move" => req[o].etag \in File)
  BY <1>1, <1>2 DEF Sound, Asks, Works
<1>4. rows[req[o].id].hash \in File /\ disturbed[o] \in BOOLEAN
  BY <1>2, <1>3 DEF IInv, TypeOK, Row
<1>5. Committing(req[o].id) = {} /\ Linking(req[o].id) \subseteq {o}
  <2>1. ASSUME NEW u \in Ops \ {o}, pc[u] \in {"commit", "unlink"}, req[u].id = req[o].id PROVE FALSE
    BY <1>1, <2>1, Exclusive DEF Critical, Writing
  <2> QED BY <2>1 DEF Committing, Linking
<1> QED BY <1>2, <1>3, <1>4, <1>5 DEF JInv

LEMMA UpdateMirrors ==
  ASSUME IInv, JInv, NEW o \in Ops, UpdateRow(o)
  PROVE  JInv'
<1> DEFINE i == req[o].id
<1>1. /\ pc[o] = "update" /\ req[o].kind \in Change /\ i \in Ids /\ Own(o) /\ at[o] \in Paths
      /\ req[o].kind # "move" => req[o].etag \in File
  BY AtWork DEF UpdateRow
<1>2. CASE Refuse(o)
  BY <1>1, <1>2, RefuseMirrors
<1>3. CASE ~Refuse(o)
  <2>1. PICK f \in Outcome(o) :
          /\ draft' = [draft EXCEPT ![o] = f]
          /\ Goto(o, CASE req[o].kind = "move" -> "write"
                       [] req[o].kind = "patch" /\ f = req[o].etag -> "commit"
                       [] OTHER -> "recheck")
    BY <1>3 DEF UpdateRow
  <2>2. /\ req[o].kind = "move" => Matches(at[o], i, req[o].etag)
        /\ disturbed' = [disturbed EXCEPT ![o] = @ /\ req[o].kind # "move"]
        /\ LET found == IF req[o].kind = "move" THEN Anonymous(o) ELSE {}
           IN  strayed' = strayed \cup found /\ doubled' = doubled \cup found
        /\ UNCHANGED <<files, rows, req, at>>
    BY <1>3 DEF UpdateRow
  <2>3. /\ draft'[o] = f /\ pc' = [pc EXCEPT ![o] = pc'[o]] /\ pc'[o] \in {"write", "commit", "recheck"}
        /\ pc'[o] = "write" <=> req[o].kind = "move"
        /\ pc'[o] = "commit" => req[o].kind = "patch" /\ f = req[o].etag
    BY <1>1, <2>1 DEF Goto, IInv, TypeOK
  <2>4. /\ Others(o) /\ \A u \in Ops \ {o} : disturbed'[u] = disturbed[u]
        /\ req[o].kind = "move" => ~disturbed'[o]
        /\ req[o].kind # "move" => disturbed'[o] = disturbed[o]
    BY <2>1, <2>2, <2>3 DEF IInv, TypeOK, Others
  <2>5. Grows /\ doubled' \subseteq strayed' /\ Alone(o)'
    BY <1>1, <2>2 DEF Grows, JInv, Alone
  <2>6. \A g : Marked(g, i) => Marked(g, i)'
    BY <2>2, <2>5 DEF Marked, Grows
  <2>7. Marked(f, i)'
    <3>1. CASE req[o].kind = "move"
      <4>1. f = files[at[o]] /\ f.id \in {i, NoId}
        BY <2>2, <3>1 DEF Outcome, Matches
      <4>2. f.id = NoId => i \in strayed' /\ i \in doubled'
        BY <2>2, <3>1, <4>1 DEF Anonymous
      <4> QED BY <2>2, <4>1, <4>2 DEF Marked
    <3>2. CASE req[o].kind = "replace"
      <4>1. f.id = i
        BY <3>2 DEF Outcome, Fresh
      <4> QED BY <2>2, <4>1 DEF Marked
    <3>3. CASE req[o].kind \in {"patch", "rename"}
      <4>1. Marked(req[o].etag, i)
        BY <1>1, <3>3 DEF Own, Signed, Critical
      <4>2. f.id = req[o].etag.id
        BY <3>3 DEF Outcome, Fresh
      <4> QED BY <2>6, <4>1, <4>2 DEF Marked
    <3> QED BY <1>1, <3>1, <3>2, <3>3
  <2>8. Signed(o)'
    BY <1>1, <2>2, <2>3, <2>6, <2>7 DEF Own, Signed, Critical
  <2>9. OnDisk(o)'
    <3> SUFFICES ASSUME ~disturbed'[o] PROVE OnDisk(o)'
      BY DEF OnDisk
    <3>1. CASE pc'[o] = "write"
      BY <2>2, <2>3, <3>1 DEF Outcome, OnDisk
    <3>2. CASE pc'[o] = "commit"
      <4>1. ~disturbed[o] /\ req[o].kind = "patch" /\ req[o].etag \in File
        BY <1>1, <2>3, <2>4, <3>2
      <4>2. files[at[o]] = f
        BY <1>1, <2>3, <3>2, <4>1 DEF Own, OnDisk
      <4>3. Target(o)' = at[o]
        BY <2>2, <4>1 DEF Target, Relocates
      <4> QED BY <2>2, <2>3, <3>2, <4>2, <4>3 DEF OnDisk
    <3> QED BY <2>3, <3>1, <3>2 DEF OnDisk
  <2>10. Traced(o)' /\ Kept(o)' /\ Placed(o)'
    BY <1>1, <2>2, <2>3, <2>4, <2>5 DEF Own, Traced, Kept, Placed, InPlace, Grows
  <2> QED BY <1>1, <2>2, <2>3, <2>4, <2>5, <2>8, <2>9, <2>10, QuietStep DEF Own
<1> QED BY <1>2, <1>3

LEMMA RecheckMirrors ==
  ASSUME IInv, JInv, NEW o \in Ops, Recheck(o)
  PROVE  JInv'
<1> DEFINE i == req[o].id
<1>1. /\ pc[o] = "recheck" /\ req[o].kind \in Change \ {"move"} /\ i \in Ids /\ Own(o)
      /\ req[o].etag \in File
  BY AtWork DEF Recheck, Own, Signed
<1>2. CASE Refuse(o)
  BY <1>1, <1>2, RefuseMirrors
<1>3. CASE ~Refuse(o)
  <2>1. /\ Matches(at[o], i, req[o].etag) /\ pc'[o] = "write" /\ ~disturbed'[o] /\ Others(o)
        /\ UNCHANGED <<files, rows, req, at, draft, strayed, doubled>>
        /\ \A u \in Ops \ {o} : disturbed'[u] = disturbed[u]
    BY <1>3 DEF IInv, TypeOK, Recheck, Goto, Others
  <2>2. files[at[o]] = req[o].etag /\ Marked(req[o].etag, i)
    BY <1>1, <2>1 DEF Matches, Own, Signed, Critical, Writing
  <2>3. Signed(o)'
    BY <1>1, <2>1 DEF Own, Signed, Critical, Writing, Marked
  <2>4. Traced(o)' /\ OnDisk(o)' /\ Placed(o)' /\ Alone(o)'
    BY <1>1, <2>1, <2>2 DEF Own, Traced, OnDisk, Placed, InPlace, Alone
  <2>5. Kept(o)'
    BY <1>1, <2>1, <2>2 DEF Kept, Marked
  <2> QED BY <1>1, <2>1, <2>3, <2>4, <2>5, QuietStep DEF Own, Grows, JInv
<1> QED BY <1>2, <1>3

(* A request that spreads what it does at p tells who is near. *)
LEMMA SpreadTells ==
  ASSUME IInv, NEW o \in Ops, NEW p \in Paths, Spread(o, {p})
  PROVE  /\ \A u \in Ops \ {o} : disturbed'[u] \in {disturbed[u], Near(u, {p})}
         /\ \A u \in Ops \ {o} : disturbed[u] => disturbed'[u]
         /\ \A u \in Ops \ {o} : Doubtful(o) /\ Near(u, {p}) => disturbed'[u]
         /\ \A u \in Ops \ {o} : disturbed'[u] => disturbed[u] \/ Doubtful(o)
         /\ disturbed'[o] <=> disturbed[o] /\ pc'[o] # "idle"
<1>1. \A u \in Ops : disturbed[u] \in BOOLEAN
  BY DEF IInv, TypeOK
<1>2. \A u \in Ops : Near(u, {p}) \in BOOLEAN /\ Doubtful(o) \in BOOLEAN
  BY DEF Near, Doubtful
<1> QED BY <1>1, <1>2 DEF Spread

(* A replaced or renamed file is the note's own, or the note has strayed. *)
LEMMA OverwriteMirrors ==
  ASSUME IInv, JInv, NEW o \in Ops, Turn(o), Overwrite(o)
  PROVE  JInv'
<1> DEFINE i == req[o].id
           p == at[o]
<1>1. /\ pc[o] = "write" /\ req[o].kind \in {"replace", "patch", "rename"} /\ ~Relocates(o)
      /\ i \in Ids /\ p \in Paths /\ req[o].etag \in File /\ draft[o] \in File /\ Own(o)
      /\ Linking(i) = {} /\ rows[i] # None
  <2>1. pc[o] = "write" /\ ~Relocates(o) /\ Sound(o)
    BY DEF Overwrite, IInv
  <2>2. req[o].kind # "move"
    BY <2>1 DEF Sound, Works, Relocates, Critical, Writing
  <2> QED BY <2>1, <2>2, AtWork DEF Writing, Linking
<1>2. /\ files'[p] = draft[o] /\ \A q \in Paths \ {p} : files'[q] = files[q]
      /\ pc'[o] = "commit" /\ Others(o) /\ UNCHANGED <<rows, req, at, draft, doubled>>
      /\ Spread(o, {p}) /\ strayed' = strayed \cup Misled(o, {p})
  BY <1>1 DEF IInv, TypeOK, Overwrite, Goto, Others
<1>3. Grows /\ doubled' \subseteq strayed' /\ Alone(o)' /\ (disturbed'[o] <=> disturbed[o])
  BY <1>1, <1>2, SpreadTells DEF Grows, JInv, Alone
<1>4. Doubtful(o) => Claimed({p}) \subseteq strayed'
  BY <1>2 DEF Misled
<1>5. Takes(o, p)
  <2>1. CASE Doubtful(o)
    BY <1>1, <1>2, <1>4, <2>1, SpreadTells DEF Takes
  <2>2. CASE ~Doubtful(o)
    <3>1. i \notin strayed /\ ~disturbed[o]
      BY <1>1, <2>2 DEF Doubtful, Own, Traced
    <3>2. files[p] = req[o].etag /\ req[o].etag.id = i
      BY <1>1, <3>1 DEF Own, OnDisk, Signed, Marked, Critical, Writing
    <3> QED BY <1>1, <2>2, <3>2 DEF Takes, Critical, Writing
  <2> QED BY <2>1, <2>2
<1>6. Marked(draft[o], i)
  BY <1>1 DEF Own, Signed, Writing
<1>7. Own(o)'
  <2>1. Signed(o)'
    BY <1>1, <1>2, <1>3 DEF Own, Signed, Critical, Writing, Marked, Grows
  <2>2. OnDisk(o)'
    BY <1>1, <1>2 DEF OnDisk, Target, Relocates
  <2> QED BY <1>1, <1>2, <1>3, <2>1, <2>2 DEF Own, Traced, Kept, Placed, InPlace, Grows
<1>8. ASSUME NEW j \in {req[o].id} PROVE Named(j)' /\ Mirrored(j)'
  <2>1. o \in Committing(j)' /\ Linking(j)' = {}
    BY <1>1, <1>2 DEF Committing, Linking, Others
  <2>2. j \notin doubled => Names(j)' \subseteq Names(j)
    BY <1>1, <1>2 DEF Own, Kept, Names
  <2>3. Named(j)'
    BY <1>1, <1>2, <2>1, <2>2 DEF JInv, Named, AtMostOne
  <2>4. Mirrored(j)'
    BY <1>1, <1>2, <1>3, <2>1 DEF JInv, Mirrored, Grows
  <2> QED BY <2>3, <2>4
<1>9. \A j \in Ids \ {req[o].id} : ~(files'[p].id = j)
  BY <1>2, <1>6 DEF Marked
<1>10. files'[p].id \in {req[o].id, NoId}
  BY <1>2, <1>6 DEF Marked
<1>11. \A u \in Ops \ {o} : disturbed'[u] => disturbed[u] \/ Claimed({p}) \subseteq strayed'
  BY <1>1, <1>2, <1>4, SpreadTells
<1> QED BY <1>1, <1>2, <1>3, <1>5, <1>7, <1>8, <1>9, <1>10, <1>11, SpreadTells, TouchStep

(* A link puts the note's bytes at a free name, beside the file it renames. *)
LEMMA LinkMirrors ==
  ASSUME IInv, JInv, NEW o \in Ops, Turn(o), Link(o)
  PROVE  JInv'
<1> DEFINE i == req[o].id
           p == req[o].to
           q == at[o]
<1>1. /\ pc[o] = "write" /\ req[o].kind \in {"move", "rename"} /\ p # q
      /\ i \in Ids /\ p \in Paths /\ q \in Paths /\ Own(o) /\ draft[o] \in File
      /\ (req[o].kind # "move" => req[o].etag \in File)
      /\ Linking(i) = {} /\ Committing(i) = {} /\ rows[i] # None
      /\ rows[i].path \in Paths /\ rows[i].hash \in File
  <2>1. pc[o] = "write" /\ req[o].kind \in {"move", "rename"} /\ p # q
    BY DEF Link, Relocates
  <2>2. rows[i] # None => rows[i].path \in Paths
    BY <2>1, AtWork DEF IInv, TypeOK, Row
  <2> QED BY <2>1, <2>2, AtWork DEF Writing, Linking
<1>2. CASE Refuse(o)
  BY <1>1, <1>2, RefuseMirrors
<1>3. CASE ~Refuse(o)
  <2>1. /\ files[p] = None /\ (req[o].kind = "move" => files[q] # None)
        /\ files'[p] = (IF req[o].kind = "move" THEN files[q] ELSE draft[o])
        /\ \A r \in Paths \ {p} : files'[r] = files[r]
        /\ pc'[o] = "unlink" /\ Others(o)
        /\ strayed' = strayed \cup Carried(o) /\ doubled' = doubled \cup Carried(o)
        /\ UNCHANGED <<rows, req, at, draft, disturbed>>
    BY <1>1, <1>3 DEF IInv, TypeOK, Link, Goto, Others
  <2>2. Grows /\ doubled' \subseteq strayed' /\ Alone(o)' /\ Takes(o, p)
    BY <1>1, <2>1 DEF Grows, JInv, Alone, Takes
  <2>3. Marked(draft[o], i)
    BY <1>1 DEF Own, Signed, Writing
  <2>4. \A j \in Ids \ {req[o].id} : files'[p] # None /\ files'[p].id = j => j \in doubled'
    BY <1>1, <2>1, <2>3 DEF Carried, Marked
  <2>5. files'[p] \in {None} \cup {files[r] : r \in Paths} \/ files'[p].id \in {req[o].id, NoId}
    BY <1>1, <2>1, <2>3 DEF Marked
  <2>6. Own(o)'
    <3>1. Signed(o)'
      BY <1>1, <2>1, <2>2 DEF Own, Signed, Critical, Writing, Marked, Grows
    <3>2. OnDisk(o)'
      BY <1>1, <2>1 DEF Own, OnDisk
    <3> QED BY <1>1, <2>1, <2>2, <3>1, <3>2 DEF Own, Traced, Kept, Placed, InPlace, Grows
  <2>7. ASSUME NEW j \in {req[o].id} PROVE Named(j)' /\ Mirrored(j)'
    <3>1. Linking(j)' \subseteq {o} /\ o \in Linking(j)' /\ Committing(j)' = {}
      BY <1>1, <2>1 DEF Committing, Linking, Others
    <3>2. ASSUME j \notin doubled'
          PROVE  AtMostOne(Names(j)' \ {q}) /\ AtMostOne(Names(j)' \ {p})
      <4>1. AtMostOne(Names(j))
        BY <1>1, <2>2, <3>2 DEF JInv, Named, Grows
      <4>2. Names(j)' \ {p} \subseteq Names(j)
        BY <2>1 DEF Names
      <4>3. p \in Names(j)' => q \in Names(j)
        BY <1>1, <2>1, <2>2, <3>2 DEF Own, Kept, Names, Grows
      <4> QED BY <4>1, <4>2, <4>3 DEF AtMostOne
    <3>3. Named(j)'
      BY <2>1, <3>1, <3>2 DEF Named
    <3>4. Mirrored(j)'
      <4>1. j \notin strayed' => rows[j].hash.id = j /\ files[rows[j].path] = rows[j].hash
        BY <1>1, <2>2 DEF JInv, Mirrored, Grows
      <4>2. j \notin strayed' => files'[rows[j].path] = rows[j].hash
        BY <1>1, <2>1, <4>1
      <4> QED BY <2>1, <4>1, <4>2 DEF Mirrored
    <3> QED BY <3>3, <3>4
  <2> QED BY <1>1, <2>1, <2>2, <2>4, <2>5, <2>6, <2>7, TouchStep
<1> QED BY <1>2, <1>3

(* The old name goes, or the new one is taken back: one is left. *)
LEMMA UnlinkMirrors ==
  ASSUME IInv, JInv, NEW o \in Ops, Turn(o), Unlink(o) \/ UndoLink(o)
  PROVE  JInv'
<1> DEFINE i == req[o].id
           q == at[o]
<1>1. /\ pc[o] = "unlink" /\ req[o].kind \in {"move", "rename"} /\ req[o].to # q
      /\ i \in Ids /\ q \in Paths /\ req[o].to \in Paths /\ Own(o) /\ draft[o] \in File
      /\ (req[o].kind # "move" => req[o].etag \in File)
      /\ Linking(i) = {o} /\ Committing(i) = {} /\ rows[i].hash \in File /\ rows[i] # None
      /\ rows[i].path \in Paths
  <2>1. pc[o] = "unlink" /\ Sound(o)
    BY DEF Unlink, UndoLink, IInv
  <2>2. req[o].kind \in {"move", "rename"} /\ req[o].to # q
    BY <2>1 DEF Sound, Works
  <2>3. rows[i] # None => rows[i].path \in Paths
    BY <2>1, AtWork DEF IInv, TypeOK, Row
  <2> QED BY <2>1, <2>2, <2>3, AtWork DEF Writing, Linking
<1>2. PICK p \in {q, req[o].to} :
        /\ files'[p] = None /\ \A r \in Paths \ {p} : files'[r] = files[r]
        /\ Others(o) /\ UNCHANGED <<rows, doubled>> /\ Spread(o, {p})
        /\ strayed \cup Misled(o, {p}) \subseteq strayed'
        /\ \/ pc'[o] = "commit" /\ UNCHANGED <<req, at, draft>> /\ p = q
           \/ pc'[o] = "idle" /\ at'[o] = None /\ p = req[o].to /\ files[q] # None
           \/ pc'[o] = "idle" /\ at'[o] = None /\ p = q /\ i \in strayed'
  <2>1. CASE Unlink(o)
    <3>1. /\ files'[q] = None /\ \A r \in Paths \ {q} : files'[r] = files[r]
          /\ pc'[o] = "commit" /\ UNCHANGED <<req, at, draft, rows, doubled>> /\ Others(o)
          /\ Spread(o, {q}) /\ strayed' = strayed \cup Misled(o, {q})
      BY <1>1, <2>1 DEF IInv, TypeOK, Unlink, Goto, Others
    <3> QED BY <1>1, <3>1
  <2>2. CASE UndoLink(o)
    <3>1. Forget(o) /\ Others(o) /\ pc'[o] = "idle" /\ at'[o] = None /\ UNCHANGED <<rows, doubled>>
      BY <2>2 DEF IInv, TypeOK, UndoLink, AnswerTouching, Forget, Others
    <3>2. CASE /\ files[q] # None /\ files' = [files EXCEPT ![req[o].to] = None]
               /\ Spread(o, {req[o].to}) /\ strayed' = strayed \cup Misled(o, {req[o].to})
      BY <1>1, <3>1, <3>2 DEF IInv, TypeOK
    <3>3. CASE /\ files' = [files EXCEPT ![q] = None] /\ Spread(o, {q})
               /\ strayed' = strayed \cup {i} \cup Misled(o, {q})
      BY <1>1, <3>1, <3>3 DEF IInv, TypeOK
    <3> QED BY <2>2, <3>2, <3>3 DEF UndoLink, AnswerTouching
  <2> QED BY <2>1, <2>2
<1>3. p \in Paths /\ Grows /\ doubled' \subseteq strayed'
  BY <1>1, <1>2 DEF Grows, JInv
<1>4. Doubtful(o) => Claimed({p}) \subseteq strayed'
  BY <1>2 DEF Misled
<1>5. Takes(o, p)
  <2>1. CASE Doubtful(o)
    BY <1>1, <1>2, <1>3, <1>4, <2>1, SpreadTells DEF Takes
  <2>2. CASE ~Doubtful(o)
    <3>1. i \notin strayed /\ ~disturbed[o]
      BY <1>1, <2>2 DEF Doubtful, Own, Traced
    <3>2. files[q].id = i /\ files[req[o].to].id = i
      BY <1>1, <3>1 DEF Own, OnDisk, Signed, Marked, Critical, Writing
    <3> QED BY <1>1, <1>2, <2>2, <3>2 DEF Takes, Critical, Writing
  <2> QED BY <2>1, <2>2
<1>6. Alone(o)' /\ Own(o)'
  <2>1. disturbed'[o] <=> disturbed[o] /\ pc'[o] # "idle"
    BY <1>2, <1>3, SpreadTells
  <2>2. CASE pc'[o] = "idle"
    BY <1>2, <2>1, <2>2, Done
  <2>3. CASE pc'[o] # "idle"
    <3>1. Signed(o)'
      BY <1>1, <1>2, <1>3, <2>3 DEF Own, Signed, Critical, Writing, Marked, Grows
    <3>2. OnDisk(o)'
      BY <1>1, <1>2, <2>1, <2>3 DEF Own, OnDisk, Target, Relocates
    <3>3. Alone(o)' /\ Traced(o)' /\ Kept(o)' /\ Placed(o)'
      BY <1>1, <1>2, <1>3, <2>1, <2>3 DEF Own, Alone, Traced, Kept, Placed, InPlace, Grows
    <3> QED BY <3>1, <3>2, <3>3 DEF Own
  <2> QED BY <2>2, <2>3
<1>7. ASSUME NEW j \in {req[o].id} PROVE Named(j)' /\ Mirrored(j)'
  <2>1. Linking(j)' = {}
    BY <1>1, <1>2 DEF Linking, Others
  <2>2. j \notin doubled => AtMostOne(Names(j) \ {p})
    BY ZenonT(60), <1>1, <1>2 DEF JInv, Named
  <2>3. Names(j)' \subseteq Names(j) \ {p}
    BY <1>2 DEF Names
  <2>4. Named(j)'
    BY <1>2, <2>1, <2>2, <2>3 DEF Named, AtMostOne
  <2>5. Mirrored(j)'
    <3> SUFFICES ASSUME i \notin strayed'
                 PROVE  rows[i].hash.id = i /\ (files'[rows[i].path] = rows[i].hash \/ Committing(j)' # {})
      BY <1>2 DEF Mirrored
    <3>1. rows[i].hash.id = i /\ files[rows[i].path] = rows[i].hash /\ q = rows[i].path
      BY <1>1, <1>3 DEF JInv, Mirrored, Grows, Own, Placed, InPlace
    <3>2. CASE pc'[o] = "commit"
      BY <1>2, <3>1, <3>2 DEF Committing
    <3>3. CASE pc'[o] # "commit"
      BY <1>1, <1>2, <3>1, <3>3
    <3> QED BY <3>2, <3>3
  <2> QED BY <2>4, <2>5
<1>8. \A u \in Ops \ {o} : disturbed'[u] => disturbed[u] \/ Claimed({p}) \subseteq strayed'
  BY <1>2, <1>3, <1>4, SpreadTells
<1> QED BY <1>1, <1>2, <1>3, <1>5, <1>6, <1>7, <1>8, SpreadTells, TouchStep

(* The file of a rejected create goes again. *)
LEMMA RejectMirrors ==
  ASSUME IInv, JInv, NEW o \in Ops, Turn(o), CreateRejected(o)
  PROVE  JInv'
<1> DEFINE i == req[o].id
           p == req[o].to
<1>1. /\ pc[o] = "commit" /\ req[o].kind = "create" /\ i \in Ids /\ p \in Paths
      /\ Own(o) /\ rows[i] = None /\ at[o] = p /\ Linking(i) = {}
      /\ \A u \in Ops \ {o} : pc[u] # "idle" /\ req[u].id = i => pc[u] = "locate"
  <2>1. pc[o] = "commit" /\ req[o].kind = "create" /\ Alone(o) /\ Own(o) /\ Sound(o)
    BY DEF CreateRejected, JInv, IInv
  <2>2. i \in Ids /\ p \in Paths
    BY <2>1, Known DEF Sound, Asks
  <2> QED BY <2>1, <2>2 DEF Alone, Linking
<1>2. /\ files'[p] = None /\ \A q \in Paths \ {p} : files'[q] = files[q]
      /\ Others(o) /\ UNCHANGED <<rows, doubled>> /\ Spread(o, {p})
      /\ strayed' = strayed \cup Misled(o, {p}) /\ pc'[o] = "idle" /\ at'[o] = None
  BY <1>1 DEF IInv, TypeOK, CreateRejected, AnswerTouching, Forget, Others
<1>3. Grows /\ doubled' \subseteq strayed'
  BY <1>2 DEF Grows, JInv
<1>4. Doubtful(o) => Claimed({p}) \subseteq strayed'
  BY <1>2 DEF Misled
<1>5. Takes(o, p)
  <2>1. CASE Doubtful(o)
    BY <1>1, <1>2, <1>4, <2>1, SpreadTells DEF Takes
  <2>2. CASE ~Doubtful(o)
    <3>1. i \notin strayed /\ ~disturbed[o]
      BY <1>1, <2>2 DEF Doubtful, Own, Traced
    <3>2. files[p].id = i
      BY <1>1, <3>1 DEF Own, OnDisk, Signed, Marked, Writing, Target, Relocates
    <3> QED BY <1>1, <2>2, <3>2 DEF Takes, Critical, Writing
  <2> QED BY <2>1, <2>2
<1>6. Alone(o)' /\ Own(o)'
  BY <1>1, <1>2, SpreadTells, Done
<1>7. ASSUME NEW j \in {req[o].id} PROVE Named(j)' /\ Mirrored(j)'
  <2>1. Linking(j)' = {} /\ Names(j)' \subseteq Names(j)
    BY <1>1, <1>2 DEF Linking, Others, Names
  <2> QED BY <1>1, <1>2, <2>1 DEF JInv, Named, Mirrored, AtMostOne
<1>8. \A u \in Ops \ {o} : disturbed'[u] => disturbed[u] \/ Claimed({p}) \subseteq strayed'
  BY <1>1, <1>2, <1>4, SpreadTells
<1>9. /\ \A u \in Ops \ {o} : disturbed'[u] \in {disturbed[u], Near(u, {p})}
      /\ \A u \in Ops \ {o} : disturbed[u] => disturbed'[u]
  BY <1>1, <1>2, SpreadTells
<1> HIDE DEF p
<1> QED BY <1>1, <1>2, <1>3, <1>5, <1>6, <1>7, <1>8, <1>9, TouchStep

(* A commit says what is on disk where it is; one that fails says nothing. *)
LEMMA CommitMirrors ==
  ASSUME IInv, JInv, NEW o \in Ops, Turn(o), Commit(o) \/ CommitFails(o)
  PROVE  JInv'
<1> DEFINE i == req[o].id
<1>1. pc[o] = "commit" /\ i \in Ids /\ pc[o] \in Critical /\ Own(o) /\ Alone(o) /\ draft[o] \in File
  BY Known DEF Commit, CommitFails, Critical, Writing, JInv, IInv, Sound, Works
<1>2. /\ pc'[o] = "idle" /\ at'[o] = None /\ ~disturbed'[o] /\ Others(o) /\ UNCHANGED <<files, doubled>>
      /\ \A u \in Ops \ {o} : disturbed'[u] = disturbed[u]
      /\ \A j \in Ids \ {i} : rows'[j] = rows[j]
      /\ rows' = rows \/ rows'[i] = Committed(o)
      /\ strayed' \in {strayed, strayed \cup {i}}
      /\ i \in strayed' \/ rows'[i] = Committed(o)
  BY <1>1 DEF IInv, TypeOK, Commit, CommitFails, Answer, Forget, Others
<1>3. Alone(o)' /\ Own(o)' /\ doubled' \subseteq strayed'
  BY <1>2, Done DEF JInv
<1>4. ASSUME NEW u \in Ops \ {o} PROVE Own(u)'
  <2>1. Own(u) /\ pc'[u] = pc[u] /\ req'[u] = req[u] /\ at'[u] = at[u] /\ draft'[u] = draft[u]
        /\ disturbed'[u] = disturbed[u]
    BY <1>2 DEF JInv, Others
  <2>2. \A f, j : Marked(f, j) => Marked(f, j)'
    BY <1>2 DEF Marked
  <2>3. Placed(u)'
    <3> SUFFICES ASSUME InPlace(u), req[u].id \notin strayed' PROVE at[u] = rows'[req[u].id].path
      BY <2>1 DEF Placed, InPlace
    <3>1. pc[u] \in Critical /\ req[u].id \in Ids
      BY Known DEF InPlace, Critical, Writing
    <3>2. req[u].id # i
      BY <1>1, <3>1, Exclusive
    <3> QED BY <1>2, <2>1, <3>1, <3>2 DEF Own, Placed
  <2> QED BY <1>2, <2>1, <2>2, <2>3 DEF Own, Traced, Signed, OnDisk, Kept, Target, Relocates
<1>5. \A u \in Ops \ {o} : Alone(u)'
  BY <1>1, <1>2, AloneOthers
<1>6. ASSUME NEW j \in Ids PROVE Named(j)'
  <2>1. Linking(j)' = Linking(j) /\ Names(j)' = Names(j) /\ \A u \in Linking(j) : at'[u] = at[u] /\ req'[u] = req[u]
    BY <1>1, <1>2 DEF Linking, Names, Others
  <2> QED BY <1>2, <2>1 DEF JInv, Named, AtMostOne
<1>7. ASSUME NEW j \in Ids PROVE Mirrored(j)'
  <2>1. CASE j # i
    <3>1. Committing(j)' = Committing(j)
      BY <1>1, <1>2, <2>1 DEF Committing, Others
    <3> QED BY <1>2, <2>1, <3>1 DEF JInv, Mirrored
  <2>2. CASE j = i
    <3> SUFFICES ASSUME i \notin strayed', rows'[i] = Committed(o)
                 PROVE  rows'[i].hash.id = i /\ files'[rows'[i].path] = rows'[i].hash
      BY <1>2, <2>2 DEF Mirrored
    <3>1. ~disturbed[o] /\ i \notin strayed
      BY <1>1, <1>2 DEF Own, Traced
    <3>2. files[Target(o)] = draft[o] /\ draft[o].id = i
      BY <1>1, <3>1 DEF Own, OnDisk, Signed, Marked, Writing
    <3>3. Committed(o).path = Target(o)
      BY <1>1, <3>1 DEF Committed, Target, Relocates, Alone, Own, Placed, InPlace, IInv, TypeOK, Request, Sound,
                        Asks
    <3> QED BY <1>2, <3>2, <3>3 DEF Committed
  <2> QED BY <2>1, <2>2
<1> QED BY <1>2, <1>3, <1>4, <1>5, <1>6, <1>7 DEF JInv

-----------------------------------------------------------------------------
(* What nobody asked for. *)
LEMMA CrashMirrors ==
  ASSUME IInv, JInv, Crash
  PROVE  JInv'
<1>1. /\ UNCHANGED <<files, rows>> /\ Grows
      /\ \A o \in Ops : pc'[o] = "idle" /\ at'[o] = None /\ ~disturbed'[o]
      /\ \A o \in Ops : pc[o] \in {"unlink", "commit"} => req[o].id \in strayed'
      /\ \A o \in Ops : pc[o] = "unlink" => req[o].id \in doubled'
  BY DEF Crash, Grows
<1>2. doubled' \subseteq strayed'
  BY DEF Crash, JInv
<1>3. \A o \in Ops : Alone(o)' /\ Own(o)'
  BY <1>1, Done
<1>4. ASSUME NEW i \in Ids PROVE Named(i)' /\ Mirrored(i)'
  <2>1. Linking(i)' = {} /\ Names(i)' = Names(i)
    BY <1>1 DEF Linking, Names
  <2>2. Named(i)'
    BY <1>1, <2>1 DEF JInv, Named, Linking, Grows, AtMostOne
  <2>3. Mirrored(i)'
    BY <1>1 DEF JInv, Mirrored, Committing, Grows
  <2> QED BY <2>2, <2>3
<1> QED BY <1>2, <1>3, <1>4 DEF JInv

(* A device puts no identity on disk that was not there. *)
LEMMA DeviceMirrors ==
  ASSUME IInv, JInv, Device
  PROVE  JInv'
<1>1. PICK P \in SUBSET Paths :
        /\ DeviceTouches(P) /\ \A p \in Paths \ P : files'[p] = files[p]
        /\ \A p \in Paths : files'[p] # None =>
              files'[p].id = NoId \/ \E q \in Paths : files[q] # None /\ files[q].id = files'[p].id
  <2>1. PICK p \in Paths, q \in Paths : DeviceWrites(p) \/ DeviceDeletes(p) \/ DeviceMoves(p, q) \/ DeviceCopies(p, q)
    BY DEF Device
  <2>2. CASE DeviceWrites(p)
    BY <2>2 DEF IInv, TypeOK, DeviceWrites, Fresh
  <2>3. CASE DeviceDeletes(p)
    BY <2>3 DEF IInv, TypeOK, DeviceDeletes
  <2>4. CASE DeviceMoves(p, q)
    BY <2>4 DEF IInv, TypeOK, DeviceMoves
  <2>5. CASE DeviceCopies(p, q)
    BY <2>5 DEF IInv, TypeOK, DeviceCopies
  <2> QED BY <2>1, <2>2, <2>3, <2>4, <2>5
<1>2. /\ UNCHANGED <<rows, pc, req, at, draft>> /\ Grows
      /\ \A o \in Ops : disturbed'[o] = (disturbed[o] \/ Near(o, P))
      /\ Claimed(P) \subseteq strayed'
      /\ \A i \in Ids : i \notin doubled' =>
            /\ \A p \in P \cap Names(i)', q \in Names(i)' : p = q
            /\ \A o \in Ops : pc[o] \in {"write", "unlink"} /\ req[o].id = i => at[o] \notin P
  BY <1>1 DEF IInv, TypeOK, DeviceTouches, opVars, Grows
<1>3. doubled' \subseteq strayed'
  <2>1. ASSUME NEW i \in Ids, NEW o \in Ops, pc[o] \in {"write", "unlink"}, req[o].id = i, at[o] \in P
        PROVE  i \in Claimed(P)
    BY <2>1, Known DEF Claimed, Claims
  <2> QED BY <1>1, <2>1 DEF DeviceTouches, JInv
<1>4. ASSUME NEW o \in Ops PROVE Alone(o)'
  <2> SUFFICES ASSUME pc[o] # "idle", req[o].kind = "create" PROVE Alone(o)'
    BY <1>2 DEF Alone
  <2>1. Alone(o) /\ req[o].id \in Ids
    BY Known DEF JInv
  <2>2. pc[o] \in Creating => Names(req[o].id)' = {}
    <3> SUFFICES ASSUME pc[o] \in Creating, NEW p \in Paths, files'[p] # None, files'[p].id = req[o].id
                 PROVE  FALSE
      BY <1>2 DEF Names
    <3>1. PICK q \in Paths : files[q] # None /\ files[q].id = req[o].id
      BY <1>1, <2>1
    <3> QED BY <2>1, <3>1 DEF Alone, Names
  <2> QED BY <1>2, <2>1, <2>2 DEF Alone
<1>5. ASSUME NEW o \in Ops PROVE Own(o)'
  <2>1. Own(o)
    BY DEF JInv
  <2>2. \A f, j : Marked(f, j) => Marked(f, j)'
    BY <1>2 DEF Marked, Grows
  <2>3. Traced(o)'
    <3>1. CASE Near(o, P)
      <4>1. pc[o] # "idle"
        BY <2>1, <3>1 DEF Own, Traced, Near
      <4>2. req[o].id \in Claimed(P)
        BY <3>1, <4>1, Known DEF Near, Claimed, Claims
      <4> QED BY <1>2, <4>1, <4>2 DEF Traced
    <3>2. CASE ~Near(o, P)
      BY <1>2, <2>1, <3>2 DEF Own, Traced, Grows
    <3> QED BY <3>1, <3>2
  <2>4. OnDisk(o)'
    <3> SUFFICES ASSUME ~disturbed'[o], pc[o] \in {"update", "write", "unlink", "commit"} PROVE OnDisk(o)'
      BY <1>2 DEF OnDisk
    <3>1. /\ pc[o] \in Found /\ at[o] \in Paths /\ Sound(o)
      BY DEF IInv, Sound, Works, Found, Critical, Writing
    <3>2. ~disturbed[o] /\ at[o] \notin P /\ req[o].to \notin P
      BY <1>2, <3>1 DEF Near
    <3>3. files'[at[o]] = files[at[o]] /\ (req[o].to \in Paths => files'[req[o].to] = files[req[o].to])
      BY <1>1, <3>1, <3>2
    <3>4. (pc[o] = "unlink" => req[o].to \in Paths) /\ (Relocates(o) => req[o].to \in Paths)
      BY <3>1 DEF Sound, Asks, Works, Relocates
    <3> QED BY <1>2, <2>1, <2>2, <3>2, <3>3, <3>4 DEF Own, OnDisk, Target, Relocates
  <2>5. Kept(o)'
    <3>1. pc[o] = "write" => at[o] \in Paths /\ req[o].id \in Ids
      BY AtWork
    <3> QED BY <1>1, <1>2, <2>1, <3>1 DEF Own, Kept, Grows
  <2>6. Signed(o)' /\ Placed(o)'
    BY <1>2, <2>1, <2>2 DEF Own, Signed, Placed, InPlace, Grows
  <2> QED BY <2>3, <2>4, <2>5, <2>6 DEF Own
<1>6. ASSUME NEW i \in Ids PROVE Named(i)' /\ Mirrored(i)'
  <2>1. Linking(i)' = Linking(i) /\ Committing(i)' = Committing(i)
    BY <1>2 DEF Linking, Committing
  <2>2. i \notin doubled' => AtMostOne(Names(i)') \/ Names(i)' \subseteq Names(i)
    BY <1>1, <1>2 DEF AtMostOne, Names
  <2>3. Named(i)'
    BY <1>2, <2>1, <2>2 DEF JInv, Named, AtMostOne, Grows
  <2>4. Mirrored(i)'
    <3>1. i \notin strayed' /\ rows[i] # None => rows[i].path \in Paths \ P
      BY <1>2 DEF Claimed, Claims, IInv, TypeOK, Row
    <3> QED BY <1>1, <1>2, <2>1, <3>1 DEF JInv, Mirrored, Grows
  <2> QED BY <2>3, <2>4
<1> QED BY <1>3, <1>4, <1>5, <1>6 DEF JInv

-----------------------------------------------------------------------------
LEMMA MirrorsHold == Init => JInv
  BY DEF Init, Start, JInv, Alone, Own, Traced, Signed, OnDisk, Kept, Placed, InPlace, Named, Mirrored, Names,
         Linking, AtMostOne, Critical, Writing

LEMMA MirrorsInductive == IInv /\ JInv /\ [Next]_vars => JInv'
<1> SUFFICES ASSUME IInv, JInv, [Next]_vars PROVE JInv'
  OBVIOUS
<1>1. CASE Device
  BY <1>1, DeviceMirrors
<1>2. CASE Crash
  BY <1>2, CrashMirrors
<1>3. ASSUME NEW o \in Ops, Ask(o) PROVE JInv'
  BY <1>3, AskMirrors DEF Ask
<1>4. ASSUME NEW o \in Ops, Progress(o) PROVE JInv'
  BY <1>4, CreateMirrors, LocateMirrors, RepairMirrors, LockMirrors, UpdateMirrors, RecheckMirrors,
     OverwriteMirrors, LinkMirrors, UnlinkMirrors, CommitMirrors DEF Progress, Advance
<1>5. ASSUME NEW o \in Ops, Failure(o) PROVE JInv'
  BY <1>5, RejectMirrors, UnlinkMirrors, CommitMirrors, RefuseMirrors DEF Failure, Interrupted
<1>6. CASE UNCHANGED vars
  BY <1>6 DEF vars, opVars, history, JInv, Alone, Own, Traced, Signed, Marked, OnDisk, Target, Relocates, Kept,
              Placed, InPlace, Named, Mirrored, Names, Linking, Committing, AtMostOne
<1> QED BY <1>1, <1>2, <1>3, <1>4, <1>5, <1>6 DEF Next, Step

LEMMA MirrorInvariance == Spec => []JInv
  BY MirrorsHold, Invariance, MirrorsInductive, PTL DEF Spec

(* What the store is about to acknowledge is on disk where the answer says, for
   every request no device has come between (notes.py commits last: the file
   write precedes the answer). *)
THEOREM AcknowledgementsAreOnDisk == Spec => []AcknowledgedIsOnDisk
<1>1. JInv => AcknowledgedIsOnDisk
  BY DEF JInv, Own, OnDisk, Target, AcknowledgedIsOnDisk
<1> QED BY <1>1, MirrorInvariance, PTL

(* A committed row has its file, with the hash it mirrors, whatever the store's
   own requests do at once; only a device, a failed commit or a crash makes a
   row wrong, and then for the notes they touched (notes.py, the row updates of
   create_note, replace_note, patch_frontmatter, move_note and rename_note). *)
THEOREM RowsFollowFiles == Spec => []MirrorFollowsFile
<1>1. IInv /\ JInv => MirrorFollowsFile
  <2> SUFFICES ASSUME IInv, JInv, NEW i \in Ids, Live(i), i \notin strayed, ~RowBusy(i)
               PROVE  files[rows[i].path] = rows[i].hash
    BY DEF MirrorFollowsFile
  <2>1. Committing(i) = {}
    BY DEF Committing, RowBusy, Writing, IInv, Sound, Asks
  <2> QED BY <2>1 DEF JInv, Mirrored, Live
<1> QED BY <1>1, Invariance, MirrorInvariance, PTL

(* No two committed rows name one path, though nothing in the table forbids it:
   a path has one file, which carries one identity (notes.py _move_file, which
   links exclusively, after the select of the rows that hold the target). *)
THEOREM LiveRowsHaveTheirOwnPaths == Spec => []LivePathsDistinct
<1>1. IInv /\ JInv => LivePathsDistinct
  <2> SUFFICES ASSUME IInv, JInv, NEW i \in Ids \ strayed, NEW j \in Ids \ strayed, i # j, Live(i), Live(j),
                      ~RowBusy(i), ~RowBusy(j), rows[i].path = rows[j].path
               PROVE  FALSE
    BY DEF LivePathsDistinct
  <2>1. Committing(i) = {} /\ Committing(j) = {}
    BY DEF Committing, RowBusy, Writing, IInv, Sound, Asks
  <2>2. files[rows[i].path].id = i /\ files[rows[j].path].id = j
    BY <2>1 DEF JInv, Mirrored, Live
  <2> QED BY <2>2
<1> QED BY <1>1, Invariance, MirrorInvariance, PTL

(* A note has one name: no move, rename, undone link or taken-back create leaves
   two or takes another note's, unless a device made a copy, put a file in the
   way of a request, or the store died between a link and its unlink
   (notes.py _move_file). *)
THEOREM NotesHaveOneName == Spec => []OneNamePerNote
<1>1. JInv => OneNamePerNote
  BY DEF JInv, Named, AtMostOne, Linking, OneNamePerNote
<1> QED BY <1>1, MirrorInvariance, PTL
=============================================================================
