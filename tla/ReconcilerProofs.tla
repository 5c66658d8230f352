--------------------------- MODULE ReconcilerProofs ---------------------------
(***************************************************************************)
(* Reconciler for any notes, paths, devices and writers: a pass keeps its  *)
(* types, declares nothing missing that stood there, leaves a note that is *)
(* at home where it is, tells the truth when nothing disturbs it, adopts   *)
(* no bytes but those it read, and makes no right row wrong.               *)
(*                                                                         *)
(* The walk is no snapshot, so the invariant says what each thing the pass *)
(* has gathered is still worth: an observation, a note it holds and a      *)
(* candidate for adoption are as they were read wherever nobody touched    *)
(* the path since (Observed, Held, Strangers), and every path the walk is  *)
(* done with, and nobody touched, has been taken into account (HeardAll).  *)
(* Kept says what a right row rests on while writers work and fail, Bytes  *)
(* what is known of the file being adopted until somebody meddles with it. *)
(***************************************************************************)
EXTENDS Reconciler, TLAPS, FiniteSetTheorems

USE NamesAssumption, BoundsAssumption

LEMMA FreshIsAVersion == Fresh \subseteq Versions
BY DEF Fresh

LEMMA OneElement ==
  ASSUME NEW S, IsFiniteSet(S)
  PROVE  Cardinality(S) = 1 <=> \E x : S = {x}
BY FS_Singleton

LEMMA SomeIsTyped ==
  ASSUME TypeOK
  PROVE  /\ \A p \in Paths : files[p] # None => files[p] \in File
         /\ \A i \in Ids : rows[i] # None => rows[i] \in Row
         /\ \A i \in Ids : pass.mirror[i] # None => pass.mirror[i] \in Row
         /\ \A i \in Ids : pass.fetched[i] # None => pass.fetched[i] \in Row
         /\ \A o \in Ops : writing[o] # None => writing[o] \in Writer
         /\ pass.adopting # None => pass.adopting \in Adoption
<1>1. /\ files \in [Paths -> File \cup {None}]
      /\ rows \in [Ids -> Row \cup {None}]
      /\ writing \in [Ops -> Writer \cup {None}]
      /\ pass \in Pass
  BY DEF TypeOK
<1>2. /\ pass.mirror \in [Ids -> Row \cup {None}] /\ pass.fetched \in [Ids -> Row \cup {None}]
      /\ pass.adopting \in Adoption \cup {None}
  BY <1>1 DEF Pass
<1> QED  BY <1>1, <1>2

(* A pass between two walks knows nothing and has seen nothing. *)
Begun ==
  /\ pass.phase \in {"rest", "mirror"} =>
        /\ pass.mirror = NoRows /\ pass.observed = {} /\ pass.held = {} /\ pass.candidates = {}
        /\ pass.learned = NoPaths /\ ~pass.deferred /\ pass.todo = {}
  /\ (pass.phase \in {"stat", "read"}) <=> (pass.at # None)
  /\ pass.at \notin pass.todo
  /\ pass.phase \in {"adopt", "apply"} => pass.todo = {}
  /\ pass.adopting # None => pass.phase = "adopt"
  /\ pass.phase = "apply" => pass.candidates = {}
  /\ pass.phase = "read" => pass.stat # None

(* Rows are never taken away, and a writer that has written knows what. *)
Writing ==
  \A o \in Ops : writing[o] # None =>
     /\ rows[writing[o].id] # None
     /\ writing[o].step # "write" => writing[o].ver # None

(* What the pass has read of the rows is what they say, but for those written meanwhile. *)
Mirrored ==
  \A i \in Known :
     /\ rows[i] # None
     /\ i \notin late \cup overtaken => rows[i] = pass.mirror[i]
     /\ pass.phase = "apply" => /\ pass.fetched[i] # None
                                /\ i \notin late \cup overtaken => pass.fetched[i] = pass.mirror[i]

(* The walk is done with p; a file has stood there since the pass began. *)
Walked(p) == p \notin pass.todo /\ p # pass.at
There(p) == p \notin touched /\ files[p] # None

(* The file where the walk is. *)
Looking ==
  /\ pass.at # None /\ pass.at \notin touched => files[pass.at] # None
  /\ pass.phase = "read" /\ pass.at \notin touched => files[pass.at].ver = pass.stat

(* Adoption is of files no live row claims, and that name nobody the pass knows. *)
Stranger(c) ==
  /\ Walked(c.path) /\ Entry(c.path) = {}
  /\ c.path \notin touched => files[c.path] # None /\ files[c.path].id \notin Known
Strangers ==
  /\ \A c \in pass.candidates : Stranger(c)
  /\ pass.adopting # None => Stranger(pass.adopting.cand) /\ pass.adopting.id \notin Known

(* An observation says what is at its path, unless somebody has been there since. *)
Truthful(ob) ==
  /\ Walked(ob.path) /\ ob.id \in Known
  /\ ob.derived => Entry(ob.path) = {ob.id}
  /\ ob.path \notin touched =>
        /\ files[ob.path] # None /\ ob.hash = files[ob.path].ver /\ ob.stat = files[ob.path].ver
        /\ ~ob.derived => /\ files[ob.path].id = ob.id /\ files[ob.path].content # "locked"
                          /\ ob.state = IF files[ob.path].content = "good" THEN "ok" ELSE "unparsed"
Observed ==
  /\ IsFiniteSet(pass.observed)
  /\ \A ob \in pass.observed : Truthful(ob)
  /\ \A ob1, ob2 \in pass.observed : ob1.path = ob2.path => ob1 = ob2

(* A note is held where its row says: a cheap pass found its stat unchanged
   there, or the pass defers. *)
Vouched(i) ==
  LET p == pass.mirror[i].path
  IN  /\ ~pass.full /\ Entry(p) = {i}
      /\ p \notin touched => files[p] # None /\ files[p].ver = pass.mirror[i].stat
Held == \A i \in pass.held : i \in Known /\ (pass.deferred \/ Vouched(i))

(* What the walk knows of files that name nobody, during it and after. *)
Memory == IF pass.phase \in {"adopt", "apply"} THEN remembered ELSE pass.learned

Passed(p) ==
  LET others == Entry(p) \ {files[p].id}
  IN  \/ files[p].content = "locked" /\ others # {}
      \/ ~pass.full /\ \/ Entry(p) = {} /\ Memory[p] = files[p].ver
                       \/ \E j \in others : pass.mirror[j].stat = files[p].ver

(* The ways a file that names a known note is taken into account. *)
Heard(p) ==
  \/ files[p].id \in pass.held
  \/ \E ob \in pass.observed : ob.path = p /\ ob.id = files[p].id
                                 /\ (~ob.derived \/ files[p].content = "locked")
  \/ pass.deferred /\ (Entry(p) \ {files[p].id} # {} \/ files[p].content = "locked")
  \/ Passed(p)
HeardAll == \A p \in Paths : Walked(p) /\ There(p) /\ files[p].id \in Known => Heard(p)

Inv == /\ TypeOK /\ Begun /\ Writing /\ Mirrored /\ Looking
       /\ Strangers /\ Observed /\ Held /\ HeardAll

(* Reading the fields of a typed record. *)
LEMMA PassFields ==
  ASSUME NEW s \in Pass
  PROVE  /\ s.phase \in Phases /\ s.full \in BOOLEAN /\ s.mirror \in [Ids -> Row \cup {None}]
         /\ s.todo \in SUBSET Paths /\ s.at \in Paths \cup {None} /\ s.stat \in Versions \cup {None}
         /\ s.settling \in BOOLEAN /\ s.observed \in SUBSET Observation /\ s.held \in SUBSET Ids
         /\ s.deferred \in BOOLEAN /\ s.learned \in Stats /\ s.candidates \in SUBSET Candidate
         /\ s.adopting \in Adoption \cup {None} /\ s.adopted \in 0 .. AdoptionsPerPass - 1
         /\ s.fetched \in [Ids -> Row \cup {None}]
BY DEF Pass

LEMMA EntryIsOne ==
  ASSUME TypeOK, NEW p \in Paths
  PROVE  /\ Entry(p) \subseteq Claimants(p) /\ Entry(p) \subseteq Known /\ Entry(p) \subseteq Ids
         /\ \A i \in Entry(p) : Entry(p) = {i}
         /\ \A i \in Claimants(p) : /\ pass.mirror[i] \in Row /\ pass.mirror[i].path = p
                                    /\ pass.mirror[i].state # "missing"
         /\ Entry(p) = {} => \A i \in Claimants(p) : Claimants(p) # {i}
<1>1. Claimants(p) \subseteq Known /\ Known \subseteq Ids
  BY DEF Claimants, Known
<1>2. IsFiniteSet(Claimants(p))
  <2>1. Claimants(p) \subseteq Ids
    BY <1>1
  <2> QED  BY <2>1, FS_Subset
<1>3. Cardinality(Claimants(p)) = 1 <=> \E x : Claimants(p) = {x}
  BY <1>2, OneElement
<1>4. \A i \in Claimants(p) : /\ pass.mirror[i] \in Row /\ pass.mirror[i].path = p
                              /\ pass.mirror[i].state # "missing"
  BY SomeIsTyped DEF Claimants, Known
<1>5. CASE Cardinality(Claimants(p)) = 1
  <2>1. Entry(p) = Claimants(p)
    BY <1>5 DEF Entry
  <2> QED  BY <2>1, <1>1, <1>3, <1>4, <1>5
<1>6. CASE Cardinality(Claimants(p)) # 1
  <2>1. Entry(p) = {}
    BY <1>6 DEF Entry
  <2> QED  BY <2>1, <1>1, <1>3, <1>4, <1>6
<1> QED  BY <1>5, <1>6

LEMMA InitTypes == Init => TypeOK
<1> SUFFICES ASSUME Init PROVE TypeOK
  OBVIOUS
<1>1. Rest \in Pass
  <2>1. NoRows \in [Ids -> Row \cup {None}] /\ NoPaths \in Stats
    BY DEF NoRows, NoPaths, Stats
  <2>2. 0 \in 0 .. AdoptionsPerPass - 1
    OBVIOUS
  <2> QED  BY <2>1, <2>2 DEF Rest, Pass, Phases
<1>2. PICK home \in [Ids -> Paths \cup {None}], ver \in FirstVersions :
        /\ files = [p \in Paths |->
              IF \E i \in Ids : home[i] = p
              THEN LET i == CHOOSE i \in Ids : home[i] = p
                   IN  [id |-> i, ver |-> ver[i], content |-> "good", settled |-> TRUE]
              ELSE None]
        /\ rows = [i \in Ids |->
              IF home[i] = None THEN None
              ELSE [path |-> home[i], hash |-> ver[i], stat |-> ver[i], state |-> "ok"]]
  BY ZenonT(60) DEF Init
<1>v. ver \in [Ids -> Versions]
  BY DEF FirstVersions
<1>3. files \in [Paths -> File \cup {None}]
  <2>1. ASSUME NEW p \in Paths, NEW i \in Ids
        PROVE  [id |-> i, ver |-> ver[i], content |-> "good", settled |-> TRUE] \in File
    BY <1>v DEF File, Content
  <2>2. ASSUME NEW p \in Paths, \E i \in Ids : home[i] = p
        PROVE  (CHOOSE i \in Ids : home[i] = p) \in Ids
    BY <2>2
  <2> QED  BY <1>2, <2>1, <2>2
<1>4. rows \in [Ids -> Row \cup {None}]
  <2>1. ASSUME NEW i \in Ids, home[i] # None
        PROVE  [path |-> home[i], hash |-> ver[i], stat |-> ver[i], state |-> "ok"] \in Row
    BY <1>v, <2>1 DEF Row
  <2> QED  BY <1>2, <2>1
<1>5. remembered \in Stats
  BY DEF Init, NoPaths, Stats
<1>6. /\ writing \in [Ops -> Writer \cup {None}] /\ pass \in Pass
      /\ late \subseteq Ids /\ disturbed \subseteq Ids /\ overtaken \subseteq Ids /\ touched \subseteq Paths
      /\ meddled \in BOOLEAN
  BY <1>1 DEF Init
<1>7. devices \in 0 .. MaxDevice /\ writes \in 0 .. MaxWrites /\ faults \in 0 .. MaxFaults
  BY DEF Init
<1> QED  BY <1>3, <1>4, <1>5, <1>6, <1>7 DEF TypeOK

-----------------------------------------------------------------------------
(* What a step of the walk does to the pass, field by field. *)

(* What no step of the walk and of adoption touches. *)
Steady == /\ pass'.full = pass.full /\ pass'.mirror = pass.mirror
          /\ pass'.fetched = pass.fetched
AsBefore == Steady /\ pass'.adopting = pass.adopting /\ pass'.adopted = pass.adopted
Moved == AsBefore /\ pass'.todo = pass.todo /\ pass'.at = None /\ pass'.phase = "walk"

LEMMA VisitedFields ==
  ASSUME NEW s \in Pass
  PROVE  /\ Visited(s) \in Pass
         /\ Visited(s).phase = "walk" /\ Visited(s).at = None /\ Visited(s).stat = None
         /\ Visited(s).full = s.full /\ Visited(s).mirror = s.mirror /\ Visited(s).todo = s.todo
         /\ Visited(s).observed = s.observed /\ Visited(s).held = s.held
         /\ Visited(s).deferred = s.deferred /\ Visited(s).learned = s.learned
         /\ Visited(s).candidates = s.candidates /\ Visited(s).adopting = s.adopting
         /\ Visited(s).adopted = s.adopted /\ Visited(s).fetched = s.fetched
BY DEF Visited, Pass, Phases

LEMMA DeferFields ==
  ASSUME NEW s \in Pass, NEW ids \in SUBSET Ids
  PROVE  /\ Defer(s, ids) \in Pass
         /\ Defer(s, ids).full = s.full /\ Defer(s, ids).mirror = s.mirror
         /\ Defer(s, ids).todo = s.todo /\ Defer(s, ids).observed = s.observed
         /\ Defer(s, ids).held = s.held \cup ids /\ Defer(s, ids).deferred
         /\ Defer(s, ids).learned = s.learned /\ Defer(s, ids).candidates = s.candidates
         /\ Defer(s, ids).adopting = s.adopting /\ Defer(s, ids).adopted = s.adopted
         /\ Defer(s, ids).fetched = s.fetched
BY DEF Defer, Pass

LEMMA ListDoes ==
  ASSUME TypeOK, NEW p \in Paths, List(p)
  PROVE  /\ pass' \in Pass /\ AsBefore
         /\ pass.phase = "walk" /\ p \in pass.todo /\ pass'.todo = pass.todo \ {p}
         /\ pass'.observed = pass.observed /\ pass'.held = pass.held
         /\ pass'.deferred = pass.deferred /\ pass'.learned = pass.learned
         /\ pass'.candidates = pass.candidates
         /\ files[p] = None => pass'.at = None /\ pass'.phase = "walk"
         /\ files[p] # None => pass'.at = p /\ pass'.phase = "stat"
<1>1. pass \in Pass
  BY DEF TypeOK
<1>2. \E at \in Paths \cup {None}, phase \in {"walk", "stat"} :
        /\ pass' = [pass EXCEPT !.todo = @ \ {p}, !.at = at, !.phase = phase]
        /\ files[p] = None => at = None /\ phase = "walk"
        /\ files[p] # None => at = p /\ phase = "stat"
  BY DEF List
<1>3. ASSUME NEW at \in Paths \cup {None}, NEW phase \in {"walk", "stat"},
             pass' = [pass EXCEPT !.todo = @ \ {p}, !.at = at, !.phase = phase]
      PROVE  /\ pass' \in Pass /\ AsBefore
             /\ pass'.todo = pass.todo \ {p} /\ pass'.at = at /\ pass'.phase = phase
             /\ pass'.observed = pass.observed /\ pass'.held = pass.held
             /\ pass'.deferred = pass.deferred /\ pass'.learned = pass.learned
             /\ pass'.candidates = pass.candidates
  BY <1>1, <1>3 DEF Pass, Phases, AsBefore, Steady
<1> QED  BY <1>2, <1>3 DEF List

(* The five ways a visit's stat goes on. *)
StatEnds(p) ==
  /\ Moved /\ pass'.observed = pass.observed /\ pass'.candidates = pass.candidates
  /\ pass.deferred => pass'.deferred
StatGone(p) ==
  /\ StatEnds(p) /\ pass'.deferred /\ pass'.held = pass.held \cup Entry(p)
  /\ pass'.learned = pass.learned /\ (files[p] # None => Entry(p) # {})
StatTrusts(p) ==
  /\ StatEnds(p) /\ files[p] # None /\ pass'.held = pass.held \cup Entry(p)
  /\ pass'.learned = pass.learned /\ \E i \in Entry(p) : Trusts(i, files[p])
StatPasses(p) ==
  /\ StatEnds(p) /\ files[p] # None /\ pass'.held = pass.held
  /\ pass'.learned = [pass.learned EXCEPT ![p] = files[p].ver]
  /\ ~pass.full /\ Entry(p) = {}
StatReads(p) ==
  /\ AsBefore /\ files[p] # None /\ pass'.phase = "read" /\ pass'.at = p
  /\ pass'.stat = files[p].ver /\ pass'.todo = pass.todo
  /\ pass'.observed = pass.observed /\ pass'.held = pass.held
  /\ pass'.deferred = pass.deferred /\ pass'.learned = pass.learned
  /\ pass'.candidates = pass.candidates

LEMMA StatDoes ==
  ASSUME TypeOK, Stat, NEW p \in Paths, pass.at = p
  PROVE  /\ pass' \in Pass
         /\ StatGone(p) \/ StatTrusts(p) \/ StatPasses(p) \/ StatReads(p)
<1> DEFINE f == files[p]
           trusted == \E i \in Entry(p) : Trusts(i, f)
           rejected == ~pass.full /\ Entry(p) = {} /\ remembered[p] = f.ver
<1>1. pass \in Pass /\ Entry(p) \subseteq Ids /\ (f # None => f \in File)
  BY EntryIsOne, SomeIsTyped DEF TypeOK
<1>2. \/ f = None /\ pass' = Visited(Defer(pass, Entry(p)))
      \/ f # None /\ trusted /\ pass' = Visited([pass EXCEPT !.held = @ \cup Entry(p)])
      \/ f # None /\ rejected
           /\ pass' = Visited([pass EXCEPT !.learned[p] = f.ver, !.deferred = @ \/ ~f.settled])
      \/ f # None /\ Entry(p) # {} /\ pass' = Visited(DeferSettling(pass, Entry(p)))
      \/ f # None /\ pass' = [pass EXCEPT !.phase = "read", !.stat = f.ver, !.settling = ~f.settled]
  BY DEF Stat
<1>3. CASE f = None /\ pass' = Visited(Defer(pass, Entry(p)))
  <2>1. Defer(pass, Entry(p)) \in Pass
    BY <1>1, DeferFields
  <2> QED  BY <1>1, <1>3, <2>1, DeferFields, VisitedFields DEF StatGone, StatEnds, Moved, AsBefore, Steady
<1>4. CASE f # None /\ trusted /\ pass' = Visited([pass EXCEPT !.held = @ \cup Entry(p)])
  <2> DEFINE s == [pass EXCEPT !.held = @ \cup Entry(p)]
  <2>1. /\ s \in Pass /\ s.full = pass.full /\ s.mirror = pass.mirror /\ s.todo = pass.todo
        /\ s.observed = pass.observed /\ s.held = pass.held \cup Entry(p)
        /\ s.deferred = pass.deferred /\ s.learned = pass.learned /\ s.candidates = pass.candidates
        /\ s.adopting = pass.adopting /\ s.adopted = pass.adopted /\ s.fetched = pass.fetched
    BY <1>1 DEF Pass
  <2> HIDE DEF s
  <2>2. pass' = Visited(s)
    BY <1>4 DEF s
  <2>3. pass' \in Pass /\ StatEnds(p) /\ pass'.held = pass.held \cup Entry(p)
        /\ pass'.learned = pass.learned
    BY <2>1, <2>2, VisitedFields DEF StatEnds, Moved, AsBefore, Steady
  <2> QED  BY <1>4, <2>3 DEF StatTrusts
<1>5. CASE f # None /\ rejected
             /\ pass' = Visited([pass EXCEPT !.learned[p] = f.ver, !.deferred = @ \/ ~f.settled])
  <2>1. PICK b \in BOOLEAN : b = ~f.settled
    OBVIOUS
  <2>a. pass.deferred \in BOOLEAN /\ pass.learned \in Stats /\ f.ver \in Versions
    BY <1>1, <1>5, PassFields DEF File
  <2> DEFINE s == [pass EXCEPT !.learned = [pass.learned EXCEPT ![p] = f.ver],
                               !.deferred = pass.deferred \/ b]
  <2>b. [pass.learned EXCEPT ![p] = f.ver] \in Stats /\ (pass.deferred \/ b) \in BOOLEAN
    BY <2>a DEF Stats
  <2>3. pass' = Visited(s)
    BY <1>5, <2>1
  <2>c. PICK l \in Stats, d \in BOOLEAN : /\ l = [pass.learned EXCEPT ![p] = f.ver]
                                          /\ d = (pass.deferred \/ b)
    BY <2>b
  <2>d. s = [pass EXCEPT !.learned = l, !.deferred = d]
    BY <2>c
  <2>4. /\ s \in Pass /\ s.full = pass.full /\ s.mirror = pass.mirror /\ s.todo = pass.todo
        /\ s.observed = pass.observed /\ s.held = pass.held /\ (pass.deferred => s.deferred)
        /\ s.learned = [pass.learned EXCEPT ![p] = f.ver] /\ s.candidates = pass.candidates
        /\ s.adopting = pass.adopting /\ s.adopted = pass.adopted /\ s.fetched = pass.fetched
    <3> HIDE DEF s
    <3>1. /\ s \in Pass /\ s.full = pass.full /\ s.mirror = pass.mirror /\ s.todo = pass.todo
          /\ s.observed = pass.observed /\ s.held = pass.held /\ s.deferred = d
          /\ s.learned = l /\ s.candidates = pass.candidates
          /\ s.adopting = pass.adopting /\ s.adopted = pass.adopted /\ s.fetched = pass.fetched
      BY <1>1, <2>d DEF Pass
    <3>2. pass.deferred => d
      BY <2>c
    <3> QED  BY <2>c, <3>1, <3>2
  <2> HIDE DEF s
  <2> QED  BY <1>5, <2>3, <2>4, VisitedFields DEF StatPasses, StatEnds, Moved, AsBefore, Steady
<1>6. CASE f # None /\ Entry(p) # {} /\ pass' = Visited(DeferSettling(pass, Entry(p)))
  <2>1. DeferSettling(pass, Entry(p)) = Defer(pass, Entry(p)) /\ Defer(pass, Entry(p)) \in Pass
    BY <1>1, DeferFields DEF DeferSettling
  <2> QED  BY <1>1, <1>6, <2>1, DeferFields, VisitedFields DEF StatGone, StatEnds, Moved, AsBefore, Steady
<1>7. CASE f # None /\ pass' = [pass EXCEPT !.phase = "read", !.stat = f.ver, !.settling = ~f.settled]
  <2>1. f.ver \in Versions /\ (~f.settled) \in BOOLEAN
    BY <1>1, <1>7 DEF File
  <2>2. ASSUME NEW v \in Versions, NEW b \in BOOLEAN,
               pass' = [pass EXCEPT !.phase = "read", !.stat = v, !.settling = b]
        PROVE  /\ pass' \in Pass /\ AsBefore /\ pass'.phase = "read" /\ pass'.at = pass.at
               /\ pass'.stat = v /\ pass'.todo = pass.todo
               /\ pass'.observed = pass.observed /\ pass'.held = pass.held
               /\ pass'.deferred = pass.deferred /\ pass'.learned = pass.learned
               /\ pass'.candidates = pass.candidates
    BY <1>1, <2>2 DEF Pass, Phases, AsBefore, Steady
  <2>3. /\ pass' \in Pass /\ StatReads(p)
    BY <1>7, <2>1, <2>2 DEF StatReads
  <2> QED  BY <2>3
<1> QED  BY <1>2, <1>3, <1>4, <1>5, <1>6, <1>7

(* What a reading says is of the file that was read, and says it once. *)
LEMMA ObservesOnce ==
  ASSUME TypeOK, NEW p \in Paths, pass.at = p, files[p] # None, pass.stat \in Versions,
         NEW seen, seen = Observes(files[p], Entry(p))
  PROVE  /\ seen \subseteq Observation /\ IsFiniteSet(seen)
         /\ \A a, b \in seen : a = b
         /\ \A ob \in seen :
               /\ ob.path = p /\ ob.hash = files[p].ver /\ ob.stat = pass.stat /\ ob.id \in Known
               /\ ob.derived => Entry(p) = {ob.id}
               /\ ~ob.derived => /\ files[p].id = ob.id /\ files[p].content # "locked"
                                 /\ ob.state = IF files[p].content = "good" THEN "ok" ELSE "unparsed"
         /\ seen = {} => Entry(p) = {} /\ (files[p].content = "locked" \/ files[p].id \notin Known)
         /\ files[p].id \in Known /\ files[p].content # "locked"
              => \E ob \in seen : ob.id = files[p].id /\ ~ob.derived
         /\ \A i \in Entry(p) : files[p].content = "locked" => \E ob \in seen : ob.id = i
<1> DEFINE f == files[p]
<1>1. /\ f \in File /\ Entry(p) \subseteq Known /\ Known \subseteq Ids
      /\ Entry(p) = {} \/ \E i \in Known : Entry(p) = {i}
  BY EntryIsOne, SomeIsTyped DEF Known
<1>2. /\ f.ver \in Versions /\ f.content \in Content
  BY <1>1 DEF File
<1> HIDE DEF f
<1> DEFINE One(i, state, derived) == [id |-> i, path |-> p, state |-> state, hash |-> f.ver,
                                      stat |-> pass.stat, derived |-> derived]
           Fits(o) == /\ o \in Observation /\ o.id \in Known
                      /\ o.path = p /\ o.hash = f.ver /\ o.stat = pass.stat
                      /\ o.derived => Entry(p) = {o.id}
                      /\ ~o.derived => /\ f.id = o.id /\ f.content # "locked"
                                       /\ o.state = IF f.content = "good" THEN "ok" ELSE "unparsed"
                      /\ f.id \in Known /\ f.content # "locked" => o.id = f.id /\ ~o.derived
                      /\ f.content = "locked" => o.derived
<1>3. ASSUME NEW i \in Known, NEW state \in {"ok", "unparsed", "unreadable"}, NEW derived \in BOOLEAN
      PROVE  Sees(i, state, derived) = {One(i, state, derived)} /\ One(i, state, derived) \in Observation
  <2>1. Sees(i, state, derived) = {One(i, state, derived)}
    BY DEF Sees, f
  <2>2. One(i, state, derived) \in Observation
    BY <1>1, <1>2 DEF Observation
  <2> QED  BY <2>1, <2>2
<1>4. ASSUME NEW state \in {"ok", "unparsed", "unreadable"}, NEW derived \in BOOLEAN, NEW i \in Known,
             Entry(p) = {i}
      PROVE  UNION {Sees(j, state, derived) : j \in Entry(p)} = {One(i, state, derived)}
  <2>1. UNION {Sees(j, state, derived) : j \in Entry(p)} = Sees(i, state, derived)
    BY <1>4
  <2> QED  BY ZenonT(60), <2>1, <1>3
<1>5. ASSUME NEW state \in {"ok", "unparsed", "unreadable"}, NEW derived \in BOOLEAN, Entry(p) = {}
      PROVE  UNION {Sees(j, state, derived) : j \in Entry(p)} = {}
  BY <1>5
<1>9. ASSUME NEW o, seen = {o}, Fits(o)
      PROVE  /\ seen \subseteq Observation /\ IsFiniteSet(seen)
             /\ \A a, b \in seen : a = b
             /\ \A ob \in seen :
                   /\ ob.path = p /\ ob.hash = files[p].ver /\ ob.stat = pass.stat /\ ob.id \in Known
                   /\ ob.derived => Entry(p) = {ob.id}
                   /\ ~ob.derived => /\ files[p].id = ob.id /\ files[p].content # "locked"
                                     /\ ob.state = IF files[p].content = "good" THEN "ok" ELSE "unparsed"
             /\ seen = {} => Entry(p) = {} /\ (files[p].content = "locked" \/ files[p].id \notin Known)
             /\ files[p].id \in Known /\ files[p].content # "locked"
                  => \E ob \in seen : ob.id = files[p].id /\ ~ob.derived
             /\ \A i \in Entry(p) : files[p].content = "locked" => \E ob \in seen : ob.id = i
  <2>1. IsFiniteSet(seen) /\ seen \subseteq Observation
    <3>1. IsFiniteSet({o})
      BY FS_Singleton
    <3> QED  BY <1>9, <3>1
  <2>2. \A i \in Entry(p) : files[p].content = "locked" => \E ob \in seen : ob.id = i
    BY <1>9 DEF f
  <2> QED  BY <1>9, <2>1, <2>2 DEF f
<1>e. ASSUME seen = {}, Entry(p) = {}, f.content = "locked" \/ f.id \notin Known
      PROVE  /\ seen \subseteq Observation /\ IsFiniteSet(seen)
             /\ \A a, b \in seen : a = b
             /\ \A ob \in seen :
                   /\ ob.path = p /\ ob.hash = files[p].ver /\ ob.stat = pass.stat /\ ob.id \in Known
                   /\ ob.derived => Entry(p) = {ob.id}
                   /\ ~ob.derived => /\ files[p].id = ob.id /\ files[p].content # "locked"
                                     /\ ob.state = IF files[p].content = "good" THEN "ok" ELSE "unparsed"
             /\ seen = {} => Entry(p) = {} /\ (files[p].content = "locked" \/ files[p].id \notin Known)
             /\ files[p].id \in Known /\ files[p].content # "locked"
                  => \E ob \in seen : ob.id = files[p].id /\ ~ob.derived
             /\ \A i \in Entry(p) : files[p].content = "locked" => \E ob \in seen : ob.id = i
  BY <1>e, FS_EmptySet DEF f
<1>6. CASE f.content = "locked"
  <2>1. seen = UNION {Sees(i, "unreadable", TRUE) : i \in Entry(p)}
    BY <1>6 DEF Observes, f
  <2>2. CASE Entry(p) = {}
    BY <2>1, <2>2, <1>5, <1>6, <1>e
  <2>3. ASSUME NEW i \in Known, Entry(p) = {i}
        PROVE  seen = {One(i, "unreadable", TRUE)} /\ Fits(One(i, "unreadable", TRUE))
    <3>1. seen = {One(i, "unreadable", TRUE)}
      BY <2>1, <2>3, <1>4
    <3>2. One(i, "unreadable", TRUE) \in Observation
      BY <1>3
    <3> QED  BY <3>1, <3>2, <2>3, <1>6
  <2> HIDE DEF Fits, One
  <2> QED  BY <1>1, <2>2, <2>3, <1>9
<1>7. CASE f.content # "locked" /\ f.id \in Known
  <2>1. PICK state \in {"ok", "unparsed", "unreadable"} : state = IF f.content = "good" THEN "ok" ELSE "unparsed"
    OBVIOUS
  <2>2. seen = Sees(f.id, state, FALSE)
    BY <1>7, <2>1 DEF Observes, f
  <2>3. seen = {One(f.id, state, FALSE)} /\ One(f.id, state, FALSE) \in Observation
    BY <2>2, <1>3, <1>7
  <2>4. Fits(One(f.id, state, FALSE))
    BY <2>1, <2>3, <1>7
  <2> HIDE DEF Fits, One
  <2> QED  BY <2>3, <2>4, <1>9
<1>8. CASE f.content # "locked" /\ f.id \notin Known
  <2>1. seen = UNION {Sees(i, "unparsed", TRUE) : i \in Entry(p)}
    BY <1>8 DEF Observes, f
  <2>2. CASE Entry(p) = {}
    BY <2>1, <2>2, <1>5, <1>8, <1>e
  <2>3. ASSUME NEW i \in Known, Entry(p) = {i}
        PROVE  seen = {One(i, "unparsed", TRUE)} /\ Fits(One(i, "unparsed", TRUE))
    <3>1. seen = {One(i, "unparsed", TRUE)}
      BY <2>1, <2>3, <1>4
    <3>2. One(i, "unparsed", TRUE) \in Observation
      BY <1>3
    <3> QED  BY <3>1, <3>2, <2>3, <1>8
  <2> HIDE DEF Fits, One
  <2> QED  BY <1>1, <2>2, <2>3, <1>9
<1> QED  BY <1>6, <1>7, <1>8

(* The five ways a visit's reading ends. *)
ReadEnds(p) ==
  /\ Moved /\ (pass.deferred => pass'.deferred) /\ pass.phase = "read"
ReadGone(p) ==
  /\ ReadEnds(p) /\ files[p] = None /\ pass'.deferred /\ pass'.held = pass.held \cup Entry(p)
  /\ pass'.observed = pass.observed /\ pass'.learned = pass.learned
  /\ pass'.candidates = pass.candidates
ReadSees(p) ==
  /\ ReadEnds(p) /\ files[p] # None /\ pass'.held = pass.held
  /\ pass'.observed = pass.observed \cup Observes(files[p], Entry(p))
  /\ pass'.learned = pass.learned /\ pass'.candidates = pass.candidates
  /\ pass'.deferred = pass.deferred /\ Observes(files[p], Entry(p)) # {}
ReadLearns(p) ==
  /\ ReadEnds(p) /\ files[p] # None /\ Observes(files[p], Entry(p)) = {}
  /\ pass'.held = pass.held /\ pass'.observed = pass.observed
  /\ pass'.learned \in Stats /\ \A q \in Paths \ {p} : pass'.learned[q] = pass.learned[q]
  /\ pass'.candidates \in {pass.candidates,
                            pass.candidates \cup {[path |-> p, ver |-> files[p].ver, stat |-> pass.stat]}}
  /\ files[p].content = "locked" => pass'.deferred /\ pass'.candidates = pass.candidates
  /\ pass'.candidates = pass.candidates \/ files[p].content = "good"

LEMMA ReadDoes ==
  ASSUME TypeOK, Read, NEW p \in Paths, pass.at = p, pass.stat # None
  PROVE  /\ pass' \in Pass
         /\ ReadGone(p) \/ ReadSees(p) \/ ReadLearns(p)
<1> DEFINE f == files[p]
           seen == IF f = None THEN {} ELSE Observes(f, Entry(p))
           c == [path |-> p, ver |-> f.ver, stat |-> pass.stat]
<1>1. /\ pass \in Pass /\ Entry(p) \subseteq Ids /\ (f # None => f \in File /\ f.ver \in Versions)
      /\ pass.stat \in Versions /\ pass.phase = "read"
  <2>1. f # None => f \in File
    BY SomeIsTyped
  <2>2. f # None => f.ver \in Versions
    BY <2>1 DEF File
  <2>3. pass \in Pass
    BY DEF TypeOK
  <2> QED  BY <2>1, <2>2, <2>3, EntryIsOne, PassFields DEF Read
<1>2. \/ f = None /\ pass' = Visited(Defer(pass, Entry(p)))
      \/ f # None /\ seen # {} /\ pass' = Visited([pass EXCEPT !.observed = @ \cup seen])
      \/ f # None /\ seen = {} /\ pass' = Visited(Defer(pass, {}))
      \/ f # None /\ seen = {} /\ f.content # "locked"
            /\ pass' = Visited([pass EXCEPT !.learned[p] = pass.stat])
      \/ f # None /\ seen = {} /\ f.content = "good"
            /\ pass' = Visited([pass EXCEPT !.candidates = @ \cup {c}])
  <2>0. f # None => f.content \in Content
    BY <1>1 DEF File
  <2>1. CASE f = None
    BY <2>1 DEF Read
  <2>2. CASE f # None /\ seen # {}
    BY <2>2 DEF Read
  <2>3. CASE f # None /\ seen = {} /\ (pass.settling \/ f.content = "locked")
    BY <2>3 DEF Read
  <2>4. CASE f # None /\ seen = {} /\ ~(pass.settling \/ f.content = "locked") /\ f.content = "broken"
    BY <2>4 DEF Read
  <2>5. CASE f # None /\ seen = {} /\ ~(pass.settling \/ f.content = "locked") /\ f.content # "broken"
    BY <2>0, <2>5 DEF Read, Content
  <2> QED  BY <2>1, <2>2, <2>3, <2>4, <2>5
<1>3. CASE f = None /\ pass' = Visited(Defer(pass, Entry(p)))
  <2>1. Defer(pass, Entry(p)) \in Pass
    BY <1>1, DeferFields
  <2> QED  BY <1>1, <1>3, <2>1, DeferFields, VisitedFields DEF ReadGone, ReadEnds, Moved, AsBefore, Steady
<1>4. CASE f # None /\ seen # {} /\ pass' = Visited([pass EXCEPT !.observed = @ \cup seen])
  <2> DEFINE s == [pass EXCEPT !.observed = @ \cup seen]
  <2>0. seen = Observes(files[p], Entry(p)) /\ seen \subseteq Observation
    BY <1>1, <1>4, ObservesOnce
  <2>1. /\ s \in Pass /\ s.full = pass.full /\ s.mirror = pass.mirror /\ s.todo = pass.todo
        /\ s.observed = pass.observed \cup seen /\ s.held = pass.held
        /\ s.deferred = pass.deferred /\ s.learned = pass.learned /\ s.candidates = pass.candidates
        /\ s.adopting = pass.adopting /\ s.adopted = pass.adopted /\ s.fetched = pass.fetched
    <3> HIDE DEF seen
    <3> QED  BY <1>1, <2>0 DEF Pass
  <2> HIDE DEF s
  <2>2. pass' = Visited(s)
    BY <1>4 DEF s
  <2>3. pass' \in Pass /\ ReadEnds(p) /\ pass'.held = pass.held /\ pass'.deferred = pass.deferred
        /\ pass'.observed = pass.observed \cup seen
        /\ pass'.learned = pass.learned /\ pass'.candidates = pass.candidates
    BY <1>1, <2>1, <2>2, VisitedFields DEF ReadEnds, Moved, AsBefore, Steady
  <2> QED  BY <1>4, <2>0, <2>3 DEF ReadSees
<1>5. CASE f # None /\ seen = {} /\ pass' = Visited(Defer(pass, {}))
  <2>0. Observes(files[p], Entry(p)) = {}
    BY <1>5
  <2>1. Defer(pass, {}) \in Pass /\ {} \in SUBSET Ids
    BY <1>1, DeferFields
  <2>s. PICK s \in Pass : s = Defer(pass, {})
    BY <2>1
  <2>t. pass' = Visited(s) /\ s.held = pass.held
    <3>1. s.held = pass.held \cup {}
      BY ZenonT(60), <1>1, <2>s, <2>1, DeferFields
    <3> QED  BY <1>5, <2>s, <3>1
  <2>2. pass' \in Pass /\ ReadEnds(p) /\ pass'.held = pass.held /\ pass'.deferred
        /\ pass'.observed = pass.observed
        /\ pass'.learned = pass.learned /\ pass'.candidates = pass.candidates
    BY <1>1, <2>s, <2>t, <2>1, DeferFields, VisitedFields DEF ReadEnds, Moved, AsBefore, Steady
  <2>3. pass'.learned \in Stats
    BY <2>2, PassFields
  <2> QED  BY <1>5, <2>0, <2>2, <2>3 DEF ReadLearns
<1>6. CASE f # None /\ seen = {} /\ f.content # "locked"
             /\ pass' = Visited([pass EXCEPT !.learned[p] = pass.stat])
  <2>0. Observes(files[p], Entry(p)) = {}
    BY <1>6
  <2> DEFINE l == [pass.learned EXCEPT ![p] = pass.stat]
             s == [pass EXCEPT !.learned = l]
  <2>a. pass.learned \in Stats
    BY <1>1, PassFields
  <2>b. l \in Stats /\ \A q \in Paths \ {p} : l[q] = pass.learned[q]
    BY <1>1, <2>a DEF Stats
  <2>2. pass' = Visited(s)
    BY <1>6
  <2> HIDE DEF l
  <2>1. /\ s \in Pass /\ s.full = pass.full /\ s.mirror = pass.mirror /\ s.todo = pass.todo
        /\ s.observed = pass.observed /\ s.held = pass.held
        /\ s.deferred = pass.deferred /\ s.learned = l /\ s.candidates = pass.candidates
        /\ s.adopting = pass.adopting /\ s.adopted = pass.adopted /\ s.fetched = pass.fetched
    BY <1>1, <2>b DEF Pass
  <2> HIDE DEF s
  <2>3. pass' \in Pass /\ ReadEnds(p) /\ pass'.held = pass.held /\ pass'.deferred = pass.deferred
        /\ pass'.observed = pass.observed
        /\ pass'.learned = l /\ pass'.candidates = pass.candidates
    BY <1>1, <2>1, <2>2, VisitedFields DEF ReadEnds, Moved, AsBefore, Steady
  <2> QED  BY <1>6, <2>0, <2>b, <2>3 DEF ReadLearns
<1>7. CASE f # None /\ seen = {} /\ f.content = "good"
             /\ pass' = Visited([pass EXCEPT !.candidates = @ \cup {c}])
  <2>0. Observes(files[p], Entry(p)) = {}
    BY <1>7
  <2> DEFINE s == [pass EXCEPT !.candidates = @ \cup {c}]
  <2>a. c \in Candidate
    BY <1>1, <1>7 DEF Candidate
  <2>1. /\ s \in Pass /\ s.full = pass.full /\ s.mirror = pass.mirror /\ s.todo = pass.todo
        /\ s.observed = pass.observed /\ s.held = pass.held
        /\ s.deferred = pass.deferred /\ s.learned = pass.learned
        /\ s.candidates = pass.candidates \cup {c}
        /\ s.adopting = pass.adopting /\ s.adopted = pass.adopted /\ s.fetched = pass.fetched
    <3> HIDE DEF c
    <3> QED  BY <1>1, <2>a DEF Pass
  <2>2. pass' = Visited(s)
    BY <1>7
  <2> HIDE DEF s, c
  <2>3. pass' \in Pass /\ ReadEnds(p) /\ pass'.held = pass.held /\ pass'.deferred = pass.deferred
        /\ pass'.observed = pass.observed
        /\ pass'.learned = pass.learned /\ pass'.candidates = pass.candidates \cup {c}
    BY <1>1, <2>1, <2>2, VisitedFields DEF ReadEnds, Moved, AsBefore, Steady
  <2>4. pass'.learned \in Stats
    BY <2>3, PassFields
  <2> QED  BY <1>7, <2>0, <2>3, <2>4 DEF ReadLearns, c
<1> QED  BY <1>2, <1>3, <1>4, <1>5, <1>6, <1>7

-----------------------------------------------------------------------------
(* What begins, ends and adopts, field by field. *)

Blank(s) ==
  /\ s.mirror = NoRows /\ s.observed = {} /\ s.held = {} /\ s.candidates = {}
  /\ s.learned = NoPaths /\ ~s.deferred /\ s.todo = {} /\ s.at = None /\ s.adopting = None
  /\ s.stat = None

LEMMA RestIsBlank == Rest \in Pass /\ Blank(Rest) /\ Rest.phase = "rest"
<1>1. NoRows \in [Ids -> Row \cup {None}] /\ NoPaths \in Stats
  BY DEF NoRows, NoPaths, Stats
<1>2. 0 \in 0 .. AdoptionsPerPass - 1
  OBVIOUS
<1> QED  BY <1>1, <1>2 DEF Rest, Pass, Phases, Blank

LEMMA BeginDoes ==
  ASSUME Begin
  PROVE  pass' \in Pass /\ Blank(pass') /\ pass'.phase = "mirror"
<1>1. PICK full \in BOOLEAN : pass' = [Rest EXCEPT !.phase = "mirror", !.full = full]
  BY DEF Begin
<1>2. Rest \in Pass /\ Blank(Rest)
  BY RestIsBlank
<1> HIDE DEF Rest
<1> QED  BY <1>1, <1>2 DEF Pass, Phases, Blank

LEMMA ReadMirrorDoes ==
  ASSUME TypeOK, ReadMirror
  PROVE  /\ pass' \in Pass /\ pass'.phase = "walk" /\ pass'.mirror = rows /\ pass'.todo = Paths
         /\ pass'.at = pass.at /\ pass'.observed = pass.observed /\ pass'.held = pass.held
         /\ pass'.candidates = pass.candidates /\ pass'.learned = pass.learned
         /\ pass'.deferred = pass.deferred /\ pass'.adopting = pass.adopting
<1>1. pass \in Pass /\ rows \in [Ids -> Row \cup {None}]
  BY DEF TypeOK
<1>2. pass' = [pass EXCEPT !.phase = "walk", !.mirror = rows, !.todo = Paths]
  BY DEF ReadMirror
<1> QED  BY <1>1, <1>2 DEF Pass, Phases

LEMMA WalkEndsDoes ==
  ASSUME TypeOK, WalkEnds
  PROVE  /\ pass' \in Pass /\ pass'.phase = "adopt" /\ pass.phase = "walk" /\ pass.todo = {}
         /\ AsBefore /\ pass'.todo = pass.todo
         /\ pass'.at = pass.at /\ pass'.observed = pass.observed /\ pass'.held = pass.held
         /\ pass'.candidates = pass.candidates /\ pass'.learned = NoPaths
         /\ pass'.deferred = pass.deferred /\ remembered' = pass.learned /\ remembered' \in Stats
<1>1. pass \in Pass /\ NoPaths \in Stats
  BY DEF TypeOK, NoPaths, Stats
<1>2. pass' = [pass EXCEPT !.phase = "adopt", !.learned = NoPaths]
  BY DEF WalkEnds
<1>3. /\ pass' \in Pass /\ pass'.phase = "adopt"
      /\ AsBefore /\ pass'.todo = pass.todo
      /\ pass'.at = pass.at /\ pass'.observed = pass.observed /\ pass'.held = pass.held
      /\ pass'.candidates = pass.candidates /\ pass'.learned = NoPaths
      /\ pass'.deferred = pass.deferred
  BY <1>1, <1>2 DEF Pass, Phases, AsBefore, Steady
<1> QED  BY <1>1, <1>3, PassFields DEF WalkEnds

LEMMA FetchDoes ==
  ASSUME TypeOK, Fetch
  PROVE  /\ pass' \in Pass /\ pass'.phase = "apply" /\ pass.phase = "adopt"
         /\ pass'.full = pass.full /\ pass'.mirror = pass.mirror /\ pass'.fetched = rows
         /\ pass.adopting = None /\ pass'.adopting = None
         /\ pass'.todo = pass.todo
         /\ pass'.at = pass.at /\ pass'.observed = pass.observed /\ pass'.held = pass.held
         /\ pass.candidates = {} /\ pass'.candidates = {} /\ pass'.learned = pass.learned
         /\ pass'.deferred = pass.deferred
<1>1. pass \in Pass /\ rows \in [Ids -> Row \cup {None}]
  BY DEF TypeOK
<1>2. pass' = [pass EXCEPT !.phase = "apply", !.fetched = rows]
  BY DEF Fetch
<1>3. /\ pass' \in Pass /\ pass'.phase = "apply" /\ pass'.fetched = rows
      /\ pass'.full = pass.full /\ pass'.mirror = pass.mirror
      /\ pass'.adopting = pass.adopting
      /\ pass'.todo = pass.todo
      /\ pass'.at = pass.at /\ pass'.observed = pass.observed /\ pass'.held = pass.held
      /\ pass'.candidates = pass.candidates /\ pass'.learned = pass.learned
      /\ pass'.deferred = pass.deferred
  BY <1>1, <1>2 DEF Pass, Phases
<1> QED  BY <1>3 DEF Fetch

(* Every step of an adoption. *)
Adopts ==
  /\ Steady /\ pass'.phase = pass.phase /\ pass'.todo = pass.todo /\ pass'.at = pass.at
  /\ pass'.observed = pass.observed /\ pass'.held = pass.held /\ pass'.deferred = pass.deferred
  /\ pass'.learned = pass.learned /\ pass'.candidates \subseteq pass.candidates

LEMMA DoneFields ==
  ASSUME TypeOK, NEW c, pass' = Done(c)
  PROVE  pass' \in Pass /\ Adopts /\ pass'.adopting = None /\ pass'.stat = pass.stat
<1>1. pass \in Pass
  BY DEF TypeOK
<1>2. PICK left \in SUBSET Candidate : left = pass.candidates \ {c}
  BY <1>1, PassFields
<1>3. pass' = [pass EXCEPT !.candidates = left, !.adopting = None]
  BY <1>2 DEF Done
<1>4. /\ pass' \in Pass /\ pass'.candidates = left /\ pass'.adopting = None
      /\ pass'.full = pass.full /\ pass'.mirror = pass.mirror /\ pass'.fetched = pass.fetched
      /\ pass'.phase = pass.phase /\ pass'.todo = pass.todo /\ pass'.at = pass.at
      /\ pass'.stat = pass.stat /\ pass'.observed = pass.observed /\ pass'.held = pass.held
      /\ pass'.deferred = pass.deferred /\ pass'.learned = pass.learned
  BY ZenonT(60), <1>1, <1>3 DEF Pass
<1> QED  BY <1>2, <1>4 DEF Adopts, Steady

LEMMA AdoptingFields ==
  ASSUME TypeOK, NEW a \in Adoption, pass' = [pass EXCEPT !.adopting = a]
  PROVE  /\ pass' \in Pass /\ Adopts /\ pass'.adopting = a /\ pass'.stat = pass.stat
         /\ pass'.candidates = pass.candidates
<1>1. pass \in Pass
  BY DEF TypeOK
<1> QED  BY <1>1 DEF Pass, Adopts, Steady

LEMMA RemembersOne ==
  ASSUME TypeOK, NEW p \in Paths, NEW v \in Versions, remembered' = [remembered EXCEPT ![p] = v]
  PROVE  remembered' \in Stats /\ \A q \in Paths \ {p} : remembered'[q] = remembered[q]
BY DEF TypeOK, Stats

LEMMA AdoptCheckDoes ==
  ASSUME TypeOK, NEW c \in pass.candidates, AdoptCheck(c)
  PROVE  /\ pass' \in Pass /\ Adopts /\ pass.phase = "adopt" /\ pass'.stat = pass.stat
         /\ c \in Candidate
         /\ \/ pass'.adopting = None
            \/ /\ StillAsRead(c) /\ pass'.candidates = pass.candidates
               /\ \E i \in Ids : /\ rows[i] = None /\ files[c.path].id \in {NoId, i}
                                 /\ pass'.adopting = [cand |-> c, id |-> i, looked |-> FALSE, ver |-> None]
         /\ remembered' \in Stats
         /\ \A q \in Paths \ {c.path} : remembered'[q] = remembered[q]
<1> DEFINE f == files[c.path]
           ids == IF f = None THEN {} ELSE IF f.id = NoId THEN NewIds ELSE {f.id}
<1>1. c \in Candidate /\ c.path \in Paths /\ c.stat \in Versions /\ remembered \in Stats
  <2>1. pass \in Pass /\ remembered \in Stats
    BY DEF TypeOK
  <2> QED  BY <2>1, PassFields DEF Candidate
<1>2. ids \subseteq Ids
  <2>1. f # None => f \in File
    BY <1>1, SomeIsTyped
  <2>2. f # None /\ f.id # NoId => f.id \in Ids
    BY <2>1 DEF File
  <2> QED  BY <2>2 DEF NewIds
<1>3. \/ pass' = Done(c) /\ UNCHANGED remembered
      \/ pass' = Done(c) /\ remembered' = [remembered EXCEPT ![c.path] = c.stat]
      \/ \E i \in ids : /\ rows[i] = None /\ UNCHANGED remembered /\ StillAsRead(c)
                        /\ pass' = [pass EXCEPT !.adopting = [cand |-> c, id |-> i, looked |-> FALSE, ver |-> None]]
  BY Zenon DEF AdoptCheck
<1>4. CASE pass' = Done(c) /\ UNCHANGED remembered
  BY <1>1, <1>4, DoneFields DEF AdoptCheck
<1>5. CASE pass' = Done(c) /\ remembered' = [remembered EXCEPT ![c.path] = c.stat]
  BY <1>1, <1>5, DoneFields, RemembersOne DEF AdoptCheck
<1>6. ASSUME NEW i \in ids, rows[i] = None, UNCHANGED remembered, StillAsRead(c),
             pass' = [pass EXCEPT !.adopting = [cand |-> c, id |-> i, looked |-> FALSE, ver |-> None]]
      PROVE  /\ pass' \in Pass /\ Adopts /\ pass'.stat = pass.stat
             /\ pass'.adopting = [cand |-> c, id |-> i, looked |-> FALSE, ver |-> None] /\ i \in Ids
             /\ pass'.candidates = pass.candidates /\ files[c.path].id \in {NoId, i}
  <2>1. PICK a \in Adoption : a = [cand |-> c, id |-> i, looked |-> FALSE, ver |-> None]
    BY <1>1, <1>2 DEF Adoption
  <2> QED  BY <1>2, <1>6, <2>1, AdoptingFields
<1> QED  BY <1>1, <1>3, <1>4, <1>5, <1>6 DEF AdoptCheck

LEMMA AdoptingIsTyped ==
  ASSUME TypeOK, pass.adopting # None
  PROVE  /\ pass.adopting \in Adoption /\ pass.adopting.cand \in Candidate
         /\ pass.adopting.cand.path \in Paths /\ pass.adopting.cand.stat \in Versions
         /\ pass.adopting.id \in Ids /\ pass.adopting.ver \in Versions \cup {None}
<1>1. pass.adopting \in Adoption
  BY SomeIsTyped
<1>2. pass.adopting.cand \in Candidate /\ pass.adopting.id \in Ids
      /\ pass.adopting.ver \in Versions \cup {None}
  BY <1>1 DEF Adoption
<1> QED  BY <1>1, <1>2 DEF Candidate

LEMMA AdoptLookDoes ==
  ASSUME TypeOK, AdoptLook
  PROVE  /\ pass' \in Pass /\ Adopts /\ pass.adopting # None /\ pass'.stat = pass.stat
         /\ meddled' = FALSE /\ ~pass.adopting.looked
         /\ pass'.adopting # None =>
               /\ pass'.adopting.cand = pass.adopting.cand /\ pass'.adopting.id = pass.adopting.id
               /\ StillAsRead(pass.adopting.cand) /\ pass'.adopting.looked
               /\ pass'.candidates = pass.candidates
               /\ pass'.adopting.ver # None =>
                     /\ files[pass.adopting.cand.path].id # NoId
                     /\ pass'.adopting.ver = files[pass.adopting.cand.path].ver
<1> DEFINE c == pass.adopting.cand
           f == files[c.path]
<1>1. /\ pass.adopting # None /\ pass.adopting \in Adoption /\ c.path \in Paths /\ ~pass.adopting.looked
  BY AdoptingIsTyped DEF AdoptLook
<1>2. meddled' = FALSE
  BY DEF AdoptLook
<1>3. CASE ~StillAsRead(c)
  <2>1. pass' = Done(c)
    BY <1>3 DEF AdoptLook
  <2> QED  BY <1>1, <1>2, <2>1, DoneFields
<1>4. CASE StillAsRead(c)
  <2>1. f # None /\ f \in File
    BY <1>1, <1>4, SomeIsTyped DEF StillAsRead
  <2>2. PICK v \in {None} \cup (IF f.id = NoId THEN {} ELSE {f.ver}) :
           pass' = [pass EXCEPT !.adopting.looked = TRUE, !.adopting.ver = v]
    BY <1>4, Zenon DEF AdoptLook
  <2>3. v \in Versions \cup {None} /\ (v # None => f.id # NoId /\ v = f.ver)
    BY <2>1, <2>2 DEF File
  <2> DEFINE a == [pass.adopting EXCEPT !.looked = TRUE, !.ver = v]
  <2>4. a \in Adoption /\ a.cand = c /\ a.id = pass.adopting.id /\ a.ver = v /\ a.looked
    BY <1>1, <2>3 DEF Adoption
  <2>5. pass' = [pass EXCEPT !.adopting = a]
    BY <2>2
  <2> HIDE DEF a
  <2>6. /\ pass' \in Pass /\ Adopts /\ pass'.adopting = a /\ pass'.stat = pass.stat
        /\ pass'.candidates = pass.candidates
    <3>1. PICK b \in Adoption : b = a
      BY <2>4
    <3>2. pass' = [pass EXCEPT !.adopting = b]
      BY <2>5, <3>1
    <3>3. /\ pass' \in Pass /\ Adopts /\ pass'.adopting = b /\ pass'.stat = pass.stat
          /\ pass'.candidates = pass.candidates
      BY <3>2, AdoptingFields
    <3> QED  BY <3>1, <3>3
  <2> QED  BY <1>1, <1>2, <1>4, <2>3, <2>4, <2>6
<1> QED  BY <1>3, <1>4

LEMMA AdoptWriteDoes ==
  ASSUME TypeOK, AdoptWrite
  PROVE  /\ pass' \in Pass /\ Adopts /\ pass.adopting # None /\ pass'.stat = pass.stat
         /\ files' \in [Paths -> File \cup {None}]
         /\ \A q \in Paths \ {pass.adopting.cand.path} : files'[q] = files[q]
         /\ pass'.adopting # None /\ pass'.adopting.looked /\ pass'.candidates = pass.candidates
         /\ pass'.adopting.cand = pass.adopting.cand /\ pass'.adopting.id = pass.adopting.id
         /\ pass'.adopting.ver \in Fresh /\ pass'.adopting.ver \in Versions
         /\ files'[pass.adopting.cand.path] # None
         /\ files'[pass.adopting.cand.path].id = pass.adopting.id
         /\ files'[pass.adopting.cand.path].ver = pass'.adopting.ver
         /\ files'[pass.adopting.cand.path].content = "good"
<1> DEFINE p == pass.adopting.cand.path
<1>1. /\ pass.adopting # None /\ pass.adopting \in Adoption /\ p \in Paths
      /\ pass.adopting.id \in Ids /\ pass.adopting.looked
  BY AdoptingIsTyped DEF AdoptWrite, AdoptionRuns
<1>2. files \in [Paths -> File \cup {None}]
  BY DEF TypeOK
<1>3. PICK v \in Fresh :
        /\ files' = [files EXCEPT ![p] = [id |-> pass.adopting.id, ver |-> v,
                                          content |-> "good", settled |-> FALSE]]
        /\ pass' = [pass EXCEPT !.adopting.ver = v]
  BY Zenon DEF AdoptWrite
<1>4. v \in Versions
  BY FreshIsAVersion
<1>5. PICK g \in File : g = [id |-> pass.adopting.id, ver |-> v, content |-> "good", settled |-> FALSE]
  BY <1>1, <1>4 DEF File, Content
<1>6. g.id = pass.adopting.id /\ g.ver = v /\ g.content = "good" /\ g # None
  BY <1>5
<1>7. files' = [files EXCEPT ![p] = g]
  BY <1>3, <1>5
<1>8. files' \in [Paths -> File \cup {None}] /\ files'[p] = g
      /\ \A q \in Paths \ {p} : files'[q] = files[q]
  BY <1>1, <1>2, <1>7
<1> DEFINE a == [pass.adopting EXCEPT !.ver = v]
<1>9. a \in Adoption /\ a.cand = pass.adopting.cand /\ a.id = pass.adopting.id /\ a.ver = v /\ a.looked
  BY <1>1, <1>4 DEF Adoption
<1>10. pass' = [pass EXCEPT !.adopting = a]
  BY <1>3
<1> HIDE DEF a
<1>11. /\ pass' \in Pass /\ Adopts /\ pass'.adopting = a /\ pass'.stat = pass.stat
       /\ pass'.candidates = pass.candidates
  <2>1. PICK b \in Adoption : b = a
    BY <1>9
  <2>2. pass' = [pass EXCEPT !.adopting = b]
    BY <1>10, <2>1
  <2>3. /\ pass' \in Pass /\ Adopts /\ pass'.adopting = b /\ pass'.stat = pass.stat
        /\ pass'.candidates = pass.candidates
    BY <2>2, AdoptingFields
  <2> QED  BY <2>1, <2>3
<1>12. pass'.adopting # None
  BY <1>9, <1>11
<1> QED  BY <1>1, <1>4, <1>6, <1>8, <1>9, <1>11, <1>12

LEMMA AdoptCommitDoes ==
  ASSUME TypeOK, AdoptCommit
  PROVE  /\ pass' \in Pass /\ Adopts /\ pass'.adopting = None /\ pass'.stat = pass.stat
         /\ pass.adopting # None /\ pass.adopting.id \in Ids
         /\ rows[pass.adopting.id] = None /\ rows' \in [Ids -> Row \cup {None}]
         /\ rows'[pass.adopting.id] # None
         /\ \A j \in Ids \ {pass.adopting.id} : rows'[j] = rows[j]
<1> DEFINE c == pass.adopting.cand
           f == files[c.path]
           i == pass.adopting.id
<1>1. /\ pass.adopting # None /\ c.path \in Paths /\ i \in Ids /\ pass.adopting.ver \in Versions
      /\ rows[i] = None
  BY AdoptingIsTyped DEF AdoptCommit
<1>2. f \in File /\ f.ver \in Versions
  <2>1. f # None
    BY DEF AdoptCommit
  <2> QED  BY <1>1, <2>1, SomeIsTyped DEF File
<1>3. PICK r \in Row : r = [path |-> c.path, hash |-> pass.adopting.ver, stat |-> f.ver, state |-> "ok"]
  BY <1>1, <1>2 DEF Row
<1>4. rows' = [rows EXCEPT ![i] = r]
  BY <1>3 DEF AdoptCommit
<1>5. rows \in [Ids -> Row \cup {None}] /\ pass \in Pass /\ pass.adopted \in 0 .. AdoptionsPerPass - 1
  BY PassFields DEF TypeOK
<1>6. pass' \in Pass /\ Adopts /\ pass'.adopting = None /\ pass'.stat = pass.stat
  <2>1. CASE LastAdoption
    <3>1. pass' = [pass EXCEPT !.adopting = None, !.candidates = {}]
      BY <2>1 DEF AdoptCommit
    <3> QED  BY <1>5, <3>1 DEF Pass, Adopts, Steady
  <2>2. CASE ~LastAdoption
    <3>1. pass' = [[pass EXCEPT !.candidates = @ \ {c}, !.adopting = None] EXCEPT !.adopted = @ + 1]
      BY <2>2 DEF AdoptCommit, Done
    <3>2. pass.adopted + 1 \in 0 .. AdoptionsPerPass - 1
      BY <1>5, <2>2 DEF LastAdoption
    <3>3. PICK n \in 0 .. AdoptionsPerPass - 1 : n = pass.adopted + 1
      BY <3>2
    <3>4. pass' = [pass EXCEPT !.candidates = @ \ {c}, !.adopting = None, !.adopted = n]
      BY <1>5, <3>1, <3>3 DEF Pass
    <3> QED  BY <1>5, <3>4 DEF Pass, Adopts, Steady
  <2> QED  BY <2>1, <2>2
<1> QED  BY <1>1, <1>3, <1>4, <1>5, <1>6

LEMMA AdoptFailsDoes ==
  ASSUME TypeOK, AdoptFails
  PROVE  /\ pass' \in Pass /\ Adopts /\ pass'.adopting = None /\ pass'.stat = pass.stat
         /\ pass.adopting # None /\ pass.adopting.cand.path \in Paths
         /\ remembered' \in Stats /\ faults' \in 0 .. MaxFaults
         /\ \A q \in Paths \ {pass.adopting.cand.path} : remembered'[q] = remembered[q]
<1>1. pass.adopting # None /\ pass' = Done(pass.adopting.cand)
  BY DEF AdoptFails
<1>2. remembered' = [remembered EXCEPT ![pass.adopting.cand.path] = pass.adopting.cand.stat]
  BY DEF AdoptFails
<1>3. faults' \in 0 .. MaxFaults
  BY DEF AdoptFails, TypeOK
<1> QED  BY <1>1, <1>2, <1>3, AdoptingIsTyped, RemembersOne, DoneFields

-----------------------------------------------------------------------------
(* What writers, devices and time do. *)

Alike(p) == /\ files'[p] = None <=> files[p] = None
            /\ files[p] # None => /\ files'[p].id = files[p].id /\ files'[p].ver = files[p].ver
                                 /\ files'[p].content = files[p].content

Outside ==
  /\ TypeOK' /\ Writing'
  /\ pass' = pass /\ remembered' = remembered /\ touched \subseteq touched'
  /\ pass.phase # "rest" => \A p \in Paths \ touched' : Alike(p)
  /\ \A i \in Ids : rows[i] # None => rows'[i] # None
  /\ pass.phase # "rest" => \A i \in Ids : i \notin late' \cup overtaken' =>
                              i \notin late \cup overtaken /\ rows'[i] = rows[i]

LEMMA WritingTyped ==
  ASSUME TypeOK, NEW o \in Ops, writing[o] # None
  PROVE  /\ writing[o] \in Writer /\ writing[o].id \in Ids /\ writing[o].from \in Paths
         /\ writing[o].to \in Paths /\ writing[o].etag \in Versions
         /\ writing[o].ver \in Versions \cup {None}
         /\ writing[o].step \in {"write", "unlink", "commit"} /\ writing[o].early \in BOOLEAN
<1>1. writing[o] \in Writer
  BY SomeIsTyped
<1> QED  BY <1>1 DEF Writer

(* A change of files, all at touched places, and of nothing a pass relies on. *)
LEMMA TouchesOnly ==
  ASSUME TypeOK, NEW P \in SUBSET Paths, Touch(P),
         \A p \in Paths \ P : files'[p] = files[p]
  PROVE  /\ touched \subseteq touched' /\ touched' \subseteq Paths
         /\ meddled' \in BOOLEAN
         /\ pass.phase # "rest" => \A p \in Paths \ touched' : Alike(p)
<1>1. meddled' \in BOOLEAN
  BY Zenon DEF Touch
<1> QED  BY <1>1 DEF Touch, Resting, Alike, TypeOK

LEMMA BeginWriteOutside ==
  ASSUME Inv, NEW o \in Ops, BeginWrite(o)
  PROVE  Outside
<1>0. TypeOK /\ Writing
  BY DEF Inv
<1>1. PICK i \in Ids, to \in Paths :
        /\ Live(i) /\ Writers(i) = {}
        /\ LET from == rows[i].path  f == files[from]
           IN  /\ f # None
               /\ writing' = [writing EXCEPT ![o] =
                     [id |-> i, from |-> from, to |-> to, etag |-> f.ver, ver |-> None,
                      step |-> "write", early |-> FALSE]]
  BY Zenon DEF BeginWrite
<1>2. rows[i] # None /\ rows[i].path \in Paths
  BY <1>0, <1>1, SomeIsTyped DEF Live, Row
<1>3. files[rows[i].path].ver \in Versions
  BY <1>0, <1>1, <1>2, SomeIsTyped DEF File
<1> DEFINE begun == [id |-> i, from |-> rows[i].path, to |-> to, etag |-> files[rows[i].path].ver,
                     ver |-> None, step |-> "write", early |-> FALSE]
<1>a. begun \in Writer
  BY <1>2, <1>3 DEF Writer
<1>b. begun.id = i /\ begun.step = "write"
  OBVIOUS
<1>c. writing' = [writing EXCEPT ![o] = begun]
  BY <1>1
<1> HIDE DEF begun
<1>4. PICK w \in Writer : w = begun /\ w.id = i /\ w.step = "write"
  BY <1>a, <1>b
<1>5. writing' = [writing EXCEPT ![o] = w]
  BY <1>c, <1>4
<1>6. /\ files' = files /\ rows' = rows /\ late' = late /\ touched' = touched /\ meddled' = meddled
      /\ overtaken' = overtaken /\ remembered' = remembered /\ pass' = pass
      /\ disturbed' = disturbed /\ devices' = devices /\ faults' = faults
      /\ writes' = writes + 1 /\ writes < MaxWrites
  BY DEF BeginWrite, WriterOnly, TakesNothing, Untouched
<1>7. TypeOK'
  <2>1. writing' \in [Ops -> Writer \cup {None}]
    BY <1>0, <1>5 DEF TypeOK
  <2>2. writes' \in 0 .. MaxWrites
    BY <1>0, <1>6 DEF TypeOK
  <2> QED  BY <1>0, <1>6, <2>1, <2>2 DEF TypeOK
<1>8. Writing'
  <2> SUFFICES ASSUME NEW u \in Ops, writing'[u] # None
               PROVE  /\ rows'[writing'[u].id] # None
                      /\ writing'[u].step # "write" => writing'[u].ver # None
    BY DEF Writing
  <2>1. CASE u = o
    BY <2>1, <1>0, <1>2, <1>4, <1>5, <1>6 DEF TypeOK
  <2>2. CASE u # o
    BY <2>2, <1>0, <1>5, <1>6 DEF TypeOK, Writing
  <2> QED  BY <2>1, <2>2
<1> QED  BY <1>6, <1>7, <1>8 DEF Outside, Alike

(* A writer that goes on, with what it is about. *)
LEMMA WriterGoesOn ==
  ASSUME TypeOK, Writing, NEW o \in Ops, NEW w \in Writer \cup {None},
         writing' = [writing EXCEPT ![o] = w],
         w # None => writing[o] # None /\ w.id = writing[o].id /\ w.ver # None,
         \A i \in Ids : rows[i] # None => rows'[i] # None
  PROVE  writing' \in [Ops -> Writer \cup {None}] /\ Writing'
<1>1. writing' \in [Ops -> Writer \cup {None}]
  BY DEF TypeOK
<1>2. ASSUME NEW u \in Ops, writing'[u] # None
      PROVE  /\ rows'[writing'[u].id] # None
             /\ writing'[u].step # "write" => writing'[u].ver # None
  <2>1. CASE u = o
    <3>1. writing'[u] = w /\ w # None
      BY <2>1, <1>2 DEF TypeOK
    <3>2. writing[o].id \in Ids /\ rows[writing[o].id] # None
      BY <3>1, WritingTyped DEF Writing
    <3> QED  BY <3>1, <3>2
  <2>2. CASE u # o
    <3>1. writing'[u] = writing[u] /\ writing[u] # None
      BY <2>2, <1>2 DEF TypeOK
    <3>2. writing[u].id \in Ids /\ rows[writing[u].id] # None
      BY <3>1, WritingTyped DEF Writing
    <3> QED  BY <3>1, <3>2 DEF Writing
  <2> QED  BY <2>1, <2>2
<1> QED  BY <1>1, <1>2 DEF Writing

LEMMA WriteFileOutside ==
  ASSUME Inv, NEW o \in Ops, WriteFile(o)
  PROVE  Outside
<1> DEFINE w == writing[o]
           f == files[w.from]
<1>0. TypeOK /\ Writing
  BY DEF Inv
<1>1. /\ w # None /\ w \in Writer /\ w.from \in Paths /\ w.to \in Paths /\ w.etag \in Versions
      /\ w.id \in Ids
  BY <1>0, WritingTyped DEF WriteFile
<1>2. /\ rows' = rows /\ late' = late /\ overtaken' = overtaken /\ remembered' = remembered
      /\ pass' = pass /\ disturbed' = disturbed /\ devices' = devices /\ faults' = faults
      /\ writes' = writes
  BY DEF WriteFile, WriterOnly, TakesNothing
<1>3. \/ writing' = [writing EXCEPT ![o] = None] /\ UNCHANGED <<files, touched, meddled>>
      \/ /\ f # None
         /\ \E v \in Fresh :
              /\ files' = [files EXCEPT ![w.from] = [id |-> w.id, ver |-> v,
                                                    content |-> "good", settled |-> FALSE]]
              /\ writing' = [writing EXCEPT ![o].step = "commit", ![o].ver = v]
              /\ Touch({w.from})
      \/ /\ f # None
         /\ files' = [files EXCEPT ![w.to] = f]
         /\ writing' = [writing EXCEPT ![o].step = "unlink", ![o].ver = w.etag]
         /\ Touch({w.to})
  BY Zenon DEF WriteFile, Untouched
<1>4. files \in [Paths -> File \cup {None}] /\ writing \in [Ops -> Writer \cup {None}]
  BY <1>0 DEF TypeOK
<1>5. /\ files' \in [Paths -> File \cup {None}] /\ touched \subseteq touched' /\ touched' \subseteq Paths
      /\ meddled' \in BOOLEAN
      /\ pass.phase # "rest" => \A p \in Paths \ touched' : Alike(p)
      /\ \E x \in Writer \cup {None} : /\ writing' = [writing EXCEPT ![o] = x]
                                       /\ x # None => x.id = w.id /\ x.ver # None
  <2>1. CASE writing' = [writing EXCEPT ![o] = None] /\ UNCHANGED <<files, touched, meddled>>
    BY <2>1, <1>0, <1>4 DEF TypeOK, Alike
  <2>2. ASSUME f # None, NEW v \in Fresh,
               files' = [files EXCEPT ![w.from] = [id |-> w.id, ver |-> v,
                                                   content |-> "good", settled |-> FALSE]],
               writing' = [writing EXCEPT ![o].step = "commit", ![o].ver = v],
               Touch({w.from})
        PROVE  /\ files' \in [Paths -> File \cup {None}] /\ touched \subseteq touched' /\ touched' \subseteq Paths
               /\ meddled' \in BOOLEAN
               /\ pass.phase # "rest" => \A p \in Paths \ touched' : Alike(p)
               /\ \E x \in Writer \cup {None} : /\ writing' = [writing EXCEPT ![o] = x]
                                                /\ x # None => x.id = w.id /\ x.ver # None
    <3>1. v \in Versions
      BY FreshIsAVersion
    <3>2. PICK g \in File : g = [id |-> w.id, ver |-> v, content |-> "good", settled |-> FALSE]
      BY <1>1, <3>1 DEF File, Content
    <3>3. files' = [files EXCEPT ![w.from] = g]
      BY <2>2, <3>2
    <3>4. PICK P \in SUBSET Paths : P = {w.from}
      BY <1>1
    <3>5. \A p \in Paths \ P : files'[p] = files[p]
      BY <1>1, <1>4, <3>3, <3>4
    <3>6. Touch(P)
      BY <2>2, <3>4
    <3> DEFINE x == [w EXCEPT !.step = "commit", !.ver = v]
    <3>7. x \in Writer /\ x.id = w.id /\ x.ver = v
      BY <1>1, <3>1 DEF Writer
    <3>8. writing' = [writing EXCEPT ![o] = x]
      BY <1>4, <2>2
    <3> HIDE DEF x, w
    <3>9. x \in Writer \cup {None} /\ (x # None => x.id = w.id /\ x.ver # None)
      BY <3>1, <3>7
    <3>a. \E y \in Writer \cup {None} : /\ writing' = [writing EXCEPT ![o] = y]
                                        /\ y # None => y.id = w.id /\ y.ver # None
      BY <3>8, <3>9
    <3>b. files' \in [Paths -> File \cup {None}]
      BY <1>4, <3>3
    <3> QED  BY <1>0, <3>5, <3>6, <3>a, <3>b, TouchesOnly DEF w
  <2>3. CASE /\ f # None
             /\ files' = [files EXCEPT ![w.to] = f]
             /\ writing' = [writing EXCEPT ![o].step = "unlink", ![o].ver = w.etag]
             /\ Touch({w.to})
    <3>4. PICK P \in SUBSET Paths : P = {w.to}
      BY <1>1
    <3>5. \A p \in Paths \ P : files'[p] = files[p]
      BY <1>1, <1>4, <2>3, <3>4
    <3>6. Touch(P)
      BY <2>3, <3>4
    <3> DEFINE x == [w EXCEPT !.step = "unlink", !.ver = w.etag]
    <3>7. x \in Writer /\ x.id = w.id /\ x.ver = w.etag
      BY <1>1 DEF Writer
    <3>8. writing' = [writing EXCEPT ![o] = x]
      BY <1>4, <2>3
    <3>b. files' \in [Paths -> File \cup {None}]
      BY <1>1, <1>4, <2>3
    <3>c. w.etag \in Versions
      BY <1>1
    <3> HIDE DEF x, w
    <3>9. x \in Writer \cup {None} /\ (x # None => x.id = w.id /\ x.ver # None)
      BY <3>c, <3>7
    <3>a. \E y \in Writer \cup {None} : /\ writing' = [writing EXCEPT ![o] = y]
                                        /\ y # None => y.id = w.id /\ y.ver # None
      BY <3>8, <3>9
    <3> QED  BY <1>0, <3>5, <3>6, <3>a, <3>b, TouchesOnly DEF w
  <2> QED  BY <1>3, <2>1, <2>2, <2>3
<1>6. writing' \in [Ops -> Writer \cup {None}] /\ Writing'
  <2>1. PICK x \in Writer \cup {None} : /\ writing' = [writing EXCEPT ![o] = x]
                                        /\ x # None => x.id = w.id /\ x.ver # None
    BY <1>5
  <2>2. /\ x # None => writing[o] # None /\ x.id = writing[o].id /\ x.ver # None
        /\ \A i \in Ids : rows[i] # None => rows'[i] # None
    BY <1>1, <1>2, <2>1
  <2> QED  BY <1>0, <2>1, <2>2, WriterGoesOn
<1>7. TypeOK'
  BY <1>0, <1>2, <1>5, <1>6 DEF TypeOK
<1> QED  BY <1>2, <1>5, <1>6, <1>7 DEF Outside

LEMMA UnlinkOutside ==
  ASSUME Inv, NEW o \in Ops, Unlink(o)
  PROVE  Outside
<1> DEFINE w == writing[o]
<1>0. TypeOK /\ Writing
  BY DEF Inv
<1>1. /\ w # None /\ w \in Writer /\ w.from \in Paths /\ w.id \in Ids /\ w.ver # None
      /\ w.ver \in Versions \cup {None}
  <2>1. w # None /\ w.step = "unlink"
    BY DEF Unlink
  <2> QED  BY <1>0, <2>1, WritingTyped DEF Writing
<1>2. /\ rows' = rows /\ late' = late /\ overtaken' = overtaken /\ remembered' = remembered
      /\ pass' = pass /\ disturbed' \subseteq Ids /\ devices' = devices /\ faults' = faults
      /\ writes' = writes /\ Touch({w.from}) /\ files' = [files EXCEPT ![w.from] = None]
      /\ writing' = [writing EXCEPT ![o].step = "commit"]
  BY <1>0 DEF Unlink, WriterOnly, Takes, TypeOK
<1>3. files \in [Paths -> File \cup {None}] /\ writing \in [Ops -> Writer \cup {None}]
  BY <1>0 DEF TypeOK
<1>4. files' \in [Paths -> File \cup {None}]
  BY <1>1, <1>2, <1>3
<1>5. /\ touched \subseteq touched' /\ touched' \subseteq Paths
      /\ meddled' \in BOOLEAN
      /\ pass.phase # "rest" => \A p \in Paths \ touched' : Alike(p)
  <2>1. PICK P \in SUBSET Paths : P = {w.from}
    BY <1>1
  <2>2. \A p \in Paths \ P : files'[p] = files[p]
    BY <1>2, <1>3, <2>1
  <2>3. Touch(P)
    BY <1>2, <2>1
  <2> QED  BY <1>0, <2>2, <2>3, TouchesOnly
<1>6. writing' \in [Ops -> Writer \cup {None}] /\ Writing'
  <2> DEFINE x == [w EXCEPT !.step = "commit"]
  <2>1. x \in Writer /\ x.id = w.id /\ x.ver = w.ver
    BY <1>1 DEF Writer
  <2>2. writing' = [writing EXCEPT ![o] = x]
    BY <1>2, <1>3
  <2> HIDE DEF x, w
  <2>3. PICK y \in Writer \cup {None} : y = x /\ y.id = w.id /\ y.ver = w.ver
    BY <2>1
  <2>4. writing' = [writing EXCEPT ![o] = y]
    BY <2>2, <2>3
  <2>5. /\ y # None => writing[o] # None /\ y.id = writing[o].id /\ y.ver # None
        /\ \A i \in Ids : rows[i] # None => rows'[i] # None
    BY <1>1, <1>2, <2>3 DEF w
  <2> QED  BY <1>0, <2>4, <2>5, WriterGoesOn
<1>7. TypeOK'
  BY <1>0, <1>2, <1>4, <1>5, <1>6 DEF TypeOK
<1> QED  BY <1>2, <1>5, <1>6, <1>7 DEF Outside

LEMMA CommitOutside ==
  ASSUME Inv, NEW o \in Ops, Commit(o)
  PROVE  Outside
<1> DEFINE w == writing[o]
           i == w.id
<1>0. TypeOK /\ Writing
  BY DEF Inv
<1>1. /\ w # None /\ w \in Writer /\ w.from \in Paths /\ w.to \in Paths /\ i \in Ids
      /\ w.etag \in Versions /\ w.ver \in Versions /\ rows[i] # None /\ rows[i].path \in Paths
  <2>1. w # None /\ w.step = "commit"
    BY DEF Commit
  <2>2. w.ver # None /\ rows[i] # None
    BY <1>0, <2>1 DEF Writing
  <2>3. i \in Ids /\ w \in Writer /\ w.from \in Paths /\ w.to \in Paths /\ w.etag \in Versions
        /\ w.ver \in Versions \cup {None}
    BY <1>0, <2>1, WritingTyped
  <2>4. rows[i].path \in Paths
    BY <1>0, <2>2, <2>3, SomeIsTyped DEF Row
  <2> QED  BY <2>1, <2>2, <2>3, <2>4
<1>2. /\ files' = files /\ touched' = touched /\ meddled' = meddled
      /\ remembered' = remembered
      /\ pass' = pass /\ disturbed' = disturbed /\ devices' = devices /\ faults' = faults
      /\ writes' = writes /\ rows' = [rows EXCEPT ![i] = Written(o)]
      /\ writing' = [writing EXCEPT ![o] = None]
      /\ late' = IF Resting \/ w.early THEN late ELSE late \cup {i}
      /\ overtaken' = IF ~Resting /\ w.early THEN overtaken \cup {i} ELSE overtaken
  BY DEF Commit, WriterOnly, TakesNothing, Untouched
<1>3. Written(o) \in Row
  BY <1>1 DEF Written, Row
<1>4. rows \in [Ids -> Row \cup {None}]
  BY <1>0 DEF TypeOK
<1>5. /\ rows' \in [Ids -> Row \cup {None}]
      /\ \A j \in Ids : rows[j] # None => rows'[j] # None
      /\ \A j \in Ids \ {i} : rows'[j] = rows[j]
  BY <1>1, <1>2, <1>3, <1>4
<1>6. writing' \in [Ops -> Writer \cup {None}] /\ Writing'
  BY <1>0, <1>2, <1>5, WriterGoesOn
<1>7. /\ late' \subseteq Ids /\ overtaken' \subseteq Ids /\ late \subseteq late' /\ overtaken \subseteq overtaken'
      /\ pass.phase # "rest" => i \in late' \cup overtaken'
  BY <1>0, <1>1, <1>2 DEF TypeOK, Resting
<1>8. TypeOK'
  BY <1>0, <1>2, <1>5, <1>6, <1>7 DEF TypeOK
<1>9. pass.phase # "rest" => \A j \in Ids : j \notin late' \cup overtaken' =>
                                j \notin late \cup overtaken /\ rows'[j] = rows[j]
  BY <1>5, <1>7
<1> QED  BY <1>2, <1>5, <1>6, <1>8, <1>9 DEF Outside, Alike

LEMMA WriteFailsOutside ==
  ASSUME Inv, NEW o \in Ops, WriteFails(o)
  PROVE  Outside
<1> DEFINE w == writing[o]
           undo == w.step = "unlink" /\ files[w.from] # None
<1>0. TypeOK /\ Writing
  BY DEF Inv
<1>1. w # None /\ w.to \in Paths
  BY <1>0, WritingTyped DEF WriteFails
<1>2. /\ rows' = rows /\ late' = late /\ overtaken' = overtaken /\ remembered' = remembered
      /\ pass' = pass /\ disturbed' \subseteq Ids /\ devices' = devices /\ writes' = writes
      /\ writing' = [writing EXCEPT ![o] = None]
      /\ faults' = faults \/ (faults < MaxFaults /\ faults' = faults + 1)
      /\ \/ undo /\ files' = [files EXCEPT ![w.to] = None] /\ Touch({w.to})
         \/ files' = files /\ touched' = touched /\ meddled' = meddled
  BY <1>0 DEF WriteFails, WriterOnly, Takes, TakesNothing, TypeOK, Untouched
<1>3. files \in [Paths -> File \cup {None}]
  BY <1>0 DEF TypeOK
<1>4. /\ files' \in [Paths -> File \cup {None}] /\ touched \subseteq touched' /\ touched' \subseteq Paths
      /\ meddled' \in BOOLEAN
      /\ pass.phase # "rest" => \A p \in Paths \ touched' : Alike(p)
  <2>1. CASE files' = files /\ touched' = touched /\ meddled' = meddled
    BY <1>0, <2>1 DEF TypeOK, Alike
  <2>2. CASE files' = [files EXCEPT ![w.to] = None] /\ Touch({w.to})
    <3>1. PICK P \in SUBSET Paths : P = {w.to}
      BY <1>1
    <3>2. \A p \in Paths \ P : files'[p] = files[p]
      BY <1>3, <2>2, <3>1
    <3>3. Touch(P)
      BY <2>2, <3>1
    <3>4. files' \in [Paths -> File \cup {None}]
      BY <1>3, <2>2
    <3> QED  BY <1>0, <3>2, <3>3, <3>4, TouchesOnly
  <2> QED  BY <1>2, <2>1, <2>2
<1>5. writing' \in [Ops -> Writer \cup {None}] /\ Writing'
  BY <1>0, <1>2, WriterGoesOn
<1>6. faults' \in 0 .. MaxFaults
  BY <1>0, <1>2 DEF TypeOK
<1>7. TypeOK'
  BY <1>0, <1>2, <1>4, <1>5, <1>6 DEF TypeOK
<1> QED  BY <1>2, <1>4, <1>5, <1>7 DEF Outside

LEMMA DeviceOutside ==
  ASSUME Inv, NEW P \in SUBSET Paths, DeviceTouches(P),
         files' \in [Paths -> File \cup {None}], \A p \in Paths \ P : files'[p] = files[p]
  PROVE  Outside
<1>0. TypeOK /\ Writing
  BY DEF Inv
<1>1. /\ rows' = rows /\ writing' = writing /\ late' = late /\ overtaken' = overtaken
      /\ remembered' = remembered /\ pass' = pass /\ writes' = writes /\ faults' = faults
      /\ devices < MaxDevice /\ devices' = devices + 1 /\ Touch(P)
      /\ disturbed' \subseteq Ids
  BY <1>0 DEF DeviceTouches, TypeOK
<1>2. /\ touched \subseteq touched' /\ touched' \subseteq Paths
      /\ meddled' \in BOOLEAN
      /\ pass.phase # "rest" => \A p \in Paths \ touched' : Alike(p)
  BY <1>0, <1>1, TouchesOnly
<1>3. devices' \in 0 .. MaxDevice
  BY <1>0, <1>1 DEF TypeOK
<1>4. TypeOK'
  BY <1>0, <1>1, <1>2, <1>3 DEF TypeOK
<1>5. Writing'
  BY <1>0, <1>1 DEF Writing
<1> QED  BY <1>1, <1>2, <1>4, <1>5 DEF Outside

LEMMA DevicesOutside ==
  ASSUME Inv, Device
  PROVE  Outside
<1>0. TypeOK /\ files \in [Paths -> File \cup {None}]
  BY DEF Inv, TypeOK
<1>1. ASSUME NEW p \in Paths, DeviceWrites(p)  PROVE Outside
  <2>1. PICK id \in {NoId} \cup (IF files[p] = None THEN {} ELSE {files[p].id}), content \in Content,
              v \in Fresh :
           files' = [files EXCEPT ![p] = [id |-> id, ver |-> v, content |-> content, settled |-> FALSE]]
    BY <1>1 DEF DeviceWrites
  <2>2. id \in Ids \cup {NoId} /\ v \in Versions
    BY <1>0, SomeIsTyped, FreshIsAVersion DEF File
  <2>3. [id |-> id, ver |-> v, content |-> content, settled |-> FALSE] \in File
    BY <2>2 DEF File
  <2>4. files' \in [Paths -> File \cup {None}] /\ \A q \in Paths \ {p} : files'[q] = files[q]
    BY <1>0, <2>1, <2>3
  <2>5. PICK P \in SUBSET Paths : P = {p}
    OBVIOUS
  <2>6. DeviceTouches(P)
    BY <1>1, <2>5 DEF DeviceWrites
  <2> QED  BY <2>4, <2>5, <2>6, DeviceOutside
<1>2. ASSUME NEW p \in Paths, DeviceDeletes(p)  PROVE Outside
  <2>4. files' \in [Paths -> File \cup {None}] /\ \A q \in Paths \ {p} : files'[q] = files[q]
    BY <1>0, <1>2 DEF DeviceDeletes
  <2>5. PICK P \in SUBSET Paths : P = {p}
    OBVIOUS
  <2>6. DeviceTouches(P)
    BY <1>2, <2>5 DEF DeviceDeletes
  <2> QED  BY <2>4, <2>5, <2>6, DeviceOutside
<1>3. ASSUME NEW p \in Paths, NEW q \in Paths, DeviceMoves(p, q) \/ DeviceCopies(p, q)  PROVE Outside
  <2>4. files' \in [Paths -> File \cup {None}] /\ \A x \in Paths \ {p, q} : files'[x] = files[x]
    BY <1>0, <1>3 DEF DeviceMoves, DeviceCopies
  <2>5. PICK P \in SUBSET Paths : P = {p, q}
    OBVIOUS
  <2>6. DeviceTouches(P)
    BY <1>3, <2>5 DEF DeviceMoves, DeviceCopies
  <2> QED  BY <2>4, <2>5, <2>6, DeviceOutside
<1> QED  BY <1>1, <1>2, <1>3 DEF Device

LEMMA SettleOutside ==
  ASSUME Inv, NEW p \in Paths, Settle(p)
  PROVE  Outside
<1>0. TypeOK /\ Writing /\ files \in [Paths -> File \cup {None}]
  BY DEF Inv, TypeOK
<1>1. files[p] # None /\ files[p] \in File
  BY <1>0, SomeIsTyped DEF Settle
<1> DEFINE g == [files[p] EXCEPT !.settled = TRUE]
<1>2. /\ g \in File /\ g.id = files[p].id /\ g.ver = files[p].ver /\ g.content = files[p].content
  BY <1>1 DEF File
<1>3. files' = [files EXCEPT ![p] = g]
  BY <1>0 DEF Settle
<1> HIDE DEF g
<1>4. /\ files' \in [Paths -> File \cup {None}] /\ g # None
      /\ \A q \in Paths : Alike(q)
  BY <1>0, <1>1, <1>2, <1>3 DEF Alike
<1>5. /\ rows' = rows /\ writing' = writing /\ late' = late /\ overtaken' = overtaken
      /\ remembered' = remembered /\ pass' = pass /\ writes' = writes /\ faults' = faults
      /\ devices' = devices /\ disturbed' = disturbed /\ touched' = touched /\ meddled' = meddled
  BY DEF Settle
<1>6. TypeOK'
  BY <1>0, <1>4, <1>5 DEF TypeOK
<1>7. Writing'
  BY <1>0, <1>5 DEF Writing
<1> QED  BY <1>4, <1>5, <1>6, <1>7 DEF Outside

-----------------------------------------------------------------------------
(* Nothing that others do disturbs what a pass knows. *)

LEMMA SameMirror ==
  ASSUME pass'.mirror = pass.mirror
  PROVE  Known' = Known /\ \A p \in Paths : Entry(p)' = Entry(p)
BY DEF Known, Entry, Claimants

LEMMA AtRestNothing ==
  ASSUME Begun, pass.phase \in {"rest", "mirror"}
  PROVE  /\ Known = {} /\ pass.observed = {} /\ pass.held = {} /\ pass.candidates = {}
         /\ pass.at = None /\ pass.adopting = None
BY DEF Begun, Known, NoRows

LEMMA OutsideKeeps ==
  ASSUME Inv, Outside
  PROVE  Inv'
<1>0. /\ TypeOK /\ Begun /\ Mirrored /\ Looking /\ Strangers /\ Observed /\ Held /\ HeardAll
      /\ pass' = pass /\ remembered' = remembered /\ touched \subseteq touched'
  BY DEF Inv, Outside
<1>1. Known' = Known /\ (\A p \in Paths : Entry(p)' = Entry(p)) /\ Memory' = Memory
      /\ \A p : Walked(p)' = Walked(p)
  BY <1>0, SameMirror DEF Memory, Walked
<1>2. CASE pass.phase = "rest"
  <2>1. /\ Known = {} /\ pass.observed = {} /\ pass.held = {} /\ pass.candidates = {}
        /\ pass.at = None /\ pass.adopting = None
    BY <1>0, <1>2, AtRestNothing
  <2>2. Begun'
    BY <1>0 DEF Begun
  <2>3. Mirrored' /\ HeardAll'
    BY <1>1, <2>1 DEF Mirrored, HeardAll
  <2>4. Looking' /\ Strangers' /\ Held'
    BY <1>0, <1>2, <2>1 DEF Looking, Strangers, Held
  <2>5. Observed'
    BY <1>0, <2>1 DEF Observed
  <2> QED  BY <2>2, <2>3, <2>4, <2>5 DEF Outside, Inv
<1>3. CASE pass.phase # "rest"
  <2>1. /\ \A p \in Paths \ touched' : Alike(p)
        /\ \A i \in Ids : rows[i] # None => rows'[i] # None
        /\ \A i \in Ids : i \notin late' \cup overtaken' =>
                          i \notin late \cup overtaken /\ rows'[i] = rows[i]
    BY <1>3 DEF Outside
  <2>2. Begun'
    BY <1>0 DEF Begun
  <2>3. Mirrored'
    <3> SUFFICES ASSUME NEW i \in Known'
                 PROVE  /\ rows'[i] # None
                        /\ i \notin late' \cup overtaken' => rows'[i] = pass'.mirror[i]
                        /\ pass'.phase = "apply" =>
                              /\ pass'.fetched[i] # None
                              /\ i \notin late' \cup overtaken' => pass'.fetched[i] = pass'.mirror[i]
      BY DEF Mirrored
    <3>1. i \in Known /\ i \in Ids
      BY <1>1 DEF Known
    <3> QED  BY <1>0, <2>1, <3>1 DEF Mirrored
  <2>4. Looking'
    <3>1. pass.at \in Paths \cup {None}
      BY <1>0, PassFields DEF TypeOK
    <3>2. pass.phase = "read" => pass.at # None
      BY <1>0 DEF Begun
    <3> QED  BY <1>0, <2>1, <3>1, <3>2 DEF Looking, Alike
  <2>5. Strangers'
    <3>1. ASSUME NEW c \in Candidate, Stranger(c)  PROVE Stranger(c)'
      <4>1. c.path \in Paths
        BY DEF Candidate
      <4> QED  BY <1>0, <1>1, <2>1, <3>1, <4>1 DEF Stranger, Alike
    <3>2. pass.candidates \subseteq Candidate /\ (pass.adopting # None => pass.adopting.cand \in Candidate)
      BY <1>0, PassFields, AdoptingIsTyped DEF TypeOK
    <3> QED  BY <1>0, <1>1, <3>1, <3>2 DEF Strangers
  <2>6. Observed'
    <3>1. ASSUME NEW ob \in pass.observed  PROVE Truthful(ob)'
      <4>1. Truthful(ob) /\ ob.path \in Paths
        BY <1>0, PassFields DEF Observed, TypeOK, Observation
      <4> QED  BY <1>0, <1>1, <2>1, <4>1 DEF Truthful, Alike
    <3> QED  BY <1>0, <3>1 DEF Observed
  <2>7. Held'
    <3>1. ASSUME NEW i \in pass.held  PROVE i \in Known' /\ (pass'.deferred \/ Vouched(i)')
      <4>1. i \in Known /\ (pass.deferred \/ Vouched(i)) /\ pass.mirror[i].path \in Paths
        <5>1. i \in Known /\ (pass.deferred \/ Vouched(i))
          BY <1>0 DEF Held
        <5>2. pass.mirror[i] \in Row
          BY <1>0, <5>1, SomeIsTyped DEF Known
        <5> QED  BY <5>1, <5>2 DEF Row
      <4> QED  BY <1>0, <1>1, <2>1, <4>1 DEF Vouched, Alike
    <3> QED  BY <1>0, <3>1 DEF Held
  <2>8. HeardAll'
    <3> SUFFICES ASSUME NEW p \in Paths, Walked(p)', There(p)', files'[p].id \in Known'
                 PROVE  Heard(p)'
      BY DEF HeardAll
    <3>1. /\ Walked(p) /\ There(p) /\ files[p] # None /\ files'[p].id = files[p].id
          /\ files'[p].ver = files[p].ver /\ files'[p].content = files[p].content
      BY <1>0, <1>1, <2>1 DEF There, Alike
    <3>2. Heard(p)
      BY <1>0, <1>1, <3>1 DEF HeardAll
    <3> QED  BY <1>0, <1>1, <3>1, <3>2 DEF Heard, Passed
  <2> QED  BY <2>2, <2>3, <2>4, <2>5, <2>6, <2>7, <2>8 DEF Outside, Inv
<1> QED  BY <1>2, <1>3

-----------------------------------------------------------------------------
(* The walk. *)

LEMMA ScanningKeeps ==
  ASSUME Inv, Scanning, pass' \in Pass, Steady, pass'.phase # "apply"
  PROVE  TypeOK' /\ Writing' /\ Mirrored'
<1>1. TypeOK'
  BY DEF Inv, TypeOK, Scanning
<1>2. Writing'
  BY DEF Inv, Writing, Scanning
<1>3. Known' = Known
  BY SameMirror DEF Steady
<1>4. Mirrored'
  BY <1>3 DEF Inv, Mirrored, Scanning, Steady
<1> QED  BY <1>1, <1>2, <1>4

LEMMA ListKeeps ==
  ASSUME Inv, NEW p \in Paths, List(p)
  PROVE  Inv'
<1>0. /\ TypeOK /\ Begun /\ Mirrored /\ Looking /\ Strangers /\ Observed /\ Held /\ HeardAll
      /\ Scanning /\ files' = files /\ touched' = touched /\ meddled' = meddled
      /\ remembered' = remembered
  BY DEF Inv, List, Scanning
<1>1. /\ pass' \in Pass /\ AsBefore
      /\ pass.phase = "walk" /\ p \in pass.todo /\ pass'.todo = pass.todo \ {p}
      /\ pass'.observed = pass.observed /\ pass'.held = pass.held
      /\ pass'.deferred = pass.deferred /\ pass'.learned = pass.learned
      /\ pass'.candidates = pass.candidates
      /\ files[p] = None => pass'.at = None /\ pass'.phase = "walk"
      /\ files[p] # None => pass'.at = p /\ pass'.phase = "stat"
  BY <1>0, ListDoes
<1>2. Known' = Known /\ \A q \in Paths : Entry(q)' = Entry(q)
  BY <1>1, SameMirror DEF AsBefore, Steady
<1>3. TypeOK' /\ Writing' /\ Mirrored'
  BY <1>0, <1>1, ScanningKeeps DEF AsBefore
<1>4. pass.at = None /\ pass.adopting = None
  BY <1>0, <1>1 DEF Begun
<1>5. Begun'
  BY <1>0, <1>1, <1>4 DEF Begun, AsBefore
<1>6. Looking'
  BY <1>0, <1>1 DEF Looking
<1>7. \A q \in Paths : Walked(q) => Walked(q)'
  BY <1>1 DEF Walked
<1>8. Strangers'
  <2>1. ASSUME NEW c \in pass.candidates  PROVE Stranger(c)'
    <3>1. Stranger(c) /\ c.path \in Paths
      BY <1>0, PassFields DEF Strangers, TypeOK, Candidate
    <3> QED  BY <1>0, <1>2, <1>7, <3>1 DEF Stranger
  <2> QED  BY <1>1, <1>4, <2>1 DEF Strangers, AsBefore
<1>9. Observed'
  <2>1. ASSUME NEW ob \in pass.observed  PROVE Truthful(ob)'
    <3>1. Truthful(ob) /\ ob.path \in Paths
      BY <1>0, PassFields DEF Observed, TypeOK, Observation
    <3> QED  BY <1>0, <1>2, <1>7, <3>1 DEF Truthful
  <2> QED  BY <1>0, <1>1, <2>1 DEF Observed
<1>10. Held'
  <2>1. ASSUME NEW i \in pass.held  PROVE i \in Known' /\ (pass'.deferred \/ Vouched(i)')
    <3>1. i \in Known /\ (pass.deferred \/ Vouched(i)) /\ pass.mirror[i].path \in Paths
      <4>1. i \in Known /\ (pass.deferred \/ Vouched(i))
        BY <1>0 DEF Held
      <4>2. pass.mirror[i] \in Row
        BY <1>0, <4>1, SomeIsTyped DEF Known
      <4> QED  BY <4>1, <4>2 DEF Row
    <3> QED  BY <1>0, <1>1, <1>2, <3>1 DEF Vouched, AsBefore, Steady
  <2> QED  BY <1>1, <2>1 DEF Held
<1>11. HeardAll'
  <2> SUFFICES ASSUME NEW q \in Paths, Walked(q)', There(q)', files'[q].id \in Known'
               PROVE  Heard(q)'
    BY DEF HeardAll
  <2>1. Walked(q) /\ There(q) /\ files[q].id \in Known
    BY <1>0, <1>1, <1>2, <1>4 DEF Walked, There
  <2>2. Heard(q)
    BY <1>0, <2>1 DEF HeardAll
  <2>3. Memory' = Memory
    BY <1>1 DEF Memory
  <2> QED  BY <1>0, <1>1, <1>2, <2>2, <2>3 DEF Heard, Passed, AsBefore, Steady
<1> QED  BY <1>3, <1>5, <1>6, <1>8, <1>9, <1>10, <1>11 DEF Inv

(* What a visit adds leaves what earlier visits found. *)
LEMMA VisitKeeps ==
  ASSUME Inv, Scanning, NEW p \in Paths, pass.at = p, Moved,
         pass.phase \in {"stat", "read"},
         pass.deferred => pass'.deferred, pass.held \subseteq pass'.held,
         pass.observed \subseteq pass'.observed,
         \A q \in Paths \ {p} : pass'.learned[q] = pass.learned[q]
  PROVE  /\ Begun' /\ Looking' /\ (\A q \in Paths : Walked(q) \/ q = p => Walked(q)')
         /\ Known' = Known /\ (\A q \in Paths : Entry(q)' = Entry(q)) /\ pass.adopting = None
         /\ \A c \in pass.candidates : Stranger(c)'
         /\ \A ob \in pass.observed : Truthful(ob)' /\ ob.path # p
         /\ \A i \in pass.held : i \in Known /\ (pass'.deferred \/ Vouched(i)')
         /\ \A q \in Paths \ {p} : Walked(q)' /\ There(q)' /\ files'[q].id \in Known' => Heard(q)'
<1>0. /\ TypeOK /\ Begun /\ Strangers /\ Observed /\ Held /\ HeardAll
      /\ files' = files /\ touched' = touched /\ meddled' = meddled
      /\ remembered' = remembered
  BY DEF Inv, Scanning
<1>1. Known' = Known /\ \A q \in Paths : Entry(q)' = Entry(q)
  BY SameMirror DEF Moved, AsBefore, Steady
<1>2. p \notin pass.todo /\ pass.adopting = None /\ pass'.at = None /\ p # None
  BY <1>0 DEF Begun, Moved
<1>3. Begun'
  <2>1. None \notin pass.todo
    BY <1>0, PassFields DEF TypeOK
  <2> QED  BY <1>0, <1>2, <2>1 DEF Begun, Moved, AsBefore
<1>4. Looking'
  BY <1>2 DEF Looking, Moved
<1>5. \A q \in Paths : Walked(q) \/ q = p => Walked(q)'
  BY <1>2 DEF Walked, Moved
<1>6. ASSUME NEW c \in pass.candidates  PROVE Stranger(c)'
  <2>1. Stranger(c) /\ c.path \in Paths
    BY <1>0, PassFields DEF Strangers, TypeOK, Candidate
  <2> QED  BY <1>0, <1>1, <1>5, <2>1 DEF Stranger
<1>7. ASSUME NEW ob \in pass.observed  PROVE Truthful(ob)' /\ ob.path # p
  <2>1. Truthful(ob) /\ ob.path \in Paths
    BY <1>0, PassFields DEF Observed, TypeOK, Observation
  <2> QED  BY <1>0, <1>1, <1>5, <2>1 DEF Truthful, Walked
<1>8. ASSUME NEW i \in pass.held  PROVE i \in Known /\ (pass'.deferred \/ Vouched(i)')
  <2>1. i \in Known /\ (pass.deferred \/ Vouched(i))
    BY <1>0 DEF Held
  <2>2. pass.mirror[i] \in Row
    BY <1>0, <2>1, SomeIsTyped DEF Known
  <2>3. pass.mirror[i].path \in Paths
    BY <2>2 DEF Row
  <2> QED  BY <1>0, <1>1, <2>1, <2>3 DEF Vouched, Moved, AsBefore, Steady
<1>9. ASSUME NEW q \in Paths \ {p}, Walked(q)', There(q)', files'[q].id \in Known'
      PROVE  Heard(q)'
  <2>1. Walked(q) /\ There(q) /\ files[q].id \in Known
    BY <1>0, <1>1, <1>9 DEF Walked, There, Moved
  <2>2. Heard(q)
    BY <1>0, <2>1 DEF HeardAll
  <2>3. Memory'[q] = Memory[q]
    BY DEF Memory, Moved
  <2>4. Passed(q) => Passed(q)'
    BY <1>0, <1>1, <2>3 DEF Passed, Moved, AsBefore, Steady
  <2> QED  BY <1>0, <1>1, <2>2, <2>4 DEF Heard
<1> QED  BY <1>1, <1>2, <1>3, <1>4, <1>5, <1>6, <1>7, <1>8, <1>9

LEMMA StatKeeps ==
  ASSUME Inv, Stat
  PROVE  Inv'
<1> DEFINE p == pass.at
<1>0. /\ TypeOK /\ Begun /\ Mirrored /\ Looking /\ Strangers /\ Observed /\ Held /\ HeardAll
      /\ Scanning /\ files' = files /\ touched' = touched /\ meddled' = meddled
      /\ remembered' = remembered
      /\ pass.phase = "stat"
  BY DEF Inv, Stat, Scanning
<1>1. p \in Paths /\ p \notin pass.todo
  BY <1>0, PassFields DEF Begun, TypeOK
<1>2. pass' \in Pass /\ (StatGone(p) \/ StatTrusts(p) \/ StatPasses(p) \/ StatReads(p))
  BY <1>0, <1>1, StatDoes
<1>3. CASE StatReads(p)
  <2>1. Known' = Known /\ (\A q \in Paths : Entry(q)' = Entry(q)) /\ pass.adopting = None
    BY <1>0, <1>3, SameMirror DEF StatReads, AsBefore, Steady, Begun
  <2>2. TypeOK' /\ Writing' /\ Mirrored'
    BY <1>0, <1>2, <1>3, ScanningKeeps DEF StatReads, AsBefore
  <2>3. files[p] # None /\ files[p].ver # None
    BY <1>0, <1>1, <1>3, SomeIsTyped DEF StatReads, File
  <2>4. Begun'
    BY <1>0, <1>1, <1>3, <2>3 DEF StatReads, Begun, AsBefore
  <2>5. Looking'
    BY <1>0, <1>3, <2>3 DEF Looking, StatReads
  <2>6. Strangers'
    <3>1. ASSUME NEW c \in pass.candidates  PROVE Stranger(c)'
      <4>1. Stranger(c) /\ c.path \in Paths
        BY <1>0, PassFields DEF Strangers, TypeOK, Candidate
      <4> QED  BY <1>0, <1>3, <2>1, <4>1 DEF Stranger, Walked, StatReads
    <3> QED  BY <1>3, <2>1, <3>1 DEF Strangers, StatReads, AsBefore
  <2>7. Observed'
    <3>1. ASSUME NEW ob \in pass.observed  PROVE Truthful(ob)'
      <4>1. Truthful(ob) /\ ob.path \in Paths
        BY <1>0, PassFields DEF Observed, TypeOK, Observation
      <4> QED  BY <1>0, <1>3, <2>1, <4>1 DEF Truthful, Walked, StatReads
    <3> QED  BY <1>0, <1>3, <3>1 DEF Observed, StatReads
  <2>8. Held'
    <3>1. ASSUME NEW i \in pass.held  PROVE i \in Known /\ (pass'.deferred \/ Vouched(i)')
      <4>1. i \in Known /\ (pass.deferred \/ Vouched(i))
        BY <1>0 DEF Held
      <4>2. pass.mirror[i] \in Row
        BY <1>0, <4>1, SomeIsTyped DEF Known
      <4>3. pass.mirror[i].path \in Paths
        BY <4>2 DEF Row
      <4> QED  BY <1>0, <1>3, <2>1, <4>1, <4>3 DEF Vouched, StatReads, AsBefore, Steady
    <3> QED  BY <1>3, <2>1, <3>1 DEF Held, StatReads
  <2>9. HeardAll'
    <3> SUFFICES ASSUME NEW q \in Paths, Walked(q)', There(q)', files'[q].id \in Known'
                 PROVE  Heard(q)'
      BY DEF HeardAll
    <3>1. Heard(q)
      BY <1>0, <1>3, <2>1 DEF HeardAll, Walked, There, StatReads
    <3>2. Memory' = Memory
      BY <1>0, <1>3 DEF Memory, StatReads
    <3> QED  BY <1>0, <1>3, <2>1, <3>1, <3>2 DEF Heard, Passed, StatReads, AsBefore, Steady
  <2> QED  BY <2>2, <2>4, <2>5, <2>6, <2>7, <2>8, <2>9 DEF Inv
<1>4. CASE StatGone(p) \/ StatTrusts(p) \/ StatPasses(p)
  <2>1. /\ Moved /\ (pass.deferred => pass'.deferred) /\ pass.held \subseteq pass'.held
        /\ pass'.observed = pass.observed /\ pass'.candidates = pass.candidates
        /\ \A q \in Paths \ {p} : pass'.learned[q] = pass.learned[q]
    <3>1. pass.learned \in Stats
      BY <1>0, PassFields DEF TypeOK
    <3> QED  BY <1>4, <3>1 DEF StatGone, StatTrusts, StatPasses, StatEnds, Stats
  <2>2. /\ Begun' /\ Looking' /\ (\A q \in Paths : Walked(q) \/ q = p => Walked(q)')
        /\ Known' = Known /\ (\A q \in Paths : Entry(q)' = Entry(q)) /\ pass.adopting = None
        /\ \A c \in pass.candidates : Stranger(c)'
        /\ \A ob \in pass.observed : Truthful(ob)' /\ ob.path # p
        /\ \A i \in pass.held : i \in Known /\ (pass'.deferred \/ Vouched(i)')
        /\ \A q \in Paths \ {p} : Walked(q)' /\ There(q)' /\ files'[q].id \in Known' => Heard(q)'
    <3>1. PICK r \in Paths : r = p
      BY <1>1
    <3> HIDE DEF p
    <3> QED  BY <1>0, <2>1, <3>1, VisitKeeps DEF p
  <2>3. TypeOK' /\ Writing' /\ Mirrored'
    BY <1>0, <1>2, <2>1, ScanningKeeps DEF Moved, AsBefore
  <2>4. Strangers'
    BY <2>1, <2>2 DEF Strangers, Moved, AsBefore
  <2>5. Observed'
    BY <1>0, <2>1, <2>2 DEF Observed
  <2>6. Held'
    <3>1. ASSUME NEW i \in pass'.held  PROVE i \in Known' /\ (pass'.deferred \/ Vouched(i)')
      <4>1. CASE i \in pass.held
        BY <2>2, <4>1
      <4>2. CASE i \in Entry(p) /\ StatGone(p)
        BY <1>0, <1>1, <2>2, <4>2, EntryIsOne DEF StatGone
      <4>3. CASE i \in Entry(p) /\ StatTrusts(p)
        <5>1. Entry(p) = {i} /\ i \in Known /\ pass.mirror[i].path = p
          BY <1>0, <1>1, <4>3, EntryIsOne
        <5>2. files[p] # None /\ ~pass.full /\ pass.mirror[i].stat = files[p].ver
          BY <4>3, <5>1 DEF StatTrusts, Trusts
        <5>3. pass'.full = pass.full /\ pass'.mirror = pass.mirror
          BY <2>1 DEF Moved, AsBefore, Steady
        <5>5. /\ ~pass'.full /\ files'[p] # None /\ files'[p].ver = pass'.mirror[i].stat
          BY <1>0, <5>2, <5>3
        <5>6. PICK r \in Paths : r = p
          BY <1>1
        <5> HIDE DEF p
        <5>7. Entry(r)' = {i} /\ pass'.mirror[i].path = r
          BY <5>1, <5>3, <5>6, <2>2
        <5>8. Vouched(i)'
          BY <5>5, <5>6, <5>7 DEF Vouched
        <5> QED  BY <2>2, <5>1, <5>8
      <4> QED  BY <1>4, <4>1, <4>2, <4>3 DEF StatGone, StatTrusts, StatPasses
    <3> QED  BY <3>1 DEF Held
  <2>7. HeardAll'
    <3> SUFFICES ASSUME NEW q \in Paths, Walked(q)', There(q)', files'[q].id \in Known'
                 PROVE  Heard(q)'
      BY DEF HeardAll
    <3>1. CASE q # p
      BY <2>2, <3>1
    <3>2. CASE q = p
      <4>1. files[q] # None /\ files[q].id \in Known /\ files'[q] = files[q]
        BY <1>0, <2>2 DEF There
      <4>2. Entry(q)' = Entry(q) /\ Entry(q) \subseteq Ids
        BY <1>0, <2>2, EntryIsOne
      <4>3. CASE StatGone(p)
        <5>1. pass'.deferred /\ pass'.held = pass.held \cup Entry(q) /\ Entry(q) # {}
          BY <3>2, <4>1, <4>3 DEF StatGone
        <5> QED  BY <4>1, <4>2, <5>1 DEF Heard
      <4>4. CASE StatTrusts(p)
        <5>1. PICK i \in Entry(q) : Trusts(i, files[q])
          BY <3>2, <4>4 DEF StatTrusts
        <5>2. CASE i = files[q].id
          BY <3>2, <4>1, <4>4, <5>1, <5>2 DEF StatTrusts, Heard
        <5>3. CASE i # files[q].id
          <6>1. Passed(q)'
            BY <2>1, <4>1, <4>2, <5>1, <5>3 DEF Passed, Trusts, Moved, AsBefore, Steady
          <6> QED  BY <6>1 DEF Heard
        <5> QED  BY <5>2, <5>3
      <4>5. CASE StatPasses(p)
        <5>1. /\ pass'.learned[q] = files[q].ver /\ ~pass.full /\ Entry(q) = {}
          <6>1. pass.learned \in Stats
            BY <1>0, PassFields DEF TypeOK
          <6> QED  BY <3>2, <4>5, <6>1 DEF StatPasses, Stats
        <5>2. Memory'[q] = files[q].ver /\ ~pass'.full
          BY <2>1, <5>1 DEF Memory, Moved, AsBefore, Steady
        <5>3. Passed(q)'
          BY <4>1, <4>2, <5>1, <5>2 DEF Passed
        <5> QED  BY <5>3 DEF Heard
      <4> QED  BY <1>4, <4>3, <4>4, <4>5
    <3> QED  BY <3>1, <3>2
  <2> QED  BY <2>2, <2>3, <2>4, <2>5, <2>6, <2>7 DEF Inv
<1> QED  BY <1>2, <1>3, <1>4

LEMMA ReadKeeps ==
  ASSUME Inv, Read
  PROVE  Inv'
<1> DEFINE p == pass.at
           seen == Observes(files[p], Entry(p))
<1>0. /\ TypeOK /\ Begun /\ Mirrored /\ Looking /\ Strangers /\ Observed /\ Held /\ HeardAll
      /\ Scanning /\ files' = files /\ touched' = touched /\ meddled' = meddled
      /\ remembered' = remembered
      /\ pass.phase = "read"
  BY DEF Inv, Read, Scanning
<1>1. p \in Paths /\ p \notin pass.todo /\ pass.stat # None /\ pass.stat \in Versions
  BY <1>0, PassFields DEF Begun, TypeOK
<1>2. pass' \in Pass /\ (ReadGone(p) \/ ReadSees(p) \/ ReadLearns(p))
  BY <1>0, <1>1, ReadDoes
<1>3. /\ Moved /\ (pass.deferred => pass'.deferred) /\ pass.held \subseteq pass'.held
      /\ pass.observed \subseteq pass'.observed
      /\ \A q \in Paths \ {p} : pass'.learned[q] = pass.learned[q]
  BY <1>2 DEF ReadGone, ReadSees, ReadLearns, ReadEnds
<1>4. /\ Begun' /\ Looking' /\ (\A q \in Paths : Walked(q) \/ q = p => Walked(q)')
      /\ Known' = Known /\ (\A q \in Paths : Entry(q)' = Entry(q)) /\ pass.adopting = None
      /\ \A c \in pass.candidates : Stranger(c)'
      /\ \A ob \in pass.observed : Truthful(ob)' /\ ob.path # p
      /\ \A i \in pass.held : i \in Known /\ (pass'.deferred \/ Vouched(i)')
      /\ \A q \in Paths \ {p} : Walked(q)' /\ There(q)' /\ files'[q].id \in Known' => Heard(q)'
  <2>1. PICK r \in Paths : r = p
    BY <1>1
  <2> HIDE DEF p
  <2> QED  BY <1>0, <1>3, <2>1, VisitKeeps DEF p
<1>5. TypeOK' /\ Writing' /\ Mirrored'
  BY <1>0, <1>2, <1>3, ScanningKeeps DEF Moved, AsBefore
<1>6. PICK r \in Paths : r = p
  BY <1>1
<1>7. /\ r \in Paths /\ pass.at = r /\ Walked(r)' /\ Entry(r)' = Entry(r) /\ seen = Observes(files[r], Entry(r))
      /\ r \notin touched => files[r] # None /\ files[r].ver = pass.stat
  BY <1>0, <1>4, <1>6 DEF Looking
<1>8. ASSUME NEW q \in Paths \ {r}, Walked(q)', There(q)', files'[q].id \in Known'  PROVE Heard(q)'
  BY <1>4, <1>6, <1>8
<1>9. \A ob \in pass.observed : Truthful(ob)' /\ ob.path # r
  BY <1>4, <1>6
<1>10. ReadGone(r) \/ ReadSees(r) \/ ReadLearns(r)
  BY <1>2, <1>6
<1> HIDE DEF p, seen
<1>11. CASE ReadGone(r)
  <2>1. Strangers'
    BY <1>3, <1>4, <1>11 DEF Strangers, ReadGone, Moved, AsBefore
  <2>2. Observed'
    BY <1>0, <1>9, <1>11 DEF Observed, ReadGone
  <2>3. Held'
    <3>1. Entry(r) \subseteq Known /\ pass'.deferred /\ pass'.held = pass.held \cup Entry(r)
      BY <1>0, <1>11, EntryIsOne DEF ReadGone
    <3> QED  BY <1>4, <3>1 DEF Held
  <2>4. HeardAll'
    BY <1>0, <1>8, <1>11 DEF HeardAll, There, ReadGone
  <2> QED  BY <1>4, <1>5, <2>1, <2>2, <2>3, <2>4 DEF Inv
<1>12. CASE ReadSees(r)
  <2>1. Strangers'
    BY <1>3, <1>4, <1>12 DEF Strangers, ReadSees, Moved, AsBefore
  <2>0. files[r] # None /\ pass'.observed = pass.observed \cup seen /\ seen # {}
    BY <1>7, <1>12 DEF ReadSees
  <2>a. PICK saw : saw = Observes(files[r], Entry(r))
    OBVIOUS
  <2>b. saw = seen
    BY <1>7, <2>a
  <2>c. /\ IsFiniteSet(seen)
        /\ \A a, b \in seen : a = b
        /\ \A ob \in seen :
               /\ ob.path = r /\ ob.hash = files[r].ver /\ ob.stat = pass.stat /\ ob.id \in Known
               /\ ob.derived => Entry(r) = {ob.id}
               /\ ~ob.derived => /\ files[r].id = ob.id /\ files[r].content # "locked"
                                 /\ ob.state = IF files[r].content = "good" THEN "ok" ELSE "unparsed"
        /\ files[r].id \in Known /\ files[r].content # "locked"
              => \E ob \in seen : ob.id = files[r].id /\ ~ob.derived
    BY <1>0, <1>1, <1>7, <2>0, <2>a, <2>b, ObservesOnce
  <2>2. Observed'
    <3>1. ASSUME NEW ob \in seen  PROVE Truthful(ob)'
      BY <1>0, <1>4, <1>7, <2>c, <3>1 DEF Truthful
    <3>2. IsFiniteSet(pass.observed \cup seen)
      BY <1>0, <2>c, FS_Union DEF Observed
    <3>3. \A a, b \in pass'.observed : a.path = b.path => a = b
      BY <1>0, <1>9, <2>0, <2>c DEF Observed
    <3> QED  BY <1>9, <2>0, <3>1, <3>2, <3>3 DEF Observed
  <2>3. Held'
    BY <1>3, <1>4, <1>12 DEF Held, ReadSees
  <2>4. HeardAll'
    <3> SUFFICES ASSUME There(r)', files'[r].id \in Known'
                 PROVE  Heard(r)'
      BY <1>8 DEF HeardAll
    <3>1. files'[r] = files[r] /\ files[r].id \in Known
      BY <1>0, <1>4
    <3>2. CASE files[r].content # "locked"
      <4>1. PICK ob \in seen : ob.id = files[r].id /\ ~ob.derived
        BY <2>c, <3>1, <3>2
      <4> QED  BY <2>0, <2>c, <3>1, <4>1 DEF Heard
    <3>3. CASE files[r].content = "locked"
      <4>1. PICK ob \in seen : Entry(r) = {ob.id} /\ ob.path = r
        BY <2>0, <2>c, <3>3
      <4>2. CASE ob.id = files[r].id
        BY <2>0, <3>1, <3>3, <4>1, <4>2 DEF Heard
      <4>3. CASE ob.id # files[r].id
        BY <1>7, <3>1, <3>3, <4>1, <4>3 DEF Heard, Passed
      <4> QED  BY <4>2, <4>3
    <3> QED  BY <3>2, <3>3
  <2> QED  BY <1>4, <1>5, <2>1, <2>2, <2>3, <2>4 DEF Inv
<1>13. CASE ReadLearns(r)
  <2>0. files[r] # None /\ Observes(files[r], Entry(r)) = {}
    BY <1>13 DEF ReadLearns
  <2>1. Entry(r) = {} /\ (files[r].content = "locked" \/ files[r].id \notin Known)
    <3>1. PICK saw : saw = Observes(files[r], Entry(r))
      OBVIOUS
    <3>2. saw = {}
      BY <2>0, <3>1
    <3> QED  BY <1>0, <1>1, <1>7, <2>0, <3>1, <3>2, ObservesOnce
  <2>2. Strangers'
    <3>1. ASSUME NEW c \in pass'.candidates, c \notin pass.candidates  PROVE Stranger(c)'
      <4>1. c.path = r /\ files[r].id \notin Known
        BY <1>13, <2>1, <3>1 DEF ReadLearns
      <4> QED  BY <1>0, <1>4, <1>7, <2>0, <2>1, <4>1 DEF Stranger
    <3> QED  BY <1>3, <1>4, <3>1 DEF Strangers, Moved, AsBefore
  <2>3. Observed'
    BY <1>0, <1>9, <1>13 DEF Observed, ReadLearns
  <2>4. Held'
    BY <1>3, <1>4, <1>13 DEF Held, ReadLearns
  <2>5. HeardAll'
    <3> SUFFICES ASSUME There(r)', files'[r].id \in Known'
                 PROVE  Heard(r)'
      BY <1>8 DEF HeardAll
    <3>1. files'[r] = files[r] /\ files[r].content = "locked"
      BY <1>0, <1>4, <2>1
    <3>2. pass'.deferred
      BY <1>13, <3>1 DEF ReadLearns
    <3> QED  BY <3>1, <3>2 DEF Heard
  <2> QED  BY <1>4, <1>5, <2>2, <2>3, <2>4, <2>5 DEF Inv
<1> QED  BY <1>10, <1>11, <1>12, <1>13

LEMMA WalkEndsKeeps ==
  ASSUME Inv, WalkEnds
  PROVE  Inv'
<1>0. /\ TypeOK /\ Begun /\ Writing /\ Mirrored /\ Strangers /\ Observed /\ Held /\ HeardAll
  BY DEF Inv
<1>1. /\ pass' \in Pass /\ pass'.phase = "adopt" /\ pass.phase = "walk" /\ pass.todo = {}
      /\ AsBefore /\ pass'.todo = pass.todo
      /\ pass'.at = pass.at /\ pass'.observed = pass.observed /\ pass'.held = pass.held
      /\ pass'.candidates = pass.candidates /\ pass'.learned = NoPaths
      /\ pass'.deferred = pass.deferred /\ remembered' = pass.learned /\ remembered' \in Stats
  BY <1>0, WalkEndsDoes
<1>2. UNCHANGED <<files, rows, writing, late, touched, meddled, disturbed, overtaken, devices, writes, faults>>
  BY DEF WalkEnds
<1>3. /\ Known' = Known /\ (\A q \in Paths : Entry(q)' = Entry(q)) /\ pass.at = None
      /\ (\A q : Walked(q)' = Walked(q)) /\ Memory' = Memory
  BY <1>0, <1>1, SameMirror DEF AsBefore, Steady, Begun, Walked, Memory
<1>4. TypeOK'
  BY <1>0, <1>1, <1>2 DEF TypeOK
<1>5. Begun'
  BY <1>0, <1>1 DEF Begun, AsBefore
<1>6. Writing' /\ Looking'
  BY <1>0, <1>1, <1>2, <1>3 DEF Writing, Looking
<1>7. Mirrored'
  BY <1>0, <1>1, <1>2, <1>3 DEF Mirrored, AsBefore, Steady
<1>8. Strangers'
  <2>1. ASSUME NEW c \in pass.candidates  PROVE Stranger(c)'
    <3>1. Stranger(c) /\ c.path \in Paths
      BY <1>0, PassFields DEF Strangers, TypeOK, Candidate
    <3> QED  BY <1>2, <1>3, <3>1 DEF Stranger
  <2> QED  BY <1>0, <1>1, <2>1 DEF Strangers, Begun, AsBefore
<1>9. Observed'
  <2>1. ASSUME NEW ob \in pass.observed  PROVE Truthful(ob)'
    <3>1. Truthful(ob) /\ ob.path \in Paths
      BY <1>0, PassFields DEF Observed, TypeOK, Observation
    <3> QED  BY <1>2, <1>3, <3>1 DEF Truthful
  <2> QED  BY <1>0, <1>1, <2>1 DEF Observed
<1>10. Held'
  <2>1. ASSUME NEW i \in pass.held  PROVE i \in Known' /\ (pass'.deferred \/ Vouched(i)')
    <3>1. i \in Known /\ (pass.deferred \/ Vouched(i))
      BY <1>0 DEF Held
    <3>2. pass.mirror[i] \in Row
      BY <1>0, <3>1, SomeIsTyped DEF Known
    <3>3. pass.mirror[i].path \in Paths
      BY <3>2 DEF Row
    <3> QED  BY <1>1, <1>2, <1>3, <3>1, <3>3 DEF Vouched, AsBefore, Steady
  <2> QED  BY <1>1, <2>1 DEF Held
<1>11. HeardAll'
  <2> SUFFICES ASSUME NEW q \in Paths, Walked(q)', There(q)', files'[q].id \in Known'
               PROVE  Heard(q)'
    BY DEF HeardAll
  <2>1. Heard(q)
    BY <1>0, <1>2, <1>3 DEF HeardAll, There
  <2> QED  BY <1>1, <1>2, <1>3, <2>1 DEF Heard, Passed, AsBefore, Steady
<1> QED  BY <1>4, <1>5, <1>6, <1>7, <1>8, <1>9, <1>10, <1>11 DEF Inv

-----------------------------------------------------------------------------
(* Adoption: it works on strangers only, and what it makes is a stranger too. *)

LEMMA AdoptionKeeps ==
  ASSUME Inv, Adopts, TypeOK', pass.phase = "adopt", NEW c \in Candidate, Stranger(c),
         pass'.stat = pass.stat,
         UNCHANGED <<writing, late, touched, overtaken>>,
         \A p \in Paths \ {c.path} : files'[p] = files[p] /\ remembered'[p] = remembered[p],
         files' # files => files'[c.path] # None /\ files'[c.path].id \notin Known,
         \A i \in Ids : rows[i] # None => rows'[i] = rows[i],
         pass'.adopting # None => pass'.adopting.cand = c /\ pass'.adopting.id \notin Known
  PROVE  Inv'
<1>0. /\ TypeOK /\ Begun /\ Writing /\ Mirrored /\ Strangers /\ Observed /\ Held /\ HeardAll
  BY DEF Inv
<1>1. /\ pass'.mirror = pass.mirror /\ pass'.full = pass.full /\ pass'.fetched = pass.fetched
      /\ pass'.phase = "adopt" /\ pass'.todo = pass.todo /\ pass'.at = pass.at
      /\ pass'.observed = pass.observed /\ pass'.held = pass.held
      /\ pass'.deferred = pass.deferred /\ pass'.learned = pass.learned
      /\ pass'.candidates \subseteq pass.candidates
  BY DEF Adopts, Steady
<1>2. /\ Known' = Known /\ (\A q \in Paths : Entry(q)' = Entry(q)) /\ pass.at = None
      /\ \A q : Walked(q)' = Walked(q)
  BY <1>0, <1>1, SameMirror DEF Begun, Walked
<1>3. c.path \in Paths
  BY DEF Candidate
<1>4. Begun'
  BY <1>0, <1>1 DEF Begun
<1>5. Writing'
  <2>1. \A o \in Ops : writing[o] # None => writing[o].id \in Ids
    BY <1>0, SomeIsTyped DEF Writer
  <2> QED  BY <1>0, <2>1 DEF Writing
<1>6. Mirrored'
  BY <1>0, <1>1, <1>2 DEF Mirrored, Known
<1>7. Looking'
  BY <1>1, <1>2 DEF Looking
<1>8. ASSUME NEW d \in Candidate, Stranger(d)  PROVE Stranger(d)'
  <2>1. d.path \in Paths
    BY DEF Candidate
  <2>2. CASE d.path # c.path
    BY <1>2, <1>8, <2>1, <2>2 DEF Stranger
  <2>3. CASE d.path = c.path
    BY <1>2, <1>8, <2>1, <2>3 DEF Stranger
  <2> QED  BY <2>2, <2>3
<1>9. Strangers'
  <2>1. pass.candidates \subseteq Candidate
    BY <1>0, PassFields DEF TypeOK
  <2> QED  BY <1>0, <1>1, <1>2, <1>8, <2>1 DEF Strangers
<1>10. Observed'
  <2>1. ASSUME NEW ob \in pass.observed  PROVE Truthful(ob)'
    <3>1. Truthful(ob) /\ ob.path \in Paths
      BY <1>0, PassFields DEF Observed, TypeOK, Observation
    <3>2. CASE ob.path # c.path
      BY <1>2, <3>1, <3>2 DEF Truthful
    <3>3. CASE ob.path = c.path
      <4>1. c.path \in touched
        BY <3>1, <3>3 DEF Truthful, Stranger
      <4> QED  BY <1>2, <3>1, <3>3, <4>1 DEF Truthful
    <3> QED  BY <3>2, <3>3
  <2> QED  BY <1>0, <1>1, <2>1 DEF Observed
<1>11. Held'
  <2>1. ASSUME NEW i \in pass.held  PROVE i \in Known' /\ (pass'.deferred \/ Vouched(i)')
    <3>1. i \in Known /\ (pass.deferred \/ Vouched(i))
      BY <1>0 DEF Held
    <3>2. pass.mirror[i] \in Row
      BY <1>0, <3>1, SomeIsTyped DEF Known
    <3>3. pass.mirror[i].path \in Paths
      BY <3>2 DEF Row
    <3>4. Vouched(i) => pass.mirror[i].path # c.path
      BY DEF Vouched, Stranger
    <3> QED  BY <1>1, <1>2, <3>1, <3>3, <3>4 DEF Vouched
  <2> QED  BY <1>1, <2>1 DEF Held
<1>12. HeardAll'
  <2> SUFFICES ASSUME NEW q \in Paths, Walked(q)', There(q)', files'[q].id \in Known'
               PROVE  Heard(q)'
    BY DEF HeardAll
  <2>1. q # c.path
    BY <1>2 DEF There, Stranger
  <2>2. files'[q] = files[q] /\ remembered'[q] = remembered[q]
    BY <2>1
  <2>3. Heard(q)
    BY <1>0, <1>2, <2>2 DEF HeardAll, There
  <2>4. Memory'[q] = Memory[q]
    BY <1>1, <2>2 DEF Memory
  <2>5. Passed(q) => Passed(q)'
    BY <1>1, <1>2, <2>2, <2>4 DEF Passed
  <2> QED  BY <1>1, <1>2, <2>2, <2>3, <2>5 DEF Heard
<1> QED  BY <1>4, <1>5, <1>6, <1>7, <1>9, <1>10, <1>11, <1>12 DEF Inv

LEMMA AdoptCheckKeeps ==
  ASSUME Inv, NEW c \in pass.candidates, AdoptCheck(c)
  PROVE  Inv'
<1>0. TypeOK /\ Mirrored /\ Strangers
  BY DEF Inv
<1>1. /\ pass' \in Pass /\ Adopts /\ pass.phase = "adopt" /\ pass'.stat = pass.stat
      /\ c \in Candidate
      /\ \/ pass'.adopting = None
         \/ \E i \in Ids : /\ rows[i] = None
                           /\ pass'.adopting = [cand |-> c, id |-> i, looked |-> FALSE, ver |-> None]
      /\ remembered' \in Stats
      /\ \A q \in Paths \ {c.path} : remembered'[q] = remembered[q]
  BY <1>0, AdoptCheckDoes
<1>2. UNCHANGED <<files, rows, faults, writing, late, touched, meddled, disturbed, overtaken, devices, writes>>
  BY DEF AdoptCheck, Unfinished
<1>3. TypeOK'
  BY <1>0, <1>1, <1>2 DEF TypeOK
<1>4. Stranger(c)
  BY <1>0 DEF Strangers
<1>5. pass'.adopting # None => pass'.adopting.cand = c /\ pass'.adopting.id \notin Known
  <2>1. ASSUME NEW i \in Ids, rows[i] = None,
               pass'.adopting = [cand |-> c, id |-> i, looked |-> FALSE, ver |-> None]
        PROVE  pass'.adopting.cand = c /\ pass'.adopting.id \notin Known
    <3>1. i \notin Known
      BY <1>0, <2>1 DEF Mirrored
    <3> QED  BY <2>1, <3>1
  <2> QED  BY <1>1, <2>1
<1> QED  BY <1>1, <1>2, <1>3, <1>4, <1>5, AdoptionKeeps

LEMMA AdoptLookKeeps ==
  ASSUME Inv, AdoptLook
  PROVE  Inv'
<1>0. TypeOK /\ Begun /\ Strangers
  BY DEF Inv
<1>1. /\ pass' \in Pass /\ Adopts /\ pass.adopting # None /\ pass'.stat = pass.stat
      /\ meddled' = FALSE
      /\ pass'.adopting # None => /\ pass'.adopting.cand = pass.adopting.cand
                                  /\ pass'.adopting.id = pass.adopting.id
  BY <1>0, AdoptLookDoes
<1>2. UNCHANGED <<files, rows, remembered, faults, writing, late, touched, disturbed, overtaken, devices, writes>>
  BY DEF AdoptLook, Unfinished
<1>3. TypeOK'
  BY <1>0, <1>1, <1>2 DEF TypeOK
<1>4. PICK c \in Candidate : c = pass.adopting.cand
  BY <1>0, <1>1, AdoptingIsTyped
<1>5. Stranger(c) /\ pass.adopting.id \notin Known /\ pass.phase = "adopt"
  BY <1>0, <1>1, <1>4 DEF Strangers, Begun
<1> QED  BY <1>1, <1>2, <1>3, <1>4, <1>5, AdoptionKeeps

LEMMA AdoptWriteKeeps ==
  ASSUME Inv, AdoptWrite
  PROVE  Inv'
<1>0. TypeOK /\ Begun /\ Strangers
  BY DEF Inv
<1>1. /\ pass' \in Pass /\ Adopts /\ pass.adopting # None /\ pass'.stat = pass.stat
      /\ files' \in [Paths -> File \cup {None}]
      /\ \A q \in Paths \ {pass.adopting.cand.path} : files'[q] = files[q]
      /\ files'[pass.adopting.cand.path] # None
      /\ files'[pass.adopting.cand.path].id = pass.adopting.id
      /\ pass'.adopting.cand = pass.adopting.cand /\ pass'.adopting.id = pass.adopting.id
  BY <1>0, AdoptWriteDoes
<1>2. UNCHANGED <<rows, remembered, faults, writing, late, touched, meddled, disturbed, overtaken, devices, writes>>
  BY DEF AdoptWrite, Unfinished
<1>3. TypeOK'
  BY <1>0, <1>1, <1>2 DEF TypeOK
<1>4. PICK c \in Candidate : c = pass.adopting.cand
  BY <1>0, <1>1, AdoptingIsTyped
<1>5. Stranger(c) /\ pass.adopting.id \notin Known /\ pass.phase = "adopt"
  BY <1>0, <1>1, <1>4 DEF Strangers, Begun
<1> QED  BY <1>1, <1>2, <1>3, <1>4, <1>5, AdoptionKeeps

LEMMA AdoptCommitKeeps ==
  ASSUME Inv, AdoptCommit
  PROVE  Inv'
<1>0. TypeOK /\ Begun /\ Strangers
  BY DEF Inv
<1>1. /\ pass' \in Pass /\ Adopts /\ pass'.adopting = None /\ pass'.stat = pass.stat
      /\ pass.adopting # None /\ pass.adopting.id \in Ids
      /\ rows[pass.adopting.id] = None /\ rows' \in [Ids -> Row \cup {None}]
      /\ rows'[pass.adopting.id] # None
      /\ \A j \in Ids \ {pass.adopting.id} : rows'[j] = rows[j]
  BY <1>0, AdoptCommitDoes
<1>2. UNCHANGED <<files, remembered, faults, writing, late, touched, meddled, disturbed, overtaken, devices, writes>>
  BY DEF AdoptCommit, Unfinished
<1>3. TypeOK'
  BY <1>0, <1>1, <1>2 DEF TypeOK
<1>4. PICK c \in Candidate : c = pass.adopting.cand
  BY <1>0, <1>1, AdoptingIsTyped
<1>5. Stranger(c) /\ pass.phase = "adopt"
  BY <1>0, <1>1, <1>4 DEF Strangers, Begun
<1> QED  BY <1>1, <1>2, <1>3, <1>5, AdoptionKeeps

LEMMA AdoptFailsKeeps ==
  ASSUME Inv, AdoptFails
  PROVE  Inv'
<1>0. TypeOK /\ Begun /\ Strangers
  BY DEF Inv
<1>1. /\ pass' \in Pass /\ Adopts /\ pass'.adopting = None /\ pass'.stat = pass.stat
      /\ pass.adopting # None /\ pass.adopting.cand.path \in Paths
      /\ remembered' \in Stats /\ faults' \in 0 .. MaxFaults
      /\ \A q \in Paths \ {pass.adopting.cand.path} : remembered'[q] = remembered[q]
  BY <1>0, AdoptFailsDoes
<1>2. UNCHANGED <<files, rows, writing, late, touched, meddled, disturbed, overtaken, devices, writes>>
  BY DEF AdoptFails, Unfinished
<1>3. TypeOK'
  BY <1>0, <1>1, <1>2 DEF TypeOK
<1>4. PICK c \in Candidate : c = pass.adopting.cand
  BY <1>0, <1>1, AdoptingIsTyped
<1>5. Stranger(c) /\ pass.phase = "adopt"
  BY <1>0, <1>1, <1>4 DEF Strangers, Begun
<1> QED  BY <1>1, <1>2, <1>3, <1>4, <1>5, AdoptionKeeps

-----------------------------------------------------------------------------
(* The updates: whose file speaks for a note, and what its row becomes. *)

LEMMA ChosenIsOne ==
  ASSUME TypeOK, Observed, NEW i \in Ids, NEW ob \in Chosen(i)
  PROVE  /\ Chosen(i) = {ob} /\ ob \in pass.observed /\ ob.id = i
         /\ ob \in Observation /\ i \notin pass.held
<1> DEFINE named == {o \in ObservedOf(i) : ~o.derived}
           ranked == IF named = {} THEN ObservedOf(i) ELSE named
           home == {o \in ranked : o.path = pass.mirror[i].path}
<1>1. pass.observed \subseteq Observation /\ IsFiniteSet(pass.observed)
  BY PassFields DEF TypeOK, Observed
<1>2. ObservedOf(i) \subseteq pass.observed /\ \A o \in ObservedOf(i) : o.id = i
  BY DEF ObservedOf
<1>3. ranked \subseteq ObservedOf(i) /\ home \subseteq ranked
  OBVIOUS
<1>4. i \notin pass.held /\ \/ Chosen(i) = home /\ Cardinality(home) = 1
                            \/ Chosen(i) = ranked /\ Cardinality(ranked) = 1
  BY DEF Chosen
<1>5. IsFiniteSet(home) /\ IsFiniteSet(ranked)
  <2>1. home \subseteq pass.observed /\ ranked \subseteq pass.observed
    BY <1>2, <1>3
  <2> QED  BY <1>1, <2>1, FS_Subset
<1> HIDE DEF home, ranked, named
<1>6. \E x : Chosen(i) = {x}
  <2>1. (Cardinality(home) = 1 => \E x : home = {x}) /\ (Cardinality(ranked) = 1 => \E x : ranked = {x})
    BY <1>5, OneElement
  <2> QED  BY <1>4, <2>1
<1>7. Chosen(i) = {ob}
  BY <1>6
<1> QED  BY <1>1, <1>2, <1>3, <1>4, <1>7

LEMMA TargetIs ==
  ASSUME Inv, pass.phase = "apply", NEW i \in Stale
  PROVE  /\ i \in Known /\ pass.fetched[i] \in Row /\ rows[i] \in Row /\ Target(i) \in Row
         /\ \/ /\ i \in Absent /\ Target(i).state = "missing"
               /\ Target(i).path = pass.fetched[i].path
            \/ /\ i \notin Absent /\ Target(i).state # "missing"
               /\ \E ob \in pass.observed :
                     /\ Chosen(i) = {ob} /\ Target(i).path = ob.path
                     /\ ob.state # "unreadable" => /\ Target(i).hash = ob.hash
                                                   /\ Target(i).stat = ob.stat
                                                   /\ Target(i).state = ob.state
<1>1. TypeOK /\ Observed /\ Mirrored
  BY DEF Inv
<1>2. i \in Known /\ i \in Ids /\ (i \in Absent \/ Chosen(i) # {})
  BY DEF Stale, Known
<1>3. pass.fetched[i] \in Row /\ rows[i] \in Row
  BY <1>1, <1>2, SomeIsTyped DEF Mirrored
<1> DEFINE r == pass.fetched[i]
           t == Target(i)
<1>4. CASE i \in Absent
  <2>1. t = [r EXCEPT !.state = "missing"]
    BY <1>4 DEF Target
  <2>2. t \in Row /\ t.state = "missing" /\ t.path = r.path
    BY <1>3, <2>1 DEF Row
  <2> QED  BY <1>2, <1>3, <1>4, <2>2
<1>5. CASE i \notin Absent
  <2>1. PICK ob \in Chosen(i) : ob = CHOOSE x \in Chosen(i) : TRUE
    BY <1>2, <1>5
  <2>2. Chosen(i) = {ob} /\ ob \in pass.observed /\ ob \in Observation
    BY <1>1, <1>2, <2>1, ChosenIsOne
  <2>3. t = IF ob.state = "unreadable"
            THEN [r EXCEPT !.path = ob.path, !.stat = None, !.state = "unparsed"]
            ELSE [path |-> ob.path, hash |-> ob.hash, stat |-> ob.stat, state |-> ob.state]
    BY <1>5, <2>1 DEF Target
  <2>4. t \in Row /\ t.state # "missing" /\ t.path = ob.path
    <3>1. /\ ob.path \in Paths /\ ob.hash \in Versions /\ ob.stat \in Versions
          /\ ob.state \in {"ok", "unparsed", "unreadable"}
      BY <2>2 DEF Observation
    <3>2. CASE ob.state = "unreadable"
      <4>1. t = [r EXCEPT !.path = ob.path, !.stat = None, !.state = "unparsed"]
        BY <2>3, <3>2
      <4> HIDE DEF t
      <4> QED  BY <1>3, <3>1, <4>1 DEF Row
    <3>3. CASE ob.state # "unreadable"
      <4>1. t = [path |-> ob.path, hash |-> ob.hash, stat |-> ob.stat, state |-> ob.state]
        BY <2>3, <3>3
      <4> HIDE DEF t
      <4> QED  BY <3>1, <3>3, <4>1 DEF Row
    <3> QED  BY <3>2, <3>3
  <2>5. ob.state # "unreadable" => t.hash = ob.hash /\ t.stat = ob.stat /\ t.state = ob.state
    BY <2>3
  <2> QED  BY <1>2, <1>3, <1>5, <2>2, <2>4, <2>5
<1> QED  BY <1>4, <1>5

LEMMA ColumnsAreWritten ==
  ASSUME NEW i, Target(i) \in Row, pass.fetched[i] \in Row, rows[i] \in Row
  PROVE  /\ Updated(i) \in Row
         /\ Updated(i).path = IF Target(i).path = pass.fetched[i].path THEN rows[i].path
                              ELSE Target(i).path
         /\ Updated(i).hash = IF Target(i).hash = pass.fetched[i].hash THEN rows[i].hash
                              ELSE Target(i).hash
         /\ Updated(i).stat = IF Target(i).stat = pass.fetched[i].stat THEN rows[i].stat
                              ELSE Target(i).stat
         /\ Updated(i).state = IF Target(i).state = pass.fetched[i].state THEN rows[i].state
                               ELSE Target(i).state
BY DEF Updated, Row

LEMMA ApplyDoes ==
  ASSUME Inv, Apply
  PROVE  /\ rows' \in [Ids -> Row \cup {None}] /\ PassOver /\ pass.phase = "apply"
         /\ UNCHANGED <<files, writing, remembered, devices, writes, faults>>
         /\ \A i \in Ids : /\ rows[i] # None => rows'[i] # None
                           /\ i \in NotNewer => /\ i \in Stale /\ i \notin late
                                                /\ rows'[i] = Updated(i)
                           /\ i \notin NotNewer => rows'[i] = rows[i]
<1>1. /\ pass.phase = "apply" /\ PassOver
      /\ UNCHANGED <<files, writing, remembered, devices, writes, faults>>
      /\ rows' = [i \in Ids |-> IF i \in NotNewer THEN Updated(i) ELSE rows[i]]
      /\ rows \in [Ids -> Row \cup {None}]
  BY DEF Apply, Inv, TypeOK
<1>2. ASSUME NEW i \in NotNewer
      PROVE  i \in Stale /\ i \notin late /\ Updated(i) \in Row /\ rows[i] # None
  <2>1. i \in Stale /\ i \notin late
    BY DEF NotNewer
  <2>2. Target(i) \in Row /\ pass.fetched[i] \in Row /\ rows[i] \in Row
    BY <1>1, <2>1, TargetIs
  <2> QED  BY <2>1, <2>2, ColumnsAreWritten
<1>3. rows' \in [Ids -> Row \cup {None}]
  BY <1>1, <1>2
<1>4. ASSUME NEW i \in Ids
      PROVE  /\ rows[i] # None => rows'[i] # None
             /\ i \in NotNewer => /\ i \in Stale /\ i \notin late
                                  /\ rows'[i] = Updated(i)
             /\ i \notin NotNewer => rows'[i] = rows[i]
  BY <1>1, <1>2
<1> QED  BY <1>1, <1>3, <1>4

-----------------------------------------------------------------------------
(* Where a pass begins, where it turns to the rows, and where it ends. *)

LEMMA BlankKeeps ==
  ASSUME TypeOK', Writing', Blank(pass'), pass'.phase \in {"rest", "mirror"}
  PROVE  Inv'
<1>1. Known' = {}
  BY DEF Blank, Known, NoRows
<1>2. Begun'
  BY DEF Begun, Blank
<1>3. Mirrored' /\ HeardAll'
  BY <1>1 DEF Mirrored, HeardAll
<1>4. Looking' /\ Strangers' /\ Held'
  BY DEF Looking, Strangers, Held, Blank
<1>5. Observed'
  BY FS_EmptySet DEF Observed, Blank
<1> QED  BY <1>2, <1>3, <1>4, <1>5 DEF Inv

LEMMA OverKeeps ==
  ASSUME PassOver, TypeOK, Writing', files' = files, rows' \in [Ids -> Row \cup {None}],
         writing' \in [Ops -> Writer \cup {None}], remembered' \in Stats,
         UNCHANGED <<devices, writes>>, faults' \in 0 .. MaxFaults
  PROVE  Inv'
<1>1. pass' \in Pass /\ Blank(pass') /\ pass'.phase = "rest"
  BY RestIsBlank DEF PassOver
<1>2. TypeOK'
  BY <1>1 DEF TypeOK, PassOver
<1> QED  BY <1>1, <1>2, BlankKeeps

LEMMA BeginKeeps ==
  ASSUME Inv, Begin
  PROVE  Inv'
<1>0. TypeOK /\ Writing
  BY DEF Inv
<1>1. pass' \in Pass /\ Blank(pass') /\ pass'.phase = "mirror"
  BY BeginDoes
<1>2. /\ late' = {} /\ touched' = {} /\ meddled' = FALSE /\ disturbed' = {} /\ overtaken' = {}
      /\ writing' = [o \in Ops |-> IF writing[o] = None THEN None
                                   ELSE [writing[o] EXCEPT !.early = TRUE]]
      /\ UNCHANGED <<files, rows, remembered, devices, writes, faults>>
  BY DEF Begin
<1>3. ASSUME NEW w \in Writer
      PROVE  /\ [w EXCEPT !.early = TRUE] \in Writer
             /\ [w EXCEPT !.early = TRUE].id = w.id /\ [w EXCEPT !.early = TRUE].step = w.step
             /\ [w EXCEPT !.early = TRUE].ver = w.ver
  BY DEF Writer
<1>4. ASSUME NEW o \in Ops
      PROVE  /\ writing[o] = None => writing'[o] = None
             /\ writing[o] # None => /\ writing'[o] \in Writer /\ writing'[o].id = writing[o].id
                                     /\ writing'[o].step = writing[o].step
                                     /\ writing'[o].ver = writing[o].ver
  BY <1>0, <1>2, <1>3, SomeIsTyped
<1>5. writing' \in [Ops -> Writer \cup {None}]
  <2>1. ASSUME NEW o \in Ops  PROVE writing'[o] \in Writer \cup {None}
    BY <1>4
  <2> QED  BY <1>2, <2>1
<1>6. TypeOK'
  BY <1>0, <1>1, <1>2, <1>5 DEF TypeOK
<1>7. Writing'
  BY <1>0, <1>2, <1>4 DEF Writing
<1> QED  BY <1>1, <1>6, <1>7, BlankKeeps

LEMMA ReadMirrorKeeps ==
  ASSUME Inv, ReadMirror
  PROVE  Inv'
<1>0. TypeOK /\ Begun /\ Writing /\ pass.phase = "mirror"
  BY DEF Inv, ReadMirror
<1>1. /\ pass' \in Pass /\ pass'.phase = "walk" /\ pass'.mirror = rows /\ pass'.todo = Paths
      /\ pass'.at = pass.at /\ pass'.observed = pass.observed /\ pass'.held = pass.held
      /\ pass'.candidates = pass.candidates /\ pass'.learned = pass.learned
      /\ pass'.deferred = pass.deferred /\ pass'.adopting = pass.adopting
  BY <1>0, ReadMirrorDoes
<1>2. UNCHANGED <<files, rows, writing, late, remembered, touched, meddled, disturbed, overtaken,
                  devices, writes, faults>>
  BY DEF ReadMirror
<1>3. /\ pass.observed = {} /\ pass.held = {} /\ pass.candidates = {}
      /\ pass.at = None /\ pass.adopting = None
  BY <1>0, AtRestNothing
<1>4. TypeOK'
  BY <1>0, <1>1, <1>2 DEF TypeOK
<1>5. Begun'
  BY <1>1, <1>3 DEF Begun
<1>6. Writing'
  BY <1>0, <1>2 DEF Writing
<1>7. Mirrored'
  BY <1>1, <1>2 DEF Mirrored, Known
<1>8. Looking' /\ Strangers' /\ Held'
  BY <1>1, <1>3 DEF Looking, Strangers, Held
<1>9. Observed'
  BY <1>1, <1>3, FS_EmptySet DEF Observed
<1>10. HeardAll'
  BY <1>1 DEF HeardAll, Walked
<1> QED  BY <1>4, <1>5, <1>6, <1>7, <1>8, <1>9, <1>10 DEF Inv

LEMMA FetchKeeps ==
  ASSUME Inv, Fetch
  PROVE  Inv'
<1>0. /\ TypeOK /\ Begun /\ Writing /\ Mirrored /\ Strangers /\ Observed /\ Held /\ HeardAll
  BY DEF Inv
<1>1. /\ pass' \in Pass /\ pass'.phase = "apply" /\ pass.phase = "adopt"
      /\ pass'.full = pass.full /\ pass'.mirror = pass.mirror /\ pass'.fetched = rows
      /\ pass.adopting = None /\ pass'.adopting = None
      /\ pass'.todo = pass.todo
      /\ pass'.at = pass.at /\ pass'.observed = pass.observed /\ pass'.held = pass.held
      /\ pass.candidates = {} /\ pass'.candidates = {} /\ pass'.learned = pass.learned
      /\ pass'.deferred = pass.deferred
  BY <1>0, FetchDoes
<1>2. UNCHANGED <<files, rows, remembered, faults, writing, late, touched, meddled, disturbed, overtaken,
                  devices, writes>>
  BY DEF Fetch, Unfinished
<1>3. /\ Known' = Known /\ (\A q \in Paths : Entry(q)' = Entry(q)) /\ pass.at = None
      /\ (\A q : Walked(q)' = Walked(q)) /\ Memory' = Memory
  BY <1>0, <1>1, <1>2, SameMirror DEF Begun, Walked, Memory
<1>4. TypeOK'
  BY <1>0, <1>1, <1>2 DEF TypeOK
<1>5. Begun' /\ Writing' /\ Looking' /\ Strangers'
  BY <1>0, <1>1, <1>2, <1>3 DEF Begun, Writing, Looking, Strangers
<1>6. Mirrored'
  BY <1>0, <1>1, <1>2, <1>3 DEF Mirrored
<1>7. Observed'
  <2>1. ASSUME NEW ob \in pass.observed  PROVE Truthful(ob)'
    <3>1. Truthful(ob) /\ ob.path \in Paths
      BY <1>0, PassFields DEF Observed, TypeOK, Observation
    <3> QED  BY <1>2, <1>3, <3>1 DEF Truthful
  <2> QED  BY <1>0, <1>1, <2>1 DEF Observed
<1>8. Held'
  <2>1. ASSUME NEW i \in pass.held  PROVE i \in Known' /\ (pass'.deferred \/ Vouched(i)')
    <3>1. i \in Known /\ (pass.deferred \/ Vouched(i))
      BY <1>0 DEF Held
    <3>2. pass.mirror[i] \in Row
      BY <1>0, <3>1, SomeIsTyped DEF Known
    <3>3. pass.mirror[i].path \in Paths
      BY <3>2 DEF Row
    <3> QED  BY <1>1, <1>2, <1>3, <3>1, <3>3 DEF Vouched
  <2> QED  BY <1>1, <2>1 DEF Held
<1>9. HeardAll'
  <2> SUFFICES ASSUME NEW q \in Paths, Walked(q)', There(q)', files'[q].id \in Known'
               PROVE  Heard(q)'
    BY DEF HeardAll
  <2>1. Heard(q)
    BY <1>0, <1>2, <1>3 DEF HeardAll, There
  <2>2. Passed(q) => Passed(q)'
    BY <1>1, <1>2, <1>3 DEF Passed
  <2> QED  BY <1>1, <1>2, <1>3, <2>1, <2>2 DEF Heard
<1> QED  BY <1>4, <1>5, <1>6, <1>7, <1>8, <1>9 DEF Inv

LEMMA ApplyKeeps ==
  ASSUME Inv, Apply
  PROVE  Inv'
<1>1. /\ rows' \in [Ids -> Row \cup {None}] /\ PassOver
      /\ UNCHANGED <<files, writing, remembered, devices, writes, faults>>
      /\ \A i \in Ids : rows[i] # None => rows'[i] # None
  BY ApplyDoes
<1>2. TypeOK /\ Writing
  BY DEF Inv
<1>3. Writing'
  <2>1. \A o \in Ops : writing[o] # None => writing[o].id \in Ids
    BY <1>2, SomeIsTyped DEF Writer
  <2> QED  BY <1>1, <1>2, <2>1 DEF Writing
<1>4. /\ files' = files /\ writing' \in [Ops -> Writer \cup {None}] /\ remembered' \in Stats
      /\ UNCHANGED <<devices, writes>> /\ faults' \in 0 .. MaxFaults
  BY <1>1, <1>2 DEF TypeOK
<1> QED  BY <1>1, <1>2, <1>3, <1>4, OverKeeps

LEMMA PassFailsKeeps ==
  ASSUME Inv, PassFails
  PROVE  Inv'
<1>1. TypeOK /\ Writing
  BY DEF Inv
<1>2. /\ PassOver /\ UNCHANGED <<files, rows, writing, remembered, devices, writes>>
      /\ faults' \in 0 .. MaxFaults
  BY <1>1 DEF PassFails, TypeOK
<1>3. Writing'
  BY <1>1, <1>2 DEF Writing
<1>4. /\ rows' \in [Ids -> Row \cup {None}] /\ writing' \in [Ops -> Writer \cup {None}]
      /\ remembered' \in Stats
  BY <1>1, <1>2 DEF TypeOK
<1> QED  BY <1>1, <1>2, <1>3, <1>4, OverKeeps

LEMMA CrashKeeps ==
  ASSUME Inv, Crash
  PROVE  Inv'
<1>1. TypeOK
  BY DEF Inv
<1>2. /\ PassOver /\ UNCHANGED <<files, rows, devices, writes>>
      /\ remembered' = NoPaths /\ writing' = [o \in Ops |-> None]
      /\ faults' \in 0 .. MaxFaults
  BY <1>1 DEF Crash, TypeOK
<1>3. Writing'
  BY <1>2 DEF Writing
<1>4. /\ rows' \in [Ids -> Row \cup {None}] /\ writing' \in [Ops -> Writer \cup {None}]
      /\ remembered' \in Stats
  BY <1>1, <1>2 DEF TypeOK, NoPaths, Stats
<1> QED  BY <1>1, <1>2, <1>3, <1>4, OverKeeps

-----------------------------------------------------------------------------
(* The invariant holds. *)

LEMMA InvInductive == Inv /\ [Next]_vars => Inv'
<1> SUFFICES ASSUME Inv, [Next]_vars  PROVE Inv'
  OBVIOUS
<1>1. CASE UNCHANGED vars
  <2>1. /\ UNCHANGED <<files, rows, writing, late, remembered, pass, touched, meddled, disturbed>>
        /\ UNCHANGED <<overtaken, devices, writes, faults>>
    BY <1>1 DEF vars
  <2>2. TypeOK' /\ Writing'
    BY <2>1 DEF Inv, TypeOK, Writing
  <2>3. Outside
    BY <2>1, <2>2 DEF Outside, Alike
  <2> QED  BY <2>3, OutsideKeeps
<1>2. CASE PassStep
  <2>1. CASE Begin
    BY <2>1, BeginKeeps
  <2>2. CASE ReadMirror
    BY <2>2, ReadMirrorKeeps
  <2>3. CASE \E p \in Paths : List(p)
    BY <2>3, ListKeeps
  <2>4. CASE Stat
    BY <2>4, StatKeeps
  <2>5. CASE Read
    BY <2>5, ReadKeeps
  <2>6. CASE WalkEnds
    BY <2>6, WalkEndsKeeps
  <2>7. CASE Adopt
    BY <2>7, AdoptCheckKeeps, AdoptLookKeeps, AdoptWriteKeeps, AdoptCommitKeeps DEF Adopt
  <2>8. CASE AdoptFails
    BY <2>8, AdoptFailsKeeps
  <2>9. CASE Fetch
    BY <2>9, FetchKeeps
  <2>10. CASE Apply
    BY <2>10, ApplyKeeps
  <2> QED  BY <1>2, <2>1, <2>2, <2>3, <2>4, <2>5, <2>6, <2>7, <2>8, <2>9, <2>10 DEF PassStep
<1>3. CASE PassFails \/ Crash
  BY <1>3, PassFailsKeeps, CrashKeeps
<1>4. CASE \E o \in Ops : BeginWrite(o) \/ WriterStep(o)
  <2>1. Outside
    BY <1>4, BeginWriteOutside, WriteFileOutside, UnlinkOutside, CommitOutside, WriteFailsOutside
       DEF WriterStep
  <2> QED  BY <2>1, OutsideKeeps
<1>5. CASE Device \/ \E p \in Paths : Settle(p)
  <2>1. Outside
    BY <1>5, DevicesOutside, SettleOutside
  <2> QED  BY <2>1, OutsideKeeps
<1> QED  BY <1>1, <1>2, <1>3, <1>4, <1>5 DEF Next

LEMMA InitEstablishes == Init => Inv
<1> SUFFICES ASSUME Init  PROVE Inv
  OBVIOUS
<1>1. TypeOK
  BY InitTypes
<1>2. pass = Rest /\ writing = [o \in Ops |-> None]
  BY DEF Init
<1>3. Blank(pass) /\ pass.phase = "rest"
  BY <1>2, RestIsBlank
<1>4. Known = {}
  BY <1>3 DEF Blank, Known, NoRows
<1>5. Begun
  BY <1>3 DEF Begun, Blank
<1>6. Writing
  BY <1>2 DEF Writing
<1>7. Mirrored /\ HeardAll
  BY <1>4 DEF Mirrored, HeardAll
<1>8. Looking /\ Strangers /\ Held
  BY <1>3 DEF Looking, Strangers, Held, Blank
<1>9. Observed
  BY <1>3, FS_EmptySet DEF Observed, Blank
<1> QED  BY <1>1, <1>5, <1>6, <1>7, <1>8, <1>9 DEF Inv

LEMMA PassesKeepFaith == Spec => []Inv
BY InvInductive, InitEstablishes, PTL DEF Spec

\* The types of the mirror, of the filesystem and of a pass, for any notes,
\* paths and writers: what every other argument about a pass begins with.
THEOREM ReconcilerTypes == Spec => []TypeOK
<1>1. Inv => TypeOK
  BY DEF Inv
<1> QED  BY <1>1, PassesKeepFaith, PTL

-----------------------------------------------------------------------------
(* What the updates do to a note's row. *)

LEMMA AllHeard ==
  ASSUME Inv, pass.phase = "apply", NEW i \in Known, NEW p \in Names(i) \ touched, ~Overlooked(p)
  PROVE  \/ i \in pass.held
         \/ \E ob \in pass.observed : ob.path = p /\ ob.id = i
                                        /\ (~ob.derived \/ files[p].content = "locked")
         \/ pass.deferred /\ (Entry(p) \ {i} # {} \/ files[p].content = "locked")
<1>1. Begun /\ HeardAll
  BY DEF Inv
<1>2. p \in Paths /\ files[p] # None /\ files[p].id = i /\ p \notin touched
  BY DEF Names
<1>3. Walked(p) /\ There(p)
  BY <1>1, <1>2 DEF Begun, Walked, There
<1>4. Heard(p)
  BY <1>1, <1>2, <1>3 DEF HeardAll
<1>5. ~Passed(p)
  BY DEF Passed, Overlooked, Memory
<1> QED  BY <1>2, <1>4, <1>5 DEF Heard

LEMMA HomeWins ==
  ASSUME TypeOK, Observed, NEW i \in Ids, i \notin pass.held, NEW ob \in pass.observed,
         ob.id = i, ~ob.derived, ob.path = pass.mirror[i].path
  PROVE  Chosen(i) = {ob}
<1> DEFINE named == {o \in ObservedOf(i) : ~o.derived}
           ranked == IF named = {} THEN ObservedOf(i) ELSE named
           home == {o \in ranked : o.path = pass.mirror[i].path}
<1>1. ob \in named /\ named \subseteq pass.observed
  BY DEF ObservedOf
<1>2. home = {ob}
  BY <1>1 DEF Observed
<1>3. Cardinality({ob}) = 1
  BY FS_Singleton
<1>4. Cardinality(home) = 1
  BY <1>2, <1>3
<1>5. Chosen(i) = home
  BY <1>4 DEF Chosen
<1> QED  BY <1>2, <1>5

\* A note is not declared missing while a file that names it stood at one place
\* from the start of the pass to its end, but for files a pass may pass over:
\* however many notes, devices, writers and copies there are, and whatever they
\* do to other files meanwhile (_scan, _reconcile_rows).
THEOREM MissingIsObserved == Spec => PresentNeverMissing
<1>1. ASSUME Inv, NEW i \in Ids, Apply, Live(i), rows'[i].state = "missing",
             NEW p \in Names(i) \ touched
      PROVE  Overlooked(p)
  <2>1. /\ pass.phase = "apply"
        /\ i \in NotNewer => i \in Stale /\ rows'[i] = Updated(i)
        /\ i \notin NotNewer => rows'[i] = rows[i]
    BY <1>1, ApplyDoes
  <2>2. i \in Stale /\ rows'[i] = Updated(i)
    BY <1>1, <2>1 DEF Live
  <2>3. i \in Known /\ i \in Absent
    <3>1. /\ i \in Known /\ Target(i) \in Row /\ pass.fetched[i] \in Row /\ rows[i] \in Row
          /\ i \notin Absent => Target(i).state # "missing"
      BY <1>1, <2>1, <2>2, TargetIs
    <3>2. Target(i).state = "missing"
      BY <1>1, <2>2, <3>1, ColumnsAreWritten DEF Live
    <3> QED  BY <3>1, <3>2
  <2>4. ~pass.deferred /\ i \notin pass.held /\ ObservedOf(i) = {}
    BY <2>3 DEF Absent
  <2> QED  BY <1>1, <2>1, <2>3, <2>4, AllHeard DEF ObservedOf
<1>2. Inv /\ [Next]_vars
      => [\A i \in Ids : Apply /\ Live(i) /\ rows'[i].state = "missing"
            => \A p \in Names(i) \ touched : Overlooked(p)]_vars
  BY <1>1
<1> QED  BY <1>2, PassesKeepFaith, PTL DEF PresentNeverMissing, Spec

\* A second copy never takes the row of a note whose own file stood readable at
\* its recorded path all the time, for any number of copies, notes and writers
\* (_choose_observations, and the columns _apply writes).
THEOREM RowsStayHome == Spec => CopyNeverTakesTheRow
<1>1. ASSUME Inv, NEW i \in Ids, Apply, i \notin overtaken, AtHome(i)
      PROVE  rows'[i].path = rows[i].path
  <2>1. /\ pass.phase = "apply"
        /\ i \in NotNewer => i \in Stale /\ i \notin late /\ rows'[i] = Updated(i)
        /\ i \notin NotNewer => rows'[i] = rows[i]
    BY <1>1, ApplyDoes
  <2>2. SUFFICES ASSUME i \in NotNewer  PROVE rows'[i].path = rows[i].path
    BY <2>1
  <2>3. i \in Stale /\ i \notin late /\ rows'[i] = Updated(i)
    BY <2>1, <2>2
  <2>4. /\ i \in Known /\ Target(i) \in Row /\ pass.fetched[i] \in Row /\ rows[i] \in Row
        /\ \/ i \in Absent /\ Target(i).path = pass.fetched[i].path
           \/ i \notin Absent /\ \E ob \in pass.observed : Chosen(i) = {ob} /\ Target(i).path = ob.path
    BY <1>1, <2>1, <2>3, TargetIs
  <2>5. TypeOK /\ Observed /\ rows[i] = pass.mirror[i] /\ pass.fetched[i] = pass.mirror[i]
    BY <1>1, <2>1, <2>3, <2>4 DEF Inv, Mirrored
  <2>6. PICK p \in Paths : p = rows[i].path
    BY <2>4 DEF Row
  <2>7. Target(i).path = p
    <3>1. CASE i \in Absent
      BY <2>4, <2>5, <2>6, <3>1
    <3>2. CASE i \notin Absent
      <4>1. PICK ob \in pass.observed : Chosen(i) = {ob} /\ Target(i).path = ob.path
        BY <2>4, <3>2
      <4>2. i \notin pass.held
        BY <2>5, <4>1, ChosenIsOne
      <4>3. /\ p \in Names(i) \ touched /\ files[p].content # "locked" /\ Entry(p) \subseteq {i}
            /\ ~Overlooked(p)
        BY <1>1, <2>6 DEF AtHome
      <4>4. PICK own \in pass.observed : own.path = p /\ own.id = i /\ ~own.derived
        BY <1>1, <2>1, <2>4, <4>2, <4>3, AllHeard
      <4>5. Chosen(i) = {own}
        BY <2>5, <2>6, <4>2, <4>4, HomeWins
      <4> QED  BY <4>1, <4>4, <4>5
    <3> QED  BY <3>1, <3>2
  <2> QED  BY <2>3, <2>4, <2>5, <2>6, <2>7, ColumnsAreWritten
<1>2. Inv /\ [Next]_vars
      => [\A i \in Ids : Apply /\ i \notin overtaken /\ AtHome(i)
            => rows'[i].path = rows[i].path]_vars
  BY <1>1
<1> QED  BY <1>2, PassesKeepFaith, PTL DEF CopyNeverTakesTheRow, Spec

-----------------------------------------------------------------------------
(* A pass that nothing disturbed. *)

LEMMA QuietRows ==
  ASSUME Inv, Apply, Quiet, NEW i \in Known
  PROVE  /\ pass.mirror[i] = rows[i] /\ rows[i] \in Row
         /\ i \in Absent => rows'[i].state = "missing"
         /\ i \notin Absent /\ Chosen(i) = {} => rows'[i] = rows[i]
         /\ \A ob \in pass.observed : i \notin Absent /\ Chosen(i) = {ob} =>
               /\ rows'[i].path = ob.path
               /\ ob.state # "unreadable" => rows'[i].hash = ob.hash /\ rows'[i].state = ob.state
<1>1. /\ pass.phase = "apply" /\ i \in Ids
      /\ i \in NotNewer => i \in Stale /\ rows'[i] = Updated(i)
      /\ i \notin NotNewer => rows'[i] = rows[i]
  BY ApplyDoes DEF Known
<1>2. TypeOK /\ Observed /\ Mirrored /\ late = {} /\ overtaken = {}
  BY DEF Inv, Quiet
<1>3. pass.mirror[i] = rows[i] /\ pass.fetched[i] = rows[i] /\ rows[i] \in Row
  BY <1>1, <1>2, SomeIsTyped DEF Mirrored
<1>4. NotNewer = Stale
  BY <1>2 DEF NotNewer
<1>5. CASE i \in Stale
  <2>1. /\ Target(i) \in Row
        /\ \/ i \in Absent /\ Target(i).state = "missing"
           \/ /\ i \notin Absent
              /\ \E ob \in pass.observed :
                    /\ Chosen(i) = {ob} /\ Target(i).path = ob.path
                    /\ ob.state # "unreadable" => /\ Target(i).hash = ob.hash
                                                  /\ Target(i).state = ob.state
    BY <1>1, <1>5, TargetIs
  <2>2. /\ rows'[i].path = Target(i).path /\ rows'[i].hash = Target(i).hash
        /\ rows'[i].state = Target(i).state
    BY <1>1, <1>3, <1>4, <1>5, <2>1, ColumnsAreWritten
  <2> QED  BY <1>3, <2>1, <2>2
<1>6. CASE i \notin Stale
  <2>1. rows'[i] = rows[i]
    BY <1>1, <1>4, <1>6
  <2>2. CASE i \in Absent
    <3>1. Target(i) = rows[i] /\ Target(i) = [rows[i] EXCEPT !.state = "missing"]
      BY <1>3, <1>6, <2>2 DEF Stale, Target
    <3>2. [rows[i] EXCEPT !.state = "missing"].state = "missing"
      BY <1>3 DEF Row
    <3> QED  BY <1>3, <2>1, <2>2, <3>1, <3>2
  <2>3. ASSUME i \notin Absent, NEW ob \in pass.observed, Chosen(i) = {ob}
        PROVE  /\ rows[i].path = ob.path
               /\ ob.state # "unreadable" => rows[i].hash = ob.hash /\ rows[i].state = ob.state
    <3>1. Target(i) = rows[i]
      BY <1>3, <1>6, <2>3 DEF Stale
    <3>2. PICK only \in Chosen(i) : only = CHOOSE o \in Chosen(i) : TRUE
      BY <2>3
    <3>3. only = ob
      BY <2>3, <3>2
    <3>4. rows[i] = IF ob.state = "unreadable"
                    THEN [rows[i] EXCEPT !.path = ob.path, !.stat = None, !.state = "unparsed"]
                    ELSE [path |-> ob.path, hash |-> ob.hash, stat |-> ob.stat, state |-> ob.state]
      BY <1>3, <2>3, <3>1, <3>2, <3>3 DEF Target
    <3>5. CASE ob.state = "unreadable"
      <4>1. [rows[i] EXCEPT !.path = ob.path, !.stat = None, !.state = "unparsed"].path = ob.path
        BY <1>3 DEF Row
      <4> QED  BY <3>4, <3>5, <4>1
    <3>6. CASE ob.state # "unreadable"
      <4>1. rows[i] = [path |-> ob.path, hash |-> ob.hash, stat |-> ob.stat, state |-> ob.state]
        BY <3>4, <3>6
      <4> QED  BY <4>1
    <3> QED  BY <3>5, <3>6
  <2> QED  BY <1>3, <2>1, <2>2, <2>3
<1> QED  BY <1>5, <1>6

(* What a quiet pass knows of note i: its readable files, each by an
   observation of its own, and whether anything lies at its recorded path. *)
LEMMA QuietSees ==
  ASSUME Inv, Apply, Quiet, NEW i \in Known, \A p \in Readable(i) : ~Overlooked(p)
  PROVE  /\ i \notin pass.held => \A p \in Readable(i) :
               \E ob \in ObservedOf(i) : ob.path = p /\ ~ob.derived
         /\ \A ob \in ObservedOf(i) :
               /\ ob \in pass.observed /\ ob.id = i /\ ob \in Observation
               /\ files[ob.path] # None /\ ob.hash = files[ob.path].ver
               /\ ~ob.derived => /\ ob.path \in Readable(i)
                                 /\ ob.state = IF files[ob.path].content = "good" THEN "ok"
                                               ELSE "unparsed"
               /\ ob.derived => ob.path = rows[i].path
<1>1. pass.phase = "apply" /\ touched = {} /\ ~pass.deferred /\ TypeOK /\ Observed
  BY ApplyDoes DEF Quiet, Inv
<1>2. ASSUME i \notin pass.held, NEW p \in Readable(i)
      PROVE  \E ob \in ObservedOf(i) : ob.path = p /\ ~ob.derived
  <2>1. p \in Names(i) \ touched /\ files[p].content # "locked" /\ ~Overlooked(p)
    BY <1>1, <1>2 DEF Readable
  <2> QED  BY <1>1, <1>2, <2>1, AllHeard DEF ObservedOf
<1>3. ASSUME NEW ob \in ObservedOf(i)
      PROVE  /\ ob \in pass.observed /\ ob.id = i /\ ob \in Observation
             /\ files[ob.path] # None /\ ob.hash = files[ob.path].ver
             /\ ~ob.derived => /\ ob.path \in Readable(i)
                               /\ ob.state = IF files[ob.path].content = "good" THEN "ok"
                                             ELSE "unparsed"
             /\ ob.derived => ob.path = rows[i].path
  <2>1. ob \in pass.observed /\ ob.id = i
    BY <1>3 DEF ObservedOf
  <2>2. ob \in Observation /\ ob.path \in Paths /\ Truthful(ob)
    BY <1>1, <2>1, PassFields DEF TypeOK, Observation, Observed
  <2>3. /\ files[ob.path] # None /\ ob.hash = files[ob.path].ver
        /\ ~ob.derived => /\ files[ob.path].id = i /\ files[ob.path].content # "locked"
                          /\ ob.state = IF files[ob.path].content = "good" THEN "ok"
                                        ELSE "unparsed"
        /\ ob.derived => Entry(ob.path) = {i}
    BY <1>1, <2>1, <2>2 DEF Truthful
  <2>4. ob.derived => ob.path = rows[i].path
    <3>1. PICK p \in Paths : p = ob.path
      BY <2>2
    <3>2. Entry(p) = {i} => pass.mirror[i].path = p
      BY <1>1, EntryIsOne
    <3> QED  BY <2>3, <3>1, <3>2, QuietRows
  <2> QED  BY <2>1, <2>2, <2>3, <2>4 DEF Readable, Names
<1> QED  BY <1>2, <1>3

LEMMA TwoReadable ==
  ASSUME TypeOK, NEW i \in Ids
  PROVE  /\ Cardinality(Readable(i)) = 1 => \E p \in Paths : Readable(i) = {p}
         /\ Cardinality(Readable(i)) > 1 => \E p, q \in Readable(i) : p # q
<1>1. Readable(i) \subseteq Paths
  BY DEF Readable, Names
<1>2. IsFiniteSet(Readable(i))
  BY <1>1, FS_Subset
<1>3. Cardinality(Readable(i)) = 1 <=> \E p : Readable(i) = {p}
  BY <1>2, OneElement
<1>4. ASSUME \A p, q \in Readable(i) : p = q
      PROVE  ~(Cardinality(Readable(i)) > 1)
  <2>1. CASE Readable(i) = {}
    <3>1. Cardinality({}) = 0
      BY FS_EmptySet
    <3> QED  BY <2>1, <3>1
  <2>2. CASE Readable(i) # {}
    <3>1. PICK p : Readable(i) = {p}
      BY <1>4, <2>2
    <3> QED  BY <1>3, <3>1
  <2> QED  BY <2>1, <2>2
<1> QED  BY <1>1, <1>3, <1>4

(* A note the walk found unchanged where its row says. *)
LEMMA HeldIsTrue ==
  ASSUME Inv, Apply, Quiet, NEW i \in Known, Discernible(i), i \in pass.held
  PROVE  ToldTrue(i)
<1> DEFINE q == rows[i].path
<1>1. TypeOK /\ Held /\ touched = {} /\ ~pass.deferred
  BY DEF Inv, Quiet
<1>2. Vouched(i) /\ pass.mirror[i] = rows[i] /\ rows[i] \in Row
  BY <1>1, QuietRows DEF Held
<1>3. PICK p \in Paths : p = q
  BY <1>2 DEF Row
<1>4. /\ ~pass.full /\ Entry(p) = {i} /\ files[p] # None /\ files[p].ver = rows[i].stat
  BY <1>1, <1>2, <1>3 DEF Vouched
<1>5. rows[i].state # "missing"
  BY <1>1, <1>2, <1>4, EntryIsOne
<1>6. p \in Readable(i)
  BY <1>3, <1>4 DEF Discernible, Captured
<1>7. i \notin Absent /\ Chosen(i) = {}
  BY <1>1 DEF Absent, Chosen
<1>8. rows'[i] = rows[i]
  BY <1>7, QuietRows
<1>9. Describes(rows'[i], p)
  BY <1>3, <1>4, <1>5, <1>8 DEF Describes
<1> QED  BY <1>3, <1>4, <1>6, <1>8, <1>9 DEF ToldTrue

LEMMA UnheldIsTrue ==
  ASSUME Inv, Apply, Quiet, NEW i \in Known, Discernible(i), i \notin pass.held
  PROVE  ToldTrue(i)
<1> DEFINE named == {ob \in ObservedOf(i) : ~ob.derived}
           ranked == IF named = {} THEN ObservedOf(i) ELSE named
           home == {ob \in ranked : ob.path = pass.mirror[i].path}
<1>1. TypeOK /\ Observed /\ i \in Ids /\ ~pass.deferred
  BY DEF Inv, Known, Quiet
<1>2. pass.mirror[i] = rows[i] /\ rows[i] \in Row
  BY QuietRows
<1>3. \A p \in Readable(i) : ~Overlooked(p)
  BY DEF Discernible
<1>4. \A p \in Readable(i) : \E ob \in named : ob.path = p
  BY <1>3, QuietSees
<1>5. \A ob \in ObservedOf(i) :
         /\ ob \in pass.observed /\ ob.id = i /\ ob \in Observation
         /\ files[ob.path] # None /\ ob.hash = files[ob.path].ver
         /\ ~ob.derived => /\ ob.path \in Readable(i)
                           /\ ob.state = IF files[ob.path].content = "good" THEN "ok"
                                         ELSE "unparsed"
         /\ ob.derived => ob.path = rows[i].path
  BY <1>3, QuietSees
<1>6. \A a, b \in named : a.path = b.path => a = b
  BY <1>1, <1>5 DEF Observed
<1>7. Chosen(i) = IF Cardinality(home) = 1 THEN home
                  ELSE IF Cardinality(ranked) = 1 THEN ranked ELSE {}
  BY DEF Chosen
<1>8. i \in Absent <=> ObservedOf(i) = {}
  BY <1>1 DEF Absent
<1>9. ASSUME Cardinality(Readable(i)) = 1
      PROVE  \E p \in Readable(i) : Describes(rows'[i], p)
  <2>1. PICK p \in Paths : Readable(i) = {p}
    BY <1>1, <1>9, TwoReadable
  <2>2. PICK ob \in named : ob.path = p
    BY <1>4, <2>1
  <2>3. named = {ob}
    BY <1>5, <1>6, <2>1, <2>2
  <2>4. ranked = {ob} /\ (home = {ob} \/ home = {})
    BY <2>3
  <2>5. Cardinality({ob}) = 1 /\ Cardinality({}) = 0
    BY FS_Singleton, FS_EmptySet
  <2>6. Chosen(i) = {ob}
    <3> HIDE DEF home, ranked
    <3>1. CASE home = {ob}
      BY <1>7, <2>5, <3>1
    <3>2. CASE home = {}
      BY <1>7, <2>4, <2>5, <3>2
    <3> QED  BY <2>4, <3>1, <3>2
  <2>7. i \notin Absent /\ ob \in pass.observed
    BY <1>5, <1>8, <2>2
  <2>8. rows'[i].path = p /\ rows'[i].hash = files[p].ver
        /\ rows'[i].state = IF files[p].content = "good" THEN "ok" ELSE "unparsed"
    BY <1>5, <2>2, <2>6, <2>7, QuietRows
  <2> QED  BY <2>1, <2>8 DEF Describes
<1>10. ASSUME Names(i) = {}, files[rows[i].path] = None
       PROVE  rows'[i].state = "missing"
  <2>1. ObservedOf(i) = {}
    BY <1>5, <1>10 DEF Readable
  <2> QED  BY <1>8, <2>1, QuietRows
<1>11. ASSUME Cardinality(Readable(i)) > 1
       PROVE  rows'[i].path = rows[i].path
  <2>1. PICK p, q \in Readable(i) : p # q
    BY <1>1, <1>11, TwoReadable
  <2>2. PICK a \in named, b \in named : a.path = p /\ b.path = q
    BY <1>4, <2>1
  <2>3. ranked = named /\ a # b /\ i \notin Absent
    BY <1>8, <2>1, <2>2
  <2>4. IsFiniteSet(ranked) /\ IsFiniteSet(home)
    <3>1. ranked \subseteq pass.observed /\ home \subseteq pass.observed
      BY <1>5
    <3> QED  BY <1>1, <3>1, FS_Subset DEF Observed
  <2>5. Cardinality(ranked) # 1
    BY <2>2, <2>3, <2>4, OneElement
  <2>6. CASE Cardinality(home) = 1
    <3>1. PICK ob : home = {ob}
      BY <2>4, <2>6, OneElement
    <3>2. Chosen(i) = {ob}
      BY <1>7, <2>6, <3>1
    <3>3. ob \in pass.observed /\ ob.path = rows[i].path
      BY <1>2, <1>5, <3>1
    <3> QED  BY <2>3, <3>2, <3>3, QuietRows
  <2>7. CASE Cardinality(home) # 1
    <3>1. Chosen(i) = {}
      BY <1>7, <2>5, <2>7
    <3> QED  BY <2>3, <3>1, QuietRows
  <2> QED  BY <2>6, <2>7
<1> QED  BY <1>9, <1>10, <1>11 DEF ToldTrue

\* A quiet pass tells the truth, for any number of notes, copies and strangers'
\* files: a note with one readable name is described as it is wherever it went,
\* a note nothing names is missing, a note with two names stays where it was
\* (reconciler.py from _scan to _apply).
THEOREM QuietPassesAreTrue == Spec => QuietPassTellsTheTruth
<1>1. Inv /\ [Next]_vars
      => [\A i \in Known : Apply /\ Quiet /\ Discernible(i) => ToldTrue(i)]_vars
  BY HeldIsTrue, UnheldIsTrue
<1> QED  BY <1>1, PassesKeepFaith, PTL DEF QuietPassTellsTheTruth, Spec

-----------------------------------------------------------------------------
(* What a right row rests on, while a pass is under way. *)

(* A writer has its note to itself, and the row says where it writes. *)
Turns ==
  \A o \in Ops : writing[o] # None =>
     /\ Live(writing[o].id) /\ rows[writing[o].id].path = writing[o].from
     /\ \A u \in Ops : writing[u] # None /\ writing[u].id = writing[o].id => u = o

(* Bytes say whose they are: no two files of one version name different notes,
   and the bytes a writer has checked name its own note or none. *)
Told ==
  /\ \A p, q \in Paths : files[p] # None /\ files[q] # None /\ files[p].ver = files[q].ver
        => files[p].id = files[q].id
  /\ \A o \in Ops, p \in Paths : writing[o] # None /\ files[p] # None /\ files[p].ver = writing[o].etag
        => files[p].id \in {writing[o].id, NoId}

Excused(i) == i \in late \cup overtaken \cup disturbed

(* The file of its note lies where the row says, with the bytes it says. *)
Matches(i) == rows[i].path \in Names(i) /\ files[rows[i].path].ver = rows[i].hash

(* A file that matches its row has stood there since the pass began: had it
   been taken away, nobody the note is not excused for could have put it back. *)
Steadfast ==
  /\ pass.phase = "rest" => touched = {}
  /\ \A i \in Ids : (pass.phase \in {"rest", "mirror"} \/ i \in Known)
                      /\ Live(i) /\ ~Excused(i) /\ Matches(i)
                      => rows[i].path \notin touched

(* What the pass is to adopt is not what it has observed. *)
Apart == \A ob \in pass.observed : /\ \A c \in pass.candidates : c.path # ob.path
                                   /\ pass.adopting # None => pass.adopting.cand.path # ob.path

(* A file that was seen to name a missing note still does. *)
Lingers ==
  \A ob \in pass.observed : ~ob.derived /\ ~Live(ob.id) /\ ~Excused(ob.id) => ob.path \in Names(ob.id)

Kept == Turns /\ Told /\ Steadfast /\ Apart /\ Lingers

(* Bytes nobody has seen. *)
Unseen(v) == /\ \A p \in Paths : files[p] # None => files[p].ver # v
             /\ \A i \in Ids : rows[i] # None => rows[i].hash # v
             /\ \A o \in Ops : writing[o] # None => writing[o].etag # v

LEMMA FreshIsUnseen == TypeOK => \A v \in Fresh : Unseen(v)
<1> SUFFICES ASSUME TypeOK, NEW v \in Fresh  PROVE Unseen(v)
  OBVIOUS
<1>1. v \notin TakenVersions
  BY DEF Fresh
<1>2. ASSUME NEW p \in Paths, files[p] # None  PROVE files[p].ver # v
  <2>1. files[p].ver \in {files[q].ver : q \in {r \in Paths : files[r] # None}}
    BY <1>2
  <2> QED  BY <1>1, <2>1 DEF TakenVersions
<1>3. ASSUME NEW i \in Ids, rows[i] # None  PROVE rows[i].hash # v
  <2>1. rows[i].hash \in RowVersions(rows)
    BY <1>3 DEF RowVersions
  <2> QED  BY <1>1, <2>1 DEF TakenVersions
<1>4. ASSUME NEW o \in Ops, writing[o] # None  PROVE writing[o].etag # v
  <2>1. writing[o].etag \in UNION {{writing[u].etag, writing[u].ver} : u \in {x \in Ops : writing[x] # None}}
    BY <1>4
  <2> QED  BY <1>1, <2>1 DEF TakenVersions
<1> QED  BY <1>2, <1>3, <1>4 DEF Unseen

LEMMA NoneIsUnseen == TypeOK => Unseen(None)
<1> SUFFICES ASSUME TypeOK  PROVE Unseen(None)
  OBVIOUS
<1>1. \A p \in Paths : files[p] # None => files[p].ver # None
  BY SomeIsTyped DEF File
<1>2. \A i \in Ids : rows[i] # None => rows[i].hash # None
  BY SomeIsTyped DEF Row
<1>3. \A o \in Ops : writing[o] # None => writing[o].etag # None
  BY SomeIsTyped DEF Writer
<1> QED  BY <1>1, <1>2, <1>3 DEF Unseen

(* No writer begins, and those that go on are about what they were about. *)
SameWriters == \A o \in Ops : writing'[o] # None =>
                  /\ writing[o] # None /\ writing'[o].id = writing[o].id
                  /\ writing'[o].from = writing[o].from /\ writing'[o].etag = writing[o].etag

LEMMA TurnsGoOn ==
  ASSUME TypeOK, Turns, SameWriters,
         \A o \in Ops : writing'[o] # None => rows'[writing[o].id] = rows[writing[o].id]
  PROVE  Turns'
BY DEF Turns, SameWriters, Live

(* Every file is one that was there, or has bytes v nobody had seen and names x. *)
Rooted(v, x) ==
  \A p \in Paths : files'[p] # None =>
     \/ \E q \in Paths : files[q] # None /\ files'[p].ver = files[q].ver /\ files'[p].id = files[q].id
     \/ files'[p].ver = v /\ files'[p].id = x

LEMMA ToldOn ==
  ASSUME Told, SameWriters, NEW v, Unseen(v), NEW x, Rooted(v, x)
  PROVE  Told'
<1>1. ASSUME NEW p \in Paths, NEW q \in Paths, files'[p] # None, files'[q] # None,
             files'[p].ver = files'[q].ver
      PROVE  files'[p].id = files'[q].id
  BY <1>1 DEF Told, Unseen, Rooted
<1>2. ASSUME NEW o \in Ops, NEW p \in Paths, writing'[o] # None, files'[p] # None,
             files'[p].ver = writing'[o].etag
      PROVE  files'[p].id \in {writing'[o].id, NoId}
  BY <1>2 DEF Told, Unseen, Rooted, SameWriters
<1> QED  BY <1>1, <1>2 DEF Told

LEMMA InitKept == Init => Kept
<1> SUFFICES ASSUME Init  PROVE Kept
  OBVIOUS
<1>1. PICK home \in [Ids -> Paths \cup {None}], ver \in FirstVersions :
        /\ \A i, j \in Ids : i # j => home[i] # home[j] \/ home[i] = None
        /\ files = [p \in Paths |->
              IF \E i \in Ids : home[i] = p
              THEN LET i == CHOOSE i \in Ids : home[i] = p
                   IN  [id |-> i, ver |-> ver[i], content |-> "good", settled |-> TRUE]
              ELSE None]
  BY ZenonT(60) DEF Init
<1>2. \A i, j \in Ids : i # j => ver[i] # ver[j]
  BY DEF FirstVersions
<1>3. ASSUME NEW p \in Paths, files[p] # None
      PROVE  files[p].id \in Ids /\ files[p].ver = ver[files[p].id]
  <2>1. \E i \in Ids : home[i] = p
    BY <1>1, <1>3
  <2>2. PICK i \in Ids : i = CHOOSE j \in Ids : home[j] = p
    BY <2>1
  <2>3. files[p] = [id |-> i, ver |-> ver[i], content |-> "good", settled |-> TRUE]
    BY <1>1, <2>1, <2>2
  <2> QED  BY <2>3
<1>4. writing = [o \in Ops |-> None] /\ pass = Rest /\ touched = {}
  BY DEF Init
<1>5. pass.observed = {}
  BY <1>4 DEF Rest
<1>6. Told
  BY <1>2, <1>3, <1>4 DEF Told
<1>7. Turns /\ Steadfast /\ Apart /\ Lingers
  BY <1>4, <1>5 DEF Turns, Steadfast, Apart, Lingers
<1> QED  BY <1>6, <1>7 DEF Kept

-----------------------------------------------------------------------------
(* Where a pass begins and ends. *)

LEMMA BlankKept ==
  ASSUME Turns', Told', touched' = {}, Blank(pass')
  PROVE  Kept'
<1>1. pass'.observed = {}
  BY DEF Blank
<1> QED  BY <1>1 DEF Kept, Steadfast, Apart, Lingers

LEMMA SameFiles ==
  ASSUME TypeOK, Told, SameWriters, files' = files
  PROVE  Told'
<1>1. Unseen(None)
  BY NoneIsUnseen
<1>2. Rooted(None, None)
  BY DEF Rooted
<1> QED  BY <1>1, <1>2, ToldOn

LEMMA BeginKept == ASSUME Inv, Kept, Begin  PROVE Kept'
<1>1. TypeOK /\ Turns /\ Told
  BY DEF Inv, Kept
<1>2. files' = files /\ rows' = rows /\ touched' = {} /\ Blank(pass')
      /\ writing' = [o \in Ops |-> IF writing[o] = None THEN None
                                   ELSE [writing[o] EXCEPT !.early = TRUE]]
  BY BeginDoes DEF Begin
<1>3. ASSUME NEW w \in Writer
      PROVE  /\ [w EXCEPT !.early = TRUE].id = w.id /\ [w EXCEPT !.early = TRUE].from = w.from
             /\ [w EXCEPT !.early = TRUE].etag = w.etag
  BY DEF Writer
<1>4. SameWriters
  BY <1>1, <1>2, <1>3, SomeIsTyped DEF SameWriters
<1>5. Turns'
  BY <1>1, <1>2, <1>4, TurnsGoOn
<1>6. Told'
  BY <1>1, <1>2, <1>4, SameFiles
<1> QED  BY <1>2, <1>5, <1>6, BlankKept

LEMMA OverKept ==
  ASSUME TypeOK, Turns, Told, PassOver, files' = files,
         writing' = writing \/ writing' = [o \in Ops |-> None],
         \A o \in Ops : writing'[o] # None => rows'[writing[o].id] = rows[writing[o].id]
  PROVE  Kept'
<1>1. touched' = {} /\ Blank(pass')
  BY RestIsBlank DEF PassOver
<1>2. SameWriters
  BY DEF SameWriters
<1>3. Turns'
  BY <1>2, TurnsGoOn
<1>4. Told'
  BY <1>2, SameFiles
<1> QED  BY <1>1, <1>3, <1>4, BlankKept

LEMMA ApplyKept == ASSUME Inv, Kept, Apply  PROVE Kept'
<1>1. TypeOK /\ Turns /\ Told
  BY DEF Inv, Kept
<1>2. /\ PassOver /\ files' = files /\ writing' = writing
      /\ \A i \in Ids : /\ i \in NotNewer => i \in Stale
                        /\ i \notin NotNewer => rows'[i] = rows[i]
  BY ApplyDoes
<1>3. ASSUME NEW o \in Ops, writing'[o] # None
      PROVE  rows'[writing[o].id] = rows[writing[o].id]
  <2>1. writing[o].id \in Ids /\ o \in Writers(writing[o].id)
    BY <1>1, <1>2, <1>3, WritingTyped DEF Writers
  <2>2. writing[o].id \notin Stale
    BY <2>1 DEF Apply
  <2> QED  BY <1>2, <2>1, <2>2
<1> QED  BY <1>1, <1>2, <1>3, OverKept

LEMMA FailKept == ASSUME Inv, Kept, PassFails \/ Crash  PROVE Kept'
<1>1. TypeOK /\ Turns /\ Told
  BY DEF Inv, Kept
<1>2. /\ PassOver /\ files' = files /\ rows' = rows
      /\ writing' = writing \/ writing' = [o \in Ops |-> None]
  BY DEF PassFails, Crash
<1> QED  BY <1>1, <1>2, OverKept

-----------------------------------------------------------------------------
(* The walk, and adoption. *)

(* A step of the pass that changes nothing but the pass. *)
Inward == UNCHANGED <<files, rows, writing, late, touched, disturbed, overtaken>>

LEMMA InwardSteady ==
  ASSUME Inv, Kept, Inward, Known' = Known \/ pass.phase = "mirror",
         pass'.phase \notin {"rest", "mirror"}
  PROVE  Turns' /\ Told' /\ Steadfast'
<1>1. TypeOK /\ Turns /\ Told /\ Steadfast
  BY DEF Inv, Kept
<1>2. SameWriters /\ files' = files /\ rows' = rows /\ writing' = writing /\ touched' = touched
  BY DEF SameWriters, Inward
<1>3. Turns'
  BY <1>1, <1>2, TurnsGoOn
<1>4. Told'
  BY <1>1, <1>2, SameFiles
<1>5. ASSUME NEW i \in Ids
      PROVE  Live(i)' = Live(i) /\ Excused(i)' = Excused(i) /\ Matches(i)' = Matches(i)
  BY DEF Inward, Live, Excused, Matches, Names
<1>6. Steadfast'
  BY <1>1, <1>2, <1>5 DEF Steadfast
<1> QED  BY <1>3, <1>4, <1>6

(* Nothing new is observed, and nothing new is to be adopted. *)
NothingNew ==
  /\ pass'.observed = pass.observed /\ pass'.candidates \subseteq pass.candidates
  /\ pass'.adopting # None => \/ pass'.adopting.cand \in pass.candidates
                              \/ pass.adopting # None /\ pass'.adopting.cand = pass.adopting.cand

LEMMA ApartOn == Apart /\ NothingNew => Apart'
BY DEF Apart, NothingNew

LEMMA InwardKept ==
  ASSUME Inv, Kept, Inward, Known' = Known, pass'.phase \notin {"rest", "mirror"}, NothingNew
  PROVE  Kept'
<1>1. Turns' /\ Told' /\ Steadfast'
  BY InwardSteady
<1>2. Apart'
  BY ApartOn DEF Kept
<1>3. Lingers'
  BY DEF Kept, Lingers, Inward, NothingNew, Live, Excused, Names
<1> QED  BY <1>1, <1>2, <1>3 DEF Kept

LEMMA ReadMirrorKept == ASSUME Inv, Kept, ReadMirror  PROVE Kept'
<1>1. TypeOK /\ Begun /\ pass.phase = "mirror"
  BY DEF Inv, ReadMirror
<1>2. pass'.observed = {} /\ pass'.phase = "walk"
  BY <1>1, ReadMirrorDoes, AtRestNothing
<1>3. Inward
  BY DEF ReadMirror, Inward
<1>4. Turns' /\ Told' /\ Steadfast'
  BY <1>1, <1>2, <1>3, InwardSteady
<1>5. Apart' /\ Lingers'
  BY <1>2 DEF Apart, Lingers
<1> QED  BY <1>4, <1>5 DEF Kept

LEMMA ListKept == ASSUME Inv, Kept, NEW p \in Paths, List(p)  PROVE Kept'
<1>1. TypeOK
  BY DEF Inv
<1>2. NothingNew /\ pass'.phase \notin {"rest", "mirror"} /\ Known' = Known
  BY <1>1, ListDoes, SameMirror DEF AsBefore, Steady, NothingNew
<1>3. Inward
  BY DEF List, Scanning, Inward
<1> QED  BY <1>2, <1>3, InwardKept

(* Where the walk is. *)
LEMMA AtSomewhere ==
  ASSUME Inv, pass.phase \in {"stat", "read"}
  PROVE  \E p \in Paths : pass.at = p
BY PassFields DEF Inv, TypeOK, Begun

LEMMA StatKept == ASSUME Inv, Kept, Stat  PROVE Kept'
<1>1. TypeOK /\ pass.phase = "stat"
  BY DEF Inv, Stat
<1>2. PICK p \in Paths : pass.at = p
  BY <1>1, AtSomewhere
<1>3. StatGone(p) \/ StatTrusts(p) \/ StatPasses(p) \/ StatReads(p)
  BY <1>1, <1>2, StatDoes
<1>4. NothingNew /\ pass'.phase \notin {"rest", "mirror"} /\ pass'.mirror = pass.mirror
  BY <1>3 DEF StatGone, StatTrusts, StatPasses, StatReads, StatEnds, Moved, AsBefore, Steady, NothingNew
<1>5. Known' = Known
  BY <1>4, SameMirror
<1>6. Inward
  BY DEF Stat, Scanning, Inward
<1> QED  BY <1>4, <1>5, <1>6, InwardKept

LEMMA ReadKept == ASSUME Inv, Kept, Read  PROVE Kept'
<1>1. TypeOK /\ Begun /\ Strangers /\ Observed /\ pass.phase = "read" /\ pass.stat # None
  BY DEF Inv, Read, Begun
<1>2. PICK p \in Paths : pass.at = p
  BY <1>1, AtSomewhere
<1>3. ReadGone(p) \/ ReadSees(p) \/ ReadLearns(p)
  BY <1>1, <1>2, ReadDoes
<1>4. Moved /\ pass'.phase \notin {"rest", "mirror"} /\ pass'.mirror = pass.mirror
      /\ pass'.adopting = pass.adopting
  BY <1>3 DEF ReadGone, ReadSees, ReadLearns, ReadEnds, Moved, AsBefore, Steady
<1>5. Known' = Known
  BY <1>4, SameMirror
<1>6. Inward
  BY DEF Read, Scanning, Inward
<1>7. pass.adopting = None
  BY <1>1 DEF Begun
<1>8. Turns' /\ Told' /\ Steadfast'
  BY <1>4, <1>5, <1>6, InwardSteady
<1>9. Apart /\ Lingers
  BY DEF Kept
<1>a. /\ \A c \in pass.candidates : c.path # p
      /\ \A ob \in pass.observed : ob.path # p
  BY <1>1, <1>2 DEF Strangers, Stranger, Observed, Truthful, Walked
<1>10. CASE ReadGone(p)
  <2>1. NothingNew
    BY <1>4, <1>10 DEF ReadGone, NothingNew
  <2> QED  BY <1>4, <1>5, <1>6, <2>1, InwardKept
<1>11. CASE ReadSees(p)
  <2>1. PICK seen : seen = Observes(files[p], Entry(p))
    OBVIOUS
  <2>2. /\ pass'.observed = pass.observed \cup seen /\ pass'.candidates = pass.candidates
        /\ files[p] # None
    BY <1>11, <2>1 DEF ReadSees
  <2>3. pass.stat \in Versions
    BY <1>1, PassFields DEF TypeOK
  <2>4. \A ob \in seen : ob.path = p /\ (~ob.derived => files[p].id = ob.id)
    BY <1>1, <1>2, <2>1, <2>2, <2>3, ObservesOnce
  <2>5. Apart'
    BY <1>4, <1>7, <1>9, <1>a, <2>2, <2>4 DEF Apart
  <2>6. Lingers'
    <3>1. ASSUME NEW ob \in seen, ~ob.derived  PROVE ob.path \in Names(ob.id)'
      BY <1>6, <2>2, <2>4, <3>1 DEF Names, Inward
    <3>2. ASSUME NEW ob \in pass.observed, ~ob.derived, ~Live(ob.id)', ~Excused(ob.id)'
          PROVE  ob.path \in Names(ob.id)'
      BY <1>6, <1>9, <3>2 DEF Lingers, Names, Inward, Live, Excused
    <3> QED  BY <2>2, <3>1, <3>2 DEF Lingers
  <2> QED  BY <1>8, <2>5, <2>6 DEF Kept
<1>12. CASE ReadLearns(p)
  <2>1. /\ pass'.observed = pass.observed
        /\ \A c \in pass'.candidates : c \in pass.candidates \/ c.path = p
    BY <1>12 DEF ReadLearns
  <2>2. Apart'
    BY <1>4, <1>7, <1>9, <1>a, <2>1 DEF Apart
  <2>3. Lingers'
    BY <1>6, <1>9, <2>1 DEF Lingers, Inward, Live, Excused, Names
  <2> QED  BY <1>8, <2>2, <2>3 DEF Kept
<1> QED  BY <1>3, <1>10, <1>11, <1>12

LEMMA WalkEndsKept == ASSUME Inv, Kept, WalkEnds  PROVE Kept'
<1>1. TypeOK
  BY DEF Inv
<1>2. NothingNew /\ pass'.phase \notin {"rest", "mirror"} /\ Known' = Known
  BY <1>1, WalkEndsDoes, SameMirror DEF AsBefore, Steady, NothingNew
<1>3. Inward
  BY DEF WalkEnds, Inward
<1> QED  BY <1>2, <1>3, InwardKept

LEMMA FetchKept == ASSUME Inv, Kept, Fetch  PROVE Kept'
<1>1. TypeOK
  BY DEF Inv
<1>2. NothingNew /\ pass'.phase \notin {"rest", "mirror"} /\ Known' = Known
  BY <1>1, FetchDoes, SameMirror DEF NothingNew
<1>3. Inward
  BY DEF Fetch, Unfinished, Inward
<1> QED  BY <1>2, <1>3, InwardKept

LEMMA AdoptCheckKept == ASSUME Inv, Kept, NEW c \in pass.candidates, AdoptCheck(c)  PROVE Kept'
<1>1. TypeOK
  BY DEF Inv
<1>2. /\ Adopts /\ pass.phase = "adopt"
      /\ pass'.adopting # None => pass'.adopting.cand = c
  <2>1. /\ Adopts /\ pass.phase = "adopt"
        /\ \/ pass'.adopting = None
           \/ \E i \in Ids : pass'.adopting = [cand |-> c, id |-> i, looked |-> FALSE, ver |-> None]
    BY <1>1, AdoptCheckDoes
  <2>2. \A i : [cand |-> c, id |-> i, looked |-> FALSE, ver |-> None].cand = c
    OBVIOUS
  <2> QED  BY <2>1, <2>2
<1>3. NothingNew /\ pass'.phase \notin {"rest", "mirror"} /\ Known' = Known
  BY <1>2, SameMirror DEF Adopts, Steady, NothingNew
<1>4. Inward
  BY DEF AdoptCheck, Unfinished, Inward
<1> QED  BY <1>3, <1>4, InwardKept

LEMMA AdoptFailsKept == ASSUME Inv, Kept, AdoptFails  PROVE Kept'
<1>1. TypeOK /\ Begun
  BY DEF Inv
<1>2. Adopts /\ pass'.adopting = None /\ pass.phase = "adopt"
  BY <1>1, AdoptFailsDoes DEF Begun
<1>3. NothingNew /\ pass'.phase \notin {"rest", "mirror"} /\ Known' = Known
  BY <1>2, SameMirror DEF Adopts, Steady, NothingNew
<1>4. Inward
  BY DEF AdoptFails, Unfinished, Inward
<1> QED  BY <1>3, <1>4, InwardKept

LEMMA AdoptLookKept == ASSUME Inv, Kept, AdoptLook  PROVE Kept'
<1>1. TypeOK /\ Begun
  BY DEF Inv
<1>2. /\ Adopts /\ pass.adopting # None /\ pass.phase = "adopt"
      /\ pass'.adopting # None => pass'.adopting.cand = pass.adopting.cand
  BY <1>1, AdoptLookDoes DEF Begun
<1>3. NothingNew /\ pass'.phase \notin {"rest", "mirror"} /\ Known' = Known
  BY <1>2, SameMirror DEF Adopts, Steady, NothingNew
<1>4. Inward
  BY DEF AdoptLook, Unfinished, Inward
<1> QED  BY <1>3, <1>4, InwardKept

LEMMA AdoptWriteKept == ASSUME Inv, Kept, AdoptWrite  PROVE Kept'
<1>1. TypeOK /\ Begun /\ Turns /\ Told /\ Steadfast /\ Apart /\ Lingers
  BY DEF Inv, Kept
<1>2. PICK p \in Paths, x \in Ids : p = pass.adopting.cand.path /\ x = pass.adopting.id
  BY <1>1, AdoptingIsTyped DEF AdoptWrite, AdoptionRuns
<1>3. /\ Adopts /\ pass.adopting # None /\ pass.phase = "adopt"
      /\ \A q \in Paths \ {p} : files'[q] = files[q]
      /\ pass'.adopting.cand = pass.adopting.cand
      /\ pass'.adopting.ver \in Fresh /\ files'[p] # None
      /\ files'[p].ver = pass'.adopting.ver /\ files'[p].id = x
  BY <1>1, <1>2, AdoptWriteDoes DEF Begun
<1>4. /\ UNCHANGED <<rows, writing, late, touched, disturbed, overtaken>>
  BY DEF AdoptWrite, Unfinished
<1>5. PICK v \in Fresh : files'[p].ver = v
  BY <1>3
<1>6. Unseen(v)
  BY <1>1, FreshIsUnseen
<1>7. SameWriters
  BY <1>4 DEF SameWriters
<1>8. Turns'
  BY <1>1, <1>4, <1>7, TurnsGoOn
<1>9. Rooted(v, x)
  BY <1>3, <1>5 DEF Rooted
<1>10. Told'
  BY <1>1, <1>6, <1>7, <1>9, ToldOn
<1>11. NothingNew /\ pass'.phase = "adopt" /\ Known' = Known
  BY <1>3, SameMirror DEF Adopts, Steady, NothingNew
<1>12. ASSUME NEW i \in Ids, Live(i)', ~Excused(i)', Matches(i)', i \in Known
       PROVE  rows'[i].path \notin touched'
  <2>1. Live(i) /\ ~Excused(i) /\ rows'[i] = rows[i] /\ rows[i] # None
    BY <1>4, <1>12 DEF Live, Excused
  <2>2. rows[i].path # p
    BY <1>5, <1>6, <1>12, <2>1 DEF Matches, Unseen
  <2>3. Matches(i)
    BY <1>3, <1>12, <2>1, <2>2 DEF Matches, Names
  <2> QED  BY <1>1, <1>4, <1>12, <2>1, <2>3 DEF Steadfast
<1>13. Steadfast'
  BY <1>11, <1>12 DEF Steadfast
<1>14. Apart'
  BY <1>1, <1>11, ApartOn
<1>15. Lingers'
  <2> SUFFICES ASSUME NEW ob \in pass.observed, ~ob.derived, ~Live(ob.id)', ~Excused(ob.id)'
               PROVE  ob.path \in Names(ob.id)'
    BY <1>11 DEF Lingers, NothingNew
  <2>1. ob.path \in Names(ob.id)
    BY <1>1, <1>4 DEF Lingers, Live, Excused
  <2>2. ob.path # p
    BY <1>1, <1>2, <1>3 DEF Apart
  <2> QED  BY <1>3, <2>1, <2>2 DEF Names
<1> QED  BY <1>8, <1>10, <1>13, <1>14, <1>15 DEF Kept

LEMMA AdoptCommitKept == ASSUME Inv, Kept, AdoptCommit  PROVE Kept'
<1>1. TypeOK /\ Begun /\ Strangers /\ Observed /\ Mirrored
      /\ Turns /\ Told /\ Steadfast /\ Apart /\ Lingers
  BY DEF Inv, Kept
<1>2. PICK x \in Ids : x = pass.adopting.id
  BY <1>1, AdoptCommitDoes
<1>3. /\ Adopts /\ pass'.adopting = None /\ pass.adopting # None /\ pass.phase = "adopt"
      /\ rows[x] = None /\ \A j \in Ids \ {x} : rows'[j] = rows[j]
  BY <1>1, <1>2, AdoptCommitDoes DEF Begun
<1>4. UNCHANGED <<files, writing, late, touched, meddled, disturbed, overtaken>>
  BY DEF AdoptCommit, Unfinished
<1>5. SameWriters
  BY <1>4 DEF SameWriters
<1>6. Told'
  BY <1>1, <1>4, <1>5, SameFiles
<1>7. Turns'
  <2>1. \A o \in Ops : writing[o] # None => writing[o].id \in Ids \ {x}
    BY <1>1, <1>3, WritingTyped DEF Turns, Live
  <2> QED  BY <1>1, <1>3, <1>4, <1>5, <2>1, TurnsGoOn
<1>8. NothingNew /\ pass'.phase = "adopt" /\ Known' = Known
  BY <1>3, SameMirror DEF Adopts, Steady, NothingNew
<1>9. \A i \in Known : i \in Ids /\ rows'[i] = rows[i]
  BY <1>1, <1>3 DEF Mirrored, Known
<1>10. Steadfast'
  BY <1>1, <1>4, <1>8, <1>9 DEF Steadfast, Live, Excused, Matches, Names
<1>11. Apart'
  BY <1>1, <1>8, ApartOn
<1>12. Lingers'
  <2> SUFFICES ASSUME NEW ob \in pass.observed, ~ob.derived, ~Live(ob.id)', ~Excused(ob.id)'
               PROVE  ob.path \in Names(ob.id)'
    BY <1>8 DEF Lingers, NothingNew
  <2>1. ob.id \in Known
    BY <1>1 DEF Observed, Truthful
  <2>2. ob.path \in Names(ob.id)
    BY <1>1, <1>4, <1>9, <2>1 DEF Lingers, Live, Excused
  <2> QED  BY <1>4, <2>2 DEF Names
<1> QED  BY <1>6, <1>7, <1>10, <1>11, <1>12 DEF Kept

-----------------------------------------------------------------------------
(* Writers, devices and time. *)

(* What others do while a pass goes on, or rests. *)
LEMMA OthersKept ==
  ASSUME Inv, Kept, Turns', Told', pass' = pass,
         pass.phase = "rest" => touched' = touched,
         pass.phase # "rest" => \A i \in Ids : ~Excused(i)' =>
            /\ ~Excused(i) /\ rows'[i] = rows[i]
            /\ Live(i) /\ Matches(i)' => Matches(i) /\ (rows[i].path \in touched' => rows[i].path \in touched)
            /\ ~Live(i) => Names(i) \subseteq Names(i)'
  PROVE  Kept'
<1>1. Begun /\ Steadfast /\ Apart /\ Lingers /\ Observed
  BY DEF Inv, Kept
<1>2. Known' = Known
  BY SameMirror
<1>3. Apart'
  BY <1>1 DEF Apart
<1>4. CASE pass.phase = "rest"
  <2>1. touched' = {} /\ pass'.observed = {}
    BY <1>1, <1>4 DEF Steadfast, Begun
  <2> QED  BY <1>3, <2>1 DEF Kept, Steadfast, Lingers
<1>5. CASE pass.phase # "rest"
  <2>1. Steadfast'
    <3> SUFFICES ASSUME NEW i \in Ids, pass.phase = "mirror" \/ i \in Known,
                        Live(i)', ~Excused(i)', Matches(i)'
                 PROVE  rows'[i].path \notin touched'
      BY <1>2, <1>5 DEF Steadfast
    <3>1. ~Excused(i) /\ rows'[i] = rows[i] /\ Live(i)
      BY <1>5 DEF Live
    <3>2. Matches(i) /\ (rows[i].path \in touched' => rows[i].path \in touched)
      BY <1>5, <3>1
    <3> QED  BY <1>1, <3>1, <3>2 DEF Steadfast
  <2>2. Lingers'
    <3> SUFFICES ASSUME NEW ob \in pass.observed, ~ob.derived, ~Live(ob.id)', ~Excused(ob.id)'
                 PROVE  ob.path \in Names(ob.id)'
      BY DEF Lingers
    <3>1. PICK i \in Ids : i = ob.id
      BY <1>1 DEF Observed, Truthful, Known
    <3>2. ~Excused(i) /\ rows'[i] = rows[i] /\ ~Live(i)
      BY <1>5, <3>1 DEF Live
    <3>3. ob.path \in Names(i)
      BY <1>1, <3>1, <3>2 DEF Lingers
    <3> QED  BY <1>5, <3>1, <3>2, <3>3
  <2> QED  BY <1>3, <2>1, <2>2 DEF Kept
<1> QED  BY <1>4, <1>5

LEMMA BeginWriteKept == ASSUME Inv, Kept, NEW o \in Ops, BeginWrite(o)  PROVE Kept'
<1>1. TypeOK /\ Turns /\ Told
  BY DEF Inv, Kept
<1>2. PICK i \in Ids, to \in Paths :
        /\ Live(i) /\ Writers(i) = {}
        /\ LET from == rows[i].path  f == files[from]
           IN  /\ f # None /\ f.id \in {i, NoId}
               /\ writing' = [writing EXCEPT ![o] =
                     [id |-> i, from |-> from, to |-> to, etag |-> f.ver, ver |-> None,
                      step |-> "write", early |-> FALSE]]
  BY Zenon DEF BeginWrite
<1>3. rows[i].path \in Paths
  BY <1>1, <1>2, SomeIsTyped DEF Live, Row
<1>4. PICK w : /\ writing' = [writing EXCEPT ![o] = w]
               /\ w.id = i /\ w.from = rows[i].path /\ w.etag = files[rows[i].path].ver
  <2> DEFINE begun == [id |-> i, from |-> rows[i].path, to |-> to, etag |-> files[rows[i].path].ver,
                       ver |-> None, step |-> "write", early |-> FALSE]
  <2>1. begun.id = i /\ begun.from = rows[i].path /\ begun.etag = files[rows[i].path].ver
    OBVIOUS
  <2>2. writing' = [writing EXCEPT ![o] = begun]
    BY <1>2
  <2> HIDE DEF begun
  <2> QED  BY <2>1, <2>2
<1>5. /\ files' = files /\ rows' = rows /\ late' = late /\ touched' = touched /\ meddled' = meddled
      /\ overtaken' = overtaken /\ pass' = pass /\ disturbed' = disturbed
  BY DEF BeginWrite, WriterOnly, TakesNothing, Untouched
<1>6. writing'[o] = w /\ \A u \in Ops \ {o} : writing'[u] = writing[u]
  BY <1>1, <1>4 DEF TypeOK
<1>7. Turns'
  <2>1. \A u \in Ops \ {o} : writing[u] # None => writing[u].id # i
    BY <1>2 DEF Writers
  <2> QED  BY <1>1, <1>2, <1>4, <1>5, <1>6, <2>1 DEF Turns, Live
<1>8. Told'
  <2>1. \A p \in Paths : files[p] # None /\ files[p].ver = w.etag => files[p].id \in {w.id, NoId}
    BY <1>1, <1>2, <1>3, <1>4 DEF Told
  <2> QED  BY <1>1, <1>5, <1>6, <2>1 DEF Told
<1>9. \A j \in Ids : /\ Excused(j)' = Excused(j) /\ Matches(j)' = Matches(j) /\ Names(j)' = Names(j)
  BY <1>5 DEF Excused, Matches, Names
<1> QED  BY <1>5, <1>7, <1>8, <1>9, OthersKept

LEMMA WriteFileKept == ASSUME Inv, Kept, NEW o \in Ops, WriteFile(o)  PROVE Kept'
<1> DEFINE w == writing[o]
           f == files[w.from]
<1>1. TypeOK /\ Turns /\ Told
  BY DEF Inv, Kept
<1>2. /\ w # None /\ w \in Writer /\ w.from \in Paths /\ w.to \in Paths /\ w.etag \in Versions
      /\ w.id \in Ids
  BY <1>1, WritingTyped DEF WriteFile
<1>3. /\ rows' = rows /\ late' = late /\ overtaken' = overtaken
      /\ pass' = pass /\ disturbed' = disturbed
  BY DEF WriteFile, WriterOnly, TakesNothing
<1>4. \/ writing' = [writing EXCEPT ![o] = None] /\ UNCHANGED <<files, touched, meddled>>
      \/ /\ f # None /\ f.ver = w.etag
         /\ \E v \in Fresh :
              /\ files' = [files EXCEPT ![w.from] = [id |-> w.id, ver |-> v,
                                                    content |-> "good", settled |-> FALSE]]
              /\ writing' = [writing EXCEPT ![o].step = "commit", ![o].ver = v]
              /\ Touch({w.from})
      \/ /\ f # None /\ f.ver = w.etag /\ w.to # w.from /\ files[w.to] = None
         /\ files' = [files EXCEPT ![w.to] = f]
         /\ writing' = [writing EXCEPT ![o].step = "unlink", ![o].ver = w.etag]
         /\ Touch({w.to})
  BY Zenon DEF WriteFile, Untouched
<1>5. files \in [Paths -> File \cup {None}] /\ writing \in [Ops -> Writer \cup {None}]
  BY <1>1 DEF TypeOK
<1>6. SameWriters
  <2>1. \A u \in Ops \ {o} : writing'[u] = writing[u]
    BY <1>4, <1>5
  <2>2. ASSUME NEW step, NEW v, writing' = [writing EXCEPT ![o].step = step, ![o].ver = v]
        PROVE  /\ writing'[o].id = w.id /\ writing'[o].from = w.from /\ writing'[o].etag = w.etag
    <3>1. writing'[o] = [w EXCEPT !.step = step, !.ver = v]
      BY <1>5, <2>2
    <3> HIDE DEF w
    <3> QED  BY <1>2, <3>1 DEF Writer
  <2>3. CASE writing' = [writing EXCEPT ![o] = None]
    BY <1>5, <2>1, <2>3 DEF SameWriters
  <2>4. CASE \E step, v : writing' = [writing EXCEPT ![o].step = step, ![o].ver = v]
    BY <1>2, <2>1, <2>2, <2>4 DEF SameWriters
  <2> QED  BY <1>4, <2>3, <2>4
<1>7. Turns'
  BY <1>1, <1>3, <1>6, TurnsGoOn
<1>8. CASE UNCHANGED <<files, touched, meddled>>
  <2>1. Told'
    BY <1>1, <1>6, <1>8, SameFiles
  <2>2. \A j \in Ids : /\ Excused(j)' = Excused(j) /\ Matches(j)' = Matches(j) /\ Names(j)' = Names(j)
    BY <1>3, <1>8 DEF Excused, Matches, Names
  <2> QED  BY <1>3, <1>7, <1>8, <2>1, <2>2, OthersKept
(* Who writes has a live note, and what is there before and after is its own or nobody's. *)
<1>9. ASSUME NEW p \in {w.from, w.to}, NEW g \in File, NEW v, Unseen(v),
             files' = [files EXCEPT ![p] = g], Touch({p}),
             g.ver = v \/ (f # None /\ p # w.from /\ g = f), g.ver = v => g.id = w.id,
             f # None, f.ver = w.etag, files[p] = None \/ p = w.from
      PROVE  Kept'
  <2>1. p \in Paths /\ files'[p] = g /\ \A q \in Paths \ {p} : files'[q] = files[q]
    BY <1>2, <1>5, <1>9
  <2>2. f.id \in {w.id, NoId}
    BY <1>1, <1>2, <1>9 DEF Told
  <2>3. Rooted(v, w.id)
    BY <1>2, <1>9, <2>1 DEF Rooted
  <2>4. Told'
    BY <1>1, <1>6, <1>9, <2>3, ToldOn
  <2>5. Live(w.id) /\ rows[w.id].path = w.from
    BY <1>1, <1>2 DEF Turns
  <2>6. ASSUME NEW i \in Ids, Live(i), Matches(i)'
        PROVE  Matches(i) /\ rows[i].path # p
    <3>1. rows'[i] = rows[i] /\ rows[i] # None
      BY <1>3, <2>6 DEF Live
    <3>2. rows[i].path # p
      <4>1. CASE g.ver = v
        BY <1>9, <2>1, <2>6, <3>1, <4>1 DEF Matches, Unseen
      <4>2. CASE g = f /\ p # w.from
        BY <2>1, <2>2, <2>5, <2>6, <3>1, <4>2 DEF Matches, Names
      <4> QED  BY <1>9, <4>1, <4>2
    <3> QED  BY <2>1, <2>6, <3>1, <3>2 DEF Matches, Names
  <2>7. ASSUME NEW i \in Ids, ~Live(i)
        PROVE  Names(i) \subseteq Names(i)'
    <3>1. i # w.id
      BY <2>5, <2>7
    <3>2. p \notin Names(i)
      BY <1>9, <2>2, <3>1 DEF Names
    <3> QED  BY <2>1, <3>2 DEF Names
  <2>8. /\ pass.phase = "rest" => touched' = touched
        /\ \A q \in Paths \ {p} : q \in touched' => q \in touched
    BY <1>9 DEF Touch, Resting
  <2>9. ASSUME NEW i \in Ids, ~Excused(i)'
        PROVE  /\ ~Excused(i) /\ rows'[i] = rows[i]
               /\ Live(i) /\ Matches(i)' => Matches(i) /\ (rows[i].path \in touched' => rows[i].path \in touched)
               /\ ~Live(i) => Names(i) \subseteq Names(i)'
    <3>1. ~Excused(i) /\ rows'[i] = rows[i]
      BY <1>3, <2>9 DEF Excused
    <3>2. Live(i) => rows[i].path \in Paths
      BY <1>1, SomeIsTyped DEF Live, Row
    <3> QED  BY <2>6, <2>7, <2>8, <3>1, <3>2
  <2> QED  BY <1>3, <1>7, <2>4, <2>8, <2>9, OthersKept
<1>10. ASSUME f # None, f.ver = w.etag, NEW v \in Fresh,
              files' = [files EXCEPT ![w.from] = [id |-> w.id, ver |-> v,
                                                  content |-> "good", settled |-> FALSE]],
              Touch({w.from})
       PROVE  Kept'
  <2>1. v \in Versions /\ Unseen(v)
    BY <1>1, FreshIsAVersion, FreshIsUnseen
  <2>2. PICK g \in File : g = [id |-> w.id, ver |-> v, content |-> "good", settled |-> FALSE]
    BY <1>2, <2>1 DEF File, Content
  <2>3. files' = [files EXCEPT ![w.from] = g] /\ g.ver = v /\ g.id = w.id
    BY <1>10, <2>2
  <2> QED  BY <1>9, <1>10, <2>1, <2>3
<1>11. CASE /\ f # None /\ f.ver = w.etag /\ w.to # w.from /\ files[w.to] = None
            /\ files' = [files EXCEPT ![w.to] = f]
            /\ Touch({w.to})
  <2>1. f \in File /\ f.ver # None
    BY <1>1, <1>2, <1>11, SomeIsTyped DEF File
  <2>2. Unseen(None)
    BY <1>1, NoneIsUnseen
  <2> QED  BY <1>9, <1>11, <2>1, <2>2
<1> QED  BY <1>4, <1>8, <1>10, <1>11

(* A name taken back: whoever else's it is now is excused. *)
LEMMA TakenBack ==
  ASSUME Inv, Kept, NEW o \in Ops, writing[o] # None, NEW p \in Paths,
         files' = [files EXCEPT ![p] = None], Touch({p}), Takes(o, p), SameWriters,
         rows' = rows, late' = late, overtaken' = overtaken, pass' = pass
  PROVE  Kept'
<1>1. TypeOK /\ Turns /\ Told /\ files \in [Paths -> File \cup {None}]
  BY DEF Inv, Kept, TypeOK
<1>2. files'[p] = None /\ \A q \in Paths \ {p} : files'[q] = files[q]
  BY <1>1
<1>3. Turns'
  BY <1>1, TurnsGoOn
<1>4. Told'
  <2>1. Rooted(None, None)
    BY <1>2 DEF Rooted
  <2> QED  BY <1>1, <2>1, NoneIsUnseen, ToldOn
<1>5. Live(writing[o].id)
  BY <1>1 DEF Turns
<1>6. /\ pass.phase = "rest" => touched' = touched
      /\ \A q \in Paths \ {p} : q \in touched' => q \in touched
  BY DEF Touch, Resting
<1>7. ASSUME NEW i \in Ids, ~Excused(i)', pass.phase # "rest"
      PROVE  /\ ~Excused(i) /\ rows'[i] = rows[i]
             /\ Live(i) /\ Matches(i)' => Matches(i) /\ (rows[i].path \in touched' => rows[i].path \in touched)
             /\ ~Live(i) => Names(i) \subseteq Names(i)'
  <2>1. disturbed' = disturbed \cup {j \in Ids \ {writing[o].id} : files[p] # None /\ files[p].id = j}
    BY <1>7 DEF Takes, Resting
  <2>2. ~Excused(i) /\ i \notin disturbed'
    BY <1>7, <2>1 DEF Excused
  <2>3. ASSUME Live(i), Matches(i)'
        PROVE  Matches(i) /\ (rows[i].path \in touched' => rows[i].path \in touched)
    <3>1. rows[i].path \in Paths \ {p}
      BY <1>2, <2>3 DEF Matches, Names
    <3> QED  BY <1>2, <1>6, <2>3, <3>1 DEF Matches, Names
  <2>4. ASSUME ~Live(i)  PROVE Names(i) \subseteq Names(i)'
    <3>1. p \notin Names(i)
      BY <1>5, <2>1, <2>2, <2>4 DEF Names
    <3> QED  BY <1>2, <3>1 DEF Names
  <2> QED  BY <2>2, <2>3, <2>4
<1> QED  BY <1>3, <1>4, <1>6, <1>7, OthersKept

LEMMA UnlinkKept == ASSUME Inv, Kept, NEW o \in Ops, Unlink(o)  PROVE Kept'
<1>1. TypeOK
  BY DEF Inv
<1>2. PICK w \in Writer, p \in Paths : w = writing[o] /\ p = w.from /\ w # None
  BY <1>1, WritingTyped DEF Unlink
<1>3. /\ files' = [files EXCEPT ![p] = None] /\ Touch({p}) /\ Takes(o, p)
      /\ writing' = [writing EXCEPT ![o].step = "commit"]
      /\ rows' = rows /\ late' = late /\ overtaken' = overtaken /\ pass' = pass
  BY <1>2 DEF Unlink, WriterOnly
<1>4. SameWriters
  <2>1. /\ [w EXCEPT !.step = "commit"].id = w.id /\ [w EXCEPT !.step = "commit"].from = w.from
        /\ [w EXCEPT !.step = "commit"].etag = w.etag
    BY DEF Writer
  <2>2. writing'[o] = [w EXCEPT !.step = "commit"] /\ \A u \in Ops \ {o} : writing'[u] = writing[u]
    BY <1>1, <1>2, <1>3 DEF TypeOK
  <2> QED  BY <1>2, <2>1, <2>2 DEF SameWriters
<1> QED  BY <1>2, <1>3, <1>4, TakenBack

LEMMA CommitKept == ASSUME Inv, Kept, NEW o \in Ops, Commit(o)  PROVE Kept'
<1>1. TypeOK /\ Turns /\ Told
  BY DEF Inv, Kept
<1>2. PICK i \in Ids : writing[o] # None /\ i = writing[o].id
  BY <1>1, WritingTyped DEF Commit
<1>3. /\ files' = files /\ touched' = touched /\ pass' = pass /\ disturbed' = disturbed
      /\ rows' = [rows EXCEPT ![i] = Written(o)]
      /\ writing' = [writing EXCEPT ![o] = None]
      /\ late' = IF Resting \/ writing[o].early THEN late ELSE late \cup {i}
      /\ overtaken' = IF ~Resting /\ writing[o].early THEN overtaken \cup {i} ELSE overtaken
  BY <1>2 DEF Commit, WriterOnly, TakesNothing, Untouched
<1>4. SameWriters /\ writing'[o] = None /\ \A u \in Ops \ {o} : writing'[u] = writing[u]
  BY <1>1, <1>3 DEF SameWriters, TypeOK
<1>5. \A j \in Ids \ {i} : rows'[j] = rows[j]
  BY <1>1, <1>3 DEF TypeOK
<1>6. Turns'
  <2>1. ASSUME NEW u \in Ops, writing'[u] # None
        PROVE  rows'[writing[u].id] = rows[writing[u].id]
    <3>1. u # o /\ writing[u] # None /\ writing[u].id \in Ids
      BY <1>1, <1>4, <2>1, WritingTyped
    <3>2. writing[u].id # i
      BY <1>1, <1>2, <3>1 DEF Turns
    <3> QED  BY <1>5, <3>1, <3>2
  <2> QED  BY <1>1, <1>4, <2>1, TurnsGoOn
<1>7. Told'
  BY <1>1, <1>3, <1>4, SameFiles
<1>8. ASSUME NEW j \in Ids, ~Excused(j)', pass.phase # "rest"
      PROVE  ~Excused(j) /\ rows'[j] = rows[j] /\ Matches(j)' = Matches(j) /\ Names(j)' = Names(j)
  <2>1. j # i /\ ~Excused(j)
    BY <1>3, <1>8 DEF Excused, Resting
  <2> QED  BY <1>3, <1>5, <2>1 DEF Matches, Names
<1> QED  BY <1>3, <1>6, <1>7, <1>8, OthersKept

LEMMA WriteFailsKept == ASSUME Inv, Kept, NEW o \in Ops, WriteFails(o)  PROVE Kept'
<1>1. TypeOK /\ Turns /\ Told
  BY DEF Inv, Kept
<1>2. PICK p \in Paths : writing[o] # None /\ p = writing[o].to
  BY <1>1, WritingTyped DEF WriteFails
<1>3. /\ rows' = rows /\ late' = late /\ overtaken' = overtaken /\ pass' = pass
      /\ writing' = [writing EXCEPT ![o] = None]
      /\ \/ files' = [files EXCEPT ![p] = None] /\ Touch({p}) /\ Takes(o, p)
         \/ files' = files /\ touched' = touched /\ disturbed' = disturbed
  BY <1>2 DEF WriteFails, WriterOnly, TakesNothing, Untouched
<1>4. SameWriters
  BY <1>1, <1>3 DEF SameWriters, TypeOK
<1>5. CASE files' = [files EXCEPT ![p] = None] /\ Touch({p}) /\ Takes(o, p)
  BY <1>2, <1>3, <1>4, <1>5, TakenBack
<1>6. CASE files' = files /\ touched' = touched /\ disturbed' = disturbed
  <2>1. Turns'
    BY <1>1, <1>3, <1>4, TurnsGoOn
  <2>2. Told'
    BY <1>1, <1>4, <1>6, SameFiles
  <2>3. \A j \in Ids : /\ Excused(j)' = Excused(j) /\ Matches(j)' = Matches(j) /\ Names(j)' = Names(j)
    BY <1>3, <1>6 DEF Excused, Matches, Names
  <2> QED  BY <1>3, <1>6, <2>1, <2>2, <2>3, OthersKept
<1> QED  BY <1>3, <1>5, <1>6

LEMMA DeviceKept ==
  ASSUME Inv, Kept, NEW P \in SUBSET Paths, DeviceTouches(P),
         \A p \in Paths \ P : files'[p] = files[p], NEW v, Unseen(v), NEW x, Rooted(v, x)
  PROVE  Kept'
<1>1. TypeOK /\ Turns /\ Told
  BY DEF Inv, Kept
<1>2. /\ rows' = rows /\ writing' = writing /\ late' = late /\ overtaken' = overtaken
      /\ pass' = pass /\ Touch(P)
      /\ disturbed' = IF Resting THEN disturbed
                      ELSE disturbed \cup {i \in Ids : \/ rows[i] # None /\ rows[i].path \in P
                                                      \/ \E p \in P : \/ files[p] # None /\ files[p].id = i
                                                                      \/ files'[p] # None /\ files'[p].id = i}
  BY DEF DeviceTouches
<1>3. SameWriters
  BY <1>2 DEF SameWriters
<1>4. Turns'
  BY <1>1, <1>2, <1>3, TurnsGoOn
<1>5. Told'
  BY <1>1, <1>3, ToldOn
<1>6. /\ pass.phase = "rest" => touched' = touched
      /\ \A q \in Paths \ P : q \in touched' => q \in touched
  BY <1>2 DEF Touch, Resting
<1>7. ASSUME NEW i \in Ids, ~Excused(i)', pass.phase # "rest"
      PROVE  /\ ~Excused(i) /\ rows'[i] = rows[i]
             /\ Live(i) /\ Matches(i)' => Matches(i) /\ (rows[i].path \in touched' => rows[i].path \in touched)
             /\ ~Live(i) => Names(i) \subseteq Names(i)'
  <2>1. /\ ~Excused(i) /\ (rows[i] # None => rows[i].path \notin P)
        /\ \A p \in P : ~(files[p] # None /\ files[p].id = i)
    BY <1>2, <1>7 DEF Excused, Resting
  <2>2. ASSUME Live(i), Matches(i)'
        PROVE  Matches(i) /\ (rows[i].path \in touched' => rows[i].path \in touched)
    <3>1. rows[i].path \in Paths \ P
      BY <1>2, <2>1, <2>2 DEF Matches, Names, Live
    <3> QED  BY <1>2, <1>6, <2>2, <3>1 DEF Matches, Names
  <2>3. Names(i) \subseteq Names(i)'
    BY <2>1 DEF Names
  <2> QED  BY <1>2, <2>1, <2>2, <2>3
<1> QED  BY <1>2, <1>4, <1>5, <1>6, <1>7, OthersKept

LEMMA DevicesKept == ASSUME Inv, Kept, Device  PROVE Kept'
<1>0. TypeOK /\ files \in [Paths -> File \cup {None}] /\ Unseen(None)
  BY NoneIsUnseen DEF Inv, TypeOK
<1>1. ASSUME NEW p \in Paths, DeviceWrites(p)  PROVE Kept'
  <2>1. PICK id \in {NoId} \cup (IF files[p] = None THEN {} ELSE {files[p].id}), content \in Content,
              v \in Fresh :
           files' = [files EXCEPT ![p] = [id |-> id, ver |-> v, content |-> content, settled |-> FALSE]]
    BY <1>1 DEF DeviceWrites
  <2>2. PICK g : g = [id |-> id, ver |-> v, content |-> content, settled |-> FALSE]
    OBVIOUS
  <2>3. files' = [files EXCEPT ![p] = g] /\ g.id = id /\ g.ver = v
    BY <2>1, <2>2
  <2>4. files'[p] = g /\ \A q \in Paths \ {p} : files'[q] = files[q]
    BY <1>0, <2>3
  <2>5. Rooted(v, id) /\ Unseen(v)
    BY <1>0, <2>3, <2>4, FreshIsUnseen DEF Rooted
  <2>6. PICK P \in SUBSET Paths : P = {p}
    OBVIOUS
  <2>7. DeviceTouches(P)
    BY <1>1, <2>6 DEF DeviceWrites
  <2> QED  BY <2>4, <2>5, <2>6, <2>7, DeviceKept
<1>2. ASSUME NEW p \in Paths, DeviceDeletes(p)  PROVE Kept'
  <2>1. files'[p] = None /\ \A q \in Paths \ {p} : files'[q] = files[q]
    BY <1>0, <1>2 DEF DeviceDeletes
  <2>2. Rooted(None, None)
    BY <2>1 DEF Rooted
  <2>5. PICK P \in SUBSET Paths : P = {p}
    OBVIOUS
  <2>6. DeviceTouches(P)
    BY <1>2, <2>5 DEF DeviceDeletes
  <2> QED  BY <1>0, <2>1, <2>2, <2>5, <2>6, DeviceKept
<1>3. ASSUME NEW p \in Paths, NEW q \in Paths, DeviceMoves(p, q) \/ DeviceCopies(p, q)  PROVE Kept'
  <2>1. /\ files[p] # None /\ files'[q] = files[p] /\ (files'[p] = None \/ files'[p] = files[p])
        /\ \A x \in Paths \ {p, q} : files'[x] = files[x]
    BY <1>0, <1>3 DEF DeviceMoves, DeviceCopies
  <2>2. Rooted(None, None)
    BY <2>1 DEF Rooted
  <2>5. PICK P \in SUBSET Paths : P = {p, q}
    OBVIOUS
  <2>6. DeviceTouches(P)
    BY <1>3, <2>5 DEF DeviceMoves, DeviceCopies
  <2> QED  BY <1>0, <2>1, <2>2, <2>5, <2>6, DeviceKept
<1> QED  BY <1>1, <1>2, <1>3 DEF Device

LEMMA SettleKept == ASSUME Inv, Kept, NEW p \in Paths, Settle(p)  PROVE Kept'
<1>1. TypeOK /\ Turns /\ Told /\ files \in [Paths -> File \cup {None}] /\ Unseen(None)
  BY NoneIsUnseen DEF Inv, Kept, TypeOK
<1>2. PICK f \in File : f = files[p] /\ files[p] # None
  BY <1>1, SomeIsTyped DEF Settle
<1>3. PICK g \in File : g = [f EXCEPT !.settled = TRUE] /\ g.id = f.id /\ g.ver = f.ver
  <2>1. /\ [f EXCEPT !.settled = TRUE] \in File
        /\ [f EXCEPT !.settled = TRUE].id = f.id /\ [f EXCEPT !.settled = TRUE].ver = f.ver
    BY DEF File
  <2> QED  BY <2>1
<1>4. files' = [files EXCEPT ![p] = g]
  BY <1>1, <1>2, <1>3 DEF Settle
<1>5. files'[p] = g /\ g # None /\ \A q \in Paths \ {p} : files'[q] = files[q]
  BY <1>1, <1>4
<1>6. /\ rows' = rows /\ writing' = writing /\ late' = late /\ overtaken' = overtaken
      /\ pass' = pass /\ disturbed' = disturbed /\ touched' = touched /\ meddled' = meddled
  BY DEF Settle
<1>7. SameWriters /\ Rooted(None, None)
  BY <1>2, <1>3, <1>5, <1>6 DEF SameWriters, Rooted
<1>8. Turns' /\ Told'
  BY <1>1, <1>6, <1>7, TurnsGoOn, ToldOn
<1>9. ASSUME NEW i \in Ids
      PROVE  Excused(i)' = Excused(i) /\ Names(i)' = Names(i) /\ Matches(i)' = Matches(i)
  <2>1. Excused(i)' = Excused(i)
    BY <1>6 DEF Excused
  <2>2. Names(i)' = Names(i)
    BY <1>2, <1>3, <1>5 DEF Names
  <2>3. \A q \in Names(i) : files'[q].ver = files[q].ver
    BY <1>2, <1>3, <1>5 DEF Names
  <2> QED  BY <1>6, <2>1, <2>2, <2>3 DEF Matches
<1> QED  BY <1>6, <1>8, <1>9, OthersKept

LEMMA KeptInductive == Inv /\ Kept /\ [Next]_vars => Kept'
<1> SUFFICES ASSUME Inv, Kept, [Next]_vars  PROVE Kept'
  OBVIOUS
<1>1. CASE UNCHANGED vars
  <2>1. /\ UNCHANGED <<files, rows, writing, late, remembered, pass, touched, meddled, disturbed>>
        /\ UNCHANGED overtaken
    BY <1>1 DEF vars
  <2>2. Turns' /\ Told'
    BY <2>1 DEF Kept, Turns, Told, Live
  <2>3. \A i \in Ids : /\ Excused(i)' = Excused(i) /\ Names(i)' = Names(i)
                       /\ Matches(i)' = Matches(i)
    BY <2>1 DEF Excused, Names, Matches
  <2> QED  BY <2>1, <2>2, <2>3, OthersKept
<1>2. CASE PassStep
  <2>1. CASE Begin
    BY <2>1, BeginKept
  <2>2. CASE ReadMirror
    BY <2>2, ReadMirrorKept
  <2>3. CASE \E p \in Paths : List(p)
    BY <2>3, ListKept
  <2>4. CASE Stat
    BY <2>4, StatKept
  <2>5. CASE Read
    BY <2>5, ReadKept
  <2>6. CASE WalkEnds
    BY <2>6, WalkEndsKept
  <2>7. CASE Adopt
    BY <2>7, AdoptCheckKept, AdoptLookKept, AdoptWriteKept, AdoptCommitKept DEF Adopt
  <2>8. CASE AdoptFails
    BY <2>8, AdoptFailsKept
  <2>9. CASE Fetch
    BY <2>9, FetchKept
  <2>10. CASE Apply
    BY <2>10, ApplyKept
  <2> QED  BY <1>2, <2>1, <2>2, <2>3, <2>4, <2>5, <2>6, <2>7, <2>8, <2>9, <2>10 DEF PassStep
<1>3. CASE PassFails \/ Crash
  BY <1>3, FailKept
<1>4. CASE \E o \in Ops : BeginWrite(o) \/ WriterStep(o)
  BY <1>4, BeginWriteKept, WriteFileKept, UnlinkKept, CommitKept, WriteFailsKept DEF WriterStep
<1>5. CASE Device \/ \E p \in Paths : Settle(p)
  BY <1>5, DevicesKept, SettleKept
<1> QED  BY <1>1, <1>2, <1>3, <1>4, <1>5 DEF Next

LEMMA RowsAreKept == Spec => []Kept
BY InvInductive, InitEstablishes, InitKept, KeptInductive, PTL DEF Spec

-----------------------------------------------------------------------------
(* What the updates make of a right row. *)

(* A live right row: the file lies there untouched, so the pass holds the note
   or has observed that very file, and writes what the row says already. *)
LEMMA LiveStaysRight ==
  ASSUME Inv, Kept, Apply, NEW i \in NotNewer, i \in Ids, Live(i), Right(i), ~Excused(i),
         ~Overlooked(rows[i].path)
  PROVE  Right(i)'
<1>1. TypeOK /\ Observed /\ Mirrored /\ Steadfast /\ pass.phase = "apply"
  BY ApplyDoes DEF Inv, Kept
<1>2. i \in Stale /\ rows'[i] = Updated(i) /\ files' = files
  BY ApplyDoes
<1>3. /\ i \in Known /\ Target(i) \in Row /\ pass.fetched[i] \in Row /\ rows[i] \in Row
  BY <1>1, <1>2, TargetIs
<1>4. rows[i] = pass.mirror[i] /\ pass.fetched[i] = pass.mirror[i]
  BY <1>1, <1>3 DEF Mirrored, Excused
<1>5. PICK p \in Paths : p = rows[i].path
  BY <1>3 DEF Row
<1>6. /\ p \in Names(i) /\ files[p].content # "locked" /\ files[p].ver = rows[i].hash
      /\ rows[i].state = IF files[p].content = "good" THEN "ok" ELSE "unparsed"
  BY <1>5 DEF Right, Live
<1>7. p \notin touched
  BY <1>1, <1>3, <1>5, <1>6 DEF Steadfast, Matches
<1>8. Entry(p) \subseteq {i}
  <2>1. i \in Claimants(p)
    BY <1>3, <1>4, <1>5 DEF Claimants, Live
  <2>2. Entry(p) = {} \/ i \in Entry(p)
    BY <2>1 DEF Entry
  <2> QED  BY <1>1, <2>2, EntryIsOne
<1>9. /\ i \notin pass.held /\ (i \in Absent \/ Chosen(i) # {})
  BY <1>2 DEF Stale, Absent, Chosen
<1>10. PICK own \in pass.observed : own.path = p /\ own.id = i /\ ~own.derived
  BY <1>1, <1>3, <1>5, <1>6, <1>7, <1>8, <1>9, AllHeard
<1>11. /\ own.hash = files[p].ver
       /\ own.state = IF files[p].content = "good" THEN "ok" ELSE "unparsed"
  BY <1>1, <1>7, <1>10 DEF Observed, Truthful
<1>12. Chosen(i) = {own}
  BY <1>1, <1>4, <1>5, <1>9, <1>10, HomeWins
<1>13. i \notin Absent
  BY <1>10 DEF Absent, ObservedOf
<1>14. PICK ob \in pass.observed : /\ Chosen(i) = {ob} /\ Target(i).path = ob.path
                                   /\ ob.state # "unreadable" => /\ Target(i).hash = ob.hash
                                                                 /\ Target(i).state = ob.state
  BY <1>1, <1>2, <1>13, TargetIs
<1>15. ob = own
  BY <1>12, <1>14
<1>16. Target(i).path = p /\ Target(i).hash = files[p].ver /\ Target(i).state = own.state
  BY <1>10, <1>11, <1>14, <1>15
<1>17. rows'[i].path = p /\ rows'[i].hash = files[p].ver /\ rows'[i].state = own.state
  BY <1>2, <1>3, <1>4, <1>16, ColumnsAreWritten
<1> QED  BY <1>2, <1>6, <1>11, <1>17 DEF Right, Names

(* A missing note that nothing names: no file that names it was seen, for it
   would still be there. *)
LEMMA MissingStaysRight ==
  ASSUME Inv, Kept, Apply, NEW i \in NotNewer, i \in Ids, rows[i] # None, ~Live(i), Right(i), ~Excused(i)
  PROVE  Right(i)'
<1>1. TypeOK /\ Observed /\ Mirrored /\ Lingers /\ pass.phase = "apply"
  BY ApplyDoes DEF Inv, Kept
<1>2. i \in Stale /\ rows'[i] = Updated(i) /\ files' = files
  BY ApplyDoes
<1>3. /\ i \in Known /\ Target(i) \in Row /\ pass.fetched[i] \in Row /\ rows[i] \in Row
  BY <1>1, <1>2, TargetIs
<1>4. rows[i] = pass.mirror[i] /\ pass.fetched[i] = pass.mirror[i]
  BY <1>1, <1>3 DEF Mirrored, Excused
<1>5. rows[i].state = "missing" /\ Names(i) = {}
  BY DEF Right, Live
<1>6. \A ob \in pass.observed : ob.id # i
  <2> SUFFICES ASSUME NEW ob \in pass.observed, ob.id = i  PROVE FALSE
    OBVIOUS
  <2>1. PICK p \in Paths : p = ob.path
    BY <1>1, PassFields DEF TypeOK, Observation
  <2>2. Truthful(ob)
    BY <1>1 DEF Observed
  <2>3. CASE ob.derived
    <3>1. Entry(p) = {i}
      BY <2>1, <2>2, <2>3 DEF Truthful
    <3> QED  BY <1>1, <1>4, <1>5, <3>1, EntryIsOne
  <2>4. CASE ~ob.derived
    BY <1>1, <1>5, <2>4 DEF Lingers
  <2> QED  BY <2>3, <2>4
<1>7. i \in Absent /\ Target(i).state = "missing"
  BY <1>1, <1>2, <1>3, <1>6, TargetIs, ChosenIsOne
<1>8. rows'[i].state = "missing"
  BY <1>2, <1>3, <1>4, <1>5, <1>7, ColumnsAreWritten
<1> QED  BY <1>2, <1>5, <1>8 DEF Right, Names

\* A pass makes no right row wrong, for any number of notes, writers and
\* devices: what the walk saw of an undisturbed note is still so when the
\* updates are made, or its row has been written since and is passed over
\* (_apply's updated_at <= scan_started).
THEOREM PassesNeverMislead == Spec => PassNeverMisleads
<1>1. ASSUME Inv, Kept, NEW i \in Ids, Apply, Right(i), i \notin disturbed \cup overtaken,
             Live(i) => ~Overlooked(rows[i].path)
      PROVE  Right(i)'
  <2>1. /\ files' = files
        /\ i \in NotNewer => i \notin late
        /\ i \notin NotNewer => rows'[i] = rows[i]
        /\ i \in NotNewer => rows[i] # None
    <3>1. Mirrored
      BY <1>1 DEF Inv
    <3> QED  BY <1>1, <3>1, ApplyDoes DEF Mirrored, Stale
  <2>2. CASE i \notin NotNewer
    BY <1>1, <2>1, <2>2 DEF Right, Names
  <2>3. CASE i \in NotNewer
    <3>1. ~Excused(i) /\ rows[i] # None
      BY <1>1, <2>1, <2>3 DEF Excused
    <3> QED  BY <1>1, <2>3, <3>1, LiveStaysRight, MissingStaysRight
  <2> QED  BY <2>2, <2>3
<1>2. Inv /\ Kept /\ [Next]_vars
      => [\A i \in Ids : Apply /\ Right(i) /\ i \notin disturbed \cup overtaken
                           /\ (Live(i) => ~Overlooked(rows[i].path))
            => Right(i)']_vars
  BY <1>1
<1> QED  BY <1>2, PassesKeepFaith, RowsAreKept, PTL DEF PassNeverMisleads, Spec

-----------------------------------------------------------------------------
(* What adoption rests on: the file it works at, and the bytes it has read. *)

(* Files of one version are copies of each other. *)
SameBytes ==
  \A p, q \in Paths : files[p] # None /\ files[q] # None /\ files[p].ver = files[q].ver
     => files[p].id = files[q].id /\ files[p].content = files[q].content

(* What has the bytes of a candidate can be read and parses. *)
Legible ==
  \A c \in pass.candidates, p \in Paths : files[p] # None /\ files[p].ver = c.ver
     => files[p].content = "good"

(* The adoption under way: its bytes name its note or none, and since the last
   look at the file nothing lies there but what was seen or what was written. *)
Adopting ==
  pass.adopting # None =>
    LET a == pass.adopting  p == a.cand.path
    IN  /\ a.cand \in pass.candidates
        /\ \A q \in Paths : files[q] # None /\ files[q].ver = a.cand.ver => files[q].id \in {NoId, a.id}
        /\ a.ver # None => a.looked
        /\ a.looked /\ ~meddled =>
              /\ files[p] # None
              /\ IF a.ver = None THEN files[p].ver = a.cand.ver
                 ELSE files[p].id = a.id /\ files[p].ver = a.ver /\ files[p].content = "good"

Bytes == SameBytes /\ Legible /\ Adopting

(* A file that is there after a step is a copy of one that was, or has bytes
   nobody had: version v, which names x and reads y. *)
Copied(p) == \E q \in Paths : /\ files[q] # None /\ files'[p].id = files[q].id
                              /\ files'[p].ver = files[q].ver /\ files'[p].content = files[q].content
Brought(v, x, y) ==
  \A p \in Paths : files'[p] # None
     => Copied(p) \/ (files'[p].ver = v /\ files'[p].id = x /\ files'[p].content = y)
Novel(v) == /\ \A p \in Paths : files[p] # None => files[p].ver # v
            /\ \A c \in pass.candidates : c.ver # v

LEMMA FreshIsNovel == TypeOK => \A v \in Fresh : Novel(v)
<1> SUFFICES ASSUME TypeOK, NEW v \in Fresh  PROVE Novel(v)
  OBVIOUS
<1>1. v \notin TakenVersions /\ Unseen(v)
  BY FreshIsUnseen DEF Fresh
<1>2. ASSUME NEW c \in pass.candidates  PROVE c.ver # v
  <2>1. c.ver \in UNION {{d.ver, d.stat} : d \in pass.candidates}
    OBVIOUS
  <2> QED  BY <1>1, <2>1 DEF TakenVersions
<1> QED  BY <1>1, <1>2 DEF Novel, Unseen

LEMMA NoneIsNovel == TypeOK => Novel(None)
<1> SUFFICES ASSUME TypeOK  PROVE Novel(None)
  OBVIOUS
<1>1. pass.candidates \subseteq Candidate
  BY PassFields DEF TypeOK
<1> QED  BY <1>1, NoneIsUnseen DEF Novel, Unseen, Candidate

LEMMA BytesAreBrought ==
  ASSUME SameBytes, Legible, NEW v, Novel(v), NEW x, NEW y, Brought(v, x, y),
         pass'.candidates \subseteq pass.candidates
  PROVE  /\ SameBytes' /\ Legible'
         /\ \A c \in pass.candidates, p \in Paths : files'[p] # None /\ files'[p].ver = c.ver
               => \E q \in Paths : files[q] # None /\ files[q].ver = c.ver /\ files[q].id = files'[p].id
<1>1. ASSUME NEW p \in Paths, NEW q \in Paths, files'[p] # None, files'[q] # None,
             files'[p].ver = files'[q].ver
      PROVE  files'[p].id = files'[q].id /\ files'[p].content = files'[q].content
  <2>1. CASE Copied(p) /\ Copied(q)
    BY <1>1, <2>1 DEF Copied, SameBytes
  <2>2. CASE ~Copied(p) /\ ~Copied(q)
    BY <1>1, <2>2 DEF Brought
  <2>3. CASE Copied(p) /\ ~Copied(q)
    BY <1>1, <2>3 DEF Brought, Copied, Novel
  <2>4. CASE ~Copied(p) /\ Copied(q)
    BY <1>1, <2>4 DEF Brought, Copied, Novel
  <2> QED  BY <2>1, <2>2, <2>3, <2>4
<1>2. ASSUME NEW c \in pass.candidates, NEW p \in Paths, files'[p] # None, files'[p].ver = c.ver
      PROVE  Copied(p)
  BY <1>2 DEF Brought, Novel
<1>3. SameBytes'
  BY <1>1 DEF SameBytes
<1>4. Legible'
  BY <1>2 DEF Legible, Copied
<1>5. ASSUME NEW c \in pass.candidates, NEW p \in Paths, files'[p] # None, files'[p].ver = c.ver
      PROVE  \E q \in Paths : files[q] # None /\ files[q].ver = c.ver /\ files[q].id = files'[p].id
  BY <1>2, <1>5 DEF Copied
<1> QED  BY <1>3, <1>4, <1>5

(* Who changes the file being adopted is remembered. *)
Watched == pass.adopting # None =>
             \/ meddled'
             \/ ~meddled /\ Alike(pass.adopting.cand.path)

LEMMA OthersLeaveBytes ==
  ASSUME TypeOK, Bytes, NEW v, Novel(v), NEW x, NEW y, Brought(v, x, y), pass' = pass, Watched
  PROVE  Bytes'
<1>1. /\ SameBytes' /\ Legible'
      /\ \A c \in pass.candidates, p \in Paths : files'[p] # None /\ files'[p].ver = c.ver
            => \E q \in Paths : files[q] # None /\ files[q].ver = c.ver /\ files[q].id = files'[p].id
  BY BytesAreBrought DEF Bytes
<1>2. Adopting'
  <2> SUFFICES ASSUME pass.adopting # None  PROVE Adopting'
    BY DEF Adopting
  <2> DEFINE a == pass.adopting
             p == a.cand.path
  <2>1. /\ a.cand \in pass.candidates
        /\ \A q \in Paths : files[q] # None /\ files[q].ver = a.cand.ver => files[q].id \in {NoId, a.id}
        /\ a.ver # None => a.looked
        /\ a.looked /\ ~meddled =>
              /\ files[p] # None
              /\ IF a.ver = None THEN files[p].ver = a.cand.ver
                 ELSE files[p].id = a.id /\ files[p].ver = a.ver /\ files[p].content = "good"
    BY DEF Bytes, Adopting
  <2>2. \A q \in Paths : files'[q] # None /\ files'[q].ver = a.cand.ver => files'[q].id \in {NoId, a.id}
    BY <1>1, <2>1
  <2>3. a.looked /\ ~meddled' =>
              /\ files'[p] # None
              /\ IF a.ver = None THEN files'[p].ver = a.cand.ver
                 ELSE files'[p].id = a.id /\ files'[p].ver = a.ver /\ files'[p].content = "good"
    BY <2>1 DEF Watched, Alike
  <2> QED  BY <2>1, <2>2, <2>3 DEF Adopting
<1> QED  BY <1>1, <1>2 DEF Bytes

(* Nobody else works at the files, and no adoption is under way. *)
LEMMA NothingIsBrought ==
  ASSUME TypeOK, Bytes, files' = files, pass'.candidates \subseteq pass.candidates,
         pass'.adopting = None
  PROVE  Bytes'
BY DEF Bytes, SameBytes, Legible, Adopting

LEMMA InitBytes == Init => Bytes
<1> SUFFICES ASSUME Init  PROVE Bytes
  OBVIOUS
<1>1. PICK home \in [Ids -> Paths \cup {None}], ver \in FirstVersions :
        files = [p \in Paths |->
              IF \E i \in Ids : home[i] = p
              THEN LET i == CHOOSE i \in Ids : home[i] = p
                   IN  [id |-> i, ver |-> ver[i], content |-> "good", settled |-> TRUE]
              ELSE None]
  BY ZenonT(60) DEF Init
<1>2. \A i, j \in Ids : i # j => ver[i] # ver[j]
  BY DEF FirstVersions
<1>3. ASSUME NEW p \in Paths, files[p] # None
      PROVE  files[p].id \in Ids /\ files[p].ver = ver[files[p].id] /\ files[p].content = "good"
  <2>1. \E i \in Ids : home[i] = p
    BY <1>1, <1>3
  <2>2. PICK i \in Ids : i = CHOOSE j \in Ids : home[j] = p
    BY <2>1
  <2>3. files[p] = [id |-> i, ver |-> ver[i], content |-> "good", settled |-> TRUE]
    BY <1>1, <2>1, <2>2
  <2> QED  BY <2>3
<1>4. pass.candidates = {} /\ pass.adopting = None
  BY DEF Init, Rest
<1> QED  BY <1>2, <1>3, <1>4 DEF Bytes, SameBytes, Legible, Adopting

LEMMA ReadBytes == ASSUME Inv, Bytes, Read  PROVE Bytes'
<1>1. TypeOK /\ pass.phase = "read" /\ pass.adopting = None /\ pass.stat # None
  BY DEF Inv, Read, Begun
<1>2. files' = files /\ SameBytes /\ Legible
  BY DEF Read, Scanning, Bytes
<1>3. PICK p \in Paths : pass.at = p
  BY <1>1, AtSomewhere
<1>4. ReadGone(p) \/ ReadSees(p) \/ ReadLearns(p)
  BY <1>1, <1>3, ReadDoes
<1>5. pass'.adopting = None
  BY <1>1, <1>4 DEF ReadGone, ReadSees, ReadLearns, ReadEnds, Moved, AsBefore
<1>6. ASSUME NEW c \in pass'.candidates, c \notin pass.candidates
      PROVE  c.ver = files[p].ver /\ files[p] # None /\ files[p].content = "good"
  <2>1. /\ ReadLearns(p) /\ pass'.candidates # pass.candidates
    BY <1>4, <1>6 DEF ReadGone, ReadSees
  <2>2. c = [path |-> p, ver |-> files[p].ver, stat |-> pass.stat]
    BY <1>6, <2>1 DEF ReadLearns
  <2> QED  BY <2>1, <2>2 DEF ReadLearns
<1>7. Legible'
  BY <1>2, <1>3, <1>6 DEF Legible, SameBytes
<1> QED  BY <1>2, <1>5, <1>7 DEF Bytes, SameBytes, Adopting

LEMMA AdoptCheckBytes == ASSUME Inv, Bytes, NEW c \in pass.candidates, AdoptCheck(c)  PROVE Bytes'
<1>1. TypeOK /\ SameBytes /\ Legible
  BY DEF Inv, Bytes
<1>2. files' = files
  BY DEF AdoptCheck
<1>3. Adopts /\ c \in Candidate
  BY <1>1, AdoptCheckDoes
<1>4. SameBytes' /\ Legible'
  BY <1>1, <1>2, <1>3 DEF SameBytes, Legible, Adopts
<1>5. CASE pass'.adopting = None
  BY <1>4, <1>5 DEF Bytes, Adopting
<1>6. ASSUME NEW i \in Ids, StillAsRead(c), pass'.candidates = pass.candidates,
             files[c.path].id \in {NoId, i},
             pass'.adopting = [cand |-> c, id |-> i, looked |-> FALSE, ver |-> None]
      PROVE  Adopting'
  <2>1. /\ pass'.adopting.cand = c /\ pass'.adopting.id = i
        /\ ~pass'.adopting.looked /\ pass'.adopting.ver = None
    BY <1>6
  <2>2. c.path \in Paths
    BY <1>3 DEF Candidate
  <2>3. \A q \in Paths : files[q] # None /\ files[q].ver = c.ver => files[q].id \in {NoId, i}
    BY <1>1, <1>6, <2>2 DEF SameBytes, StillAsRead
  <2> QED  BY <1>2, <1>6, <2>1, <2>3 DEF Adopting
<1> QED  BY <1>1, <1>4, <1>5, <1>6, AdoptCheckDoes DEF Bytes

LEMMA AdoptLookBytes == ASSUME Inv, Bytes, AdoptLook  PROVE Bytes'
<1>1. TypeOK /\ SameBytes /\ Legible /\ Adopting
  BY DEF Inv, Bytes
<1>2. files' = files
  BY DEF AdoptLook
<1>3. Adopts /\ pass.adopting # None
  BY <1>1, AdoptLookDoes
<1>4. SameBytes' /\ Legible'
  BY <1>1, <1>2, <1>3 DEF SameBytes, Legible, Adopts
<1>5. CASE pass'.adopting = None
  BY <1>4, <1>5 DEF Bytes, Adopting
<1>6. CASE pass'.adopting # None
  <2>1. PICK c \in Candidate, i \in Ids : c = pass.adopting.cand /\ i = pass.adopting.id
    BY <1>1, <1>3, AdoptingIsTyped
  <2>2. /\ pass'.adopting.cand = c /\ pass'.adopting.id = i /\ StillAsRead(c)
        /\ pass'.adopting.looked /\ pass'.candidates = pass.candidates
        /\ pass'.adopting.ver # None => /\ files[c.path].id # NoId
                                        /\ pass'.adopting.ver = files[c.path].ver
    BY <1>1, <1>6, <2>1, AdoptLookDoes
  <2>3. /\ c \in pass.candidates /\ c.path \in Paths
        /\ \A q \in Paths : files[q] # None /\ files[q].ver = c.ver => files[q].id \in {NoId, i}
    BY <1>1, <1>3, <2>1 DEF Adopting, Candidate
  <2>4. files[c.path] # None /\ files[c.path].ver = c.ver /\ files[c.path].content = "good"
    BY <1>1, <2>2, <2>3 DEF StillAsRead, Legible
  <2>5. Adopting'
    BY <1>2, <2>2, <2>3, <2>4 DEF Adopting
  <2> QED  BY <1>4, <2>5 DEF Bytes
<1> QED  BY <1>5, <1>6

LEMMA AdoptWriteBytes == ASSUME Inv, Bytes, AdoptWrite  PROVE Bytes'
<1>1. TypeOK /\ SameBytes /\ Legible /\ Adopting
  BY DEF Inv, Bytes
<1>2. PICK c \in Candidate, i \in Ids : c = pass.adopting.cand /\ i = pass.adopting.id
  BY <1>1, AdoptingIsTyped, AdoptWriteDoes
<1>3. /\ pass.adopting # None /\ pass'.adopting # None /\ pass'.adopting.looked
      /\ pass'.candidates = pass.candidates
      /\ pass'.adopting.cand = c /\ pass'.adopting.id = i
      /\ pass'.adopting.ver \in Fresh /\ pass'.adopting.ver \in Versions
      /\ \A q \in Paths \ {c.path} : files'[q] = files[q]
      /\ files'[c.path] # None /\ files'[c.path].id = i
      /\ files'[c.path].ver = pass'.adopting.ver /\ files'[c.path].content = "good"
  BY <1>1, <1>2, AdoptWriteDoes
<1>4. PICK v \in Fresh : v = pass'.adopting.ver
  BY <1>3
<1>5. Novel(v) /\ Brought(v, i, "good")
  BY <1>1, <1>3, <1>4, FreshIsNovel DEF Brought, Copied
<1>6. /\ SameBytes' /\ Legible'
      /\ \A d \in pass.candidates, p \in Paths : files'[p] # None /\ files'[p].ver = d.ver
            => \E q \in Paths : files[q] # None /\ files[q].ver = d.ver /\ files[q].id = files'[p].id
  BY <1>1, <1>3, <1>5, BytesAreBrought
<1>7. /\ c \in pass.candidates
      /\ \A q \in Paths : files[q] # None /\ files[q].ver = c.ver => files[q].id \in {NoId, i}
  BY <1>1, <1>2, <1>3 DEF Adopting
<1>8. \A q \in Paths : files'[q] # None /\ files'[q].ver = c.ver => files'[q].id \in {NoId, i}
  BY <1>6, <1>7
<1>9. Adopting'
  BY <1>3, <1>7, <1>8 DEF Adopting
<1> QED  BY <1>6, <1>9 DEF Bytes

(* A change at the paths of P, of one file. *)
LEMMA TouchIsWatched ==
  ASSUME TypeOK, NEW P \in SUBSET Paths, Touch(P), \A p \in Paths \ P : files'[p] = files[p]
  PROVE  Watched
<1> SUFFICES ASSUME pass.adopting # None  PROVE meddled' \/ (~meddled /\ Alike(pass.adopting.cand.path))
  BY DEF Watched
<1>1. pass.adopting.cand.path \in Paths
  BY AdoptingIsTyped
<1>2. CASE pass.adopting.cand.path \in P
  BY <1>2 DEF Touch
<1>3. CASE pass.adopting.cand.path \notin P
  <2>1. Alike(pass.adopting.cand.path)
    BY <1>1, <1>3 DEF Alike
  <2>2. meddled \/ ~meddled
    OBVIOUS
  <2>3. meddled => meddled'
    BY DEF Touch
  <2> QED  BY <2>1, <2>2, <2>3
<1> QED  BY <1>2, <1>3

(* A file is taken away, copied or brought. *)
LEMMA OneFileBytes ==
  ASSUME TypeOK, Bytes, NEW P \in SUBSET Paths, Touch(P), \A p \in Paths \ P : files'[p] = files[p],
         NEW v, Novel(v), NEW x, NEW y,
         \A p \in P : files'[p] # None => Copied(p) \/ (/\ files'[p].ver = v /\ files'[p].id = x
                                                      /\ files'[p].content = y),
         pass' = pass
  PROVE  Bytes'
<1>1. Watched
  BY TouchIsWatched
<1>2. Brought(v, x, y)
  BY DEF Brought, Copied
<1> QED  BY <1>1, <1>2, OthersLeaveBytes

LEMMA NoFileBytes ==
  ASSUME TypeOK, Bytes, UNCHANGED <<files, meddled>>, pass' = pass
  PROVE  Bytes'
BY DEF Bytes, SameBytes, Legible, Adopting

LEMMA WriteFileBytes == ASSUME Inv, Bytes, NEW o \in Ops, WriteFile(o)  PROVE Bytes'
<1> DEFINE w == writing[o]
           f == files[w.from]
<1>1. TypeOK /\ files \in [Paths -> File \cup {None}]
  BY DEF Inv, TypeOK
<1>2. w # None /\ w.from \in Paths /\ w.to \in Paths /\ w.id \in Ids
  BY <1>1, WritingTyped DEF WriteFile
<1>3. /\ pass' = pass
      /\ \/ UNCHANGED <<files, touched, meddled>>
         \/ \E v \in Fresh :
              /\ files' = [files EXCEPT ![w.from] = [id |-> w.id, ver |-> v,
                                                    content |-> "good", settled |-> FALSE]]
              /\ Touch({w.from})
         \/ /\ f # None /\ files' = [files EXCEPT ![w.to] = f]
            /\ Touch({w.to})
  BY Zenon DEF WriteFile, Untouched, WriterOnly
<1>4. CASE UNCHANGED <<files, touched, meddled>>
  BY <1>1, <1>3, <1>4, NoFileBytes
<1>5. ASSUME NEW v \in Fresh, Touch({w.from}),
             files' = [files EXCEPT ![w.from] = [id |-> w.id, ver |-> v,
                                                content |-> "good", settled |-> FALSE]]
      PROVE  Bytes'
  <2>1. PICK g : g = [id |-> w.id, ver |-> v, content |-> "good", settled |-> FALSE]
    OBVIOUS
  <2>2. files' = [files EXCEPT ![w.from] = g] /\ g.id = w.id /\ g.ver = v /\ g.content = "good"
    BY <1>5, <2>1
  <2>3. PICK P, x : P = {w.from} /\ P \in SUBSET Paths /\ x = w.id
    BY <1>2
  <2>4. \A p \in Paths \ P : files'[p] = files[p]
    BY <1>1, <2>2, <2>3
  <2>5. \A p \in P : files'[p].ver = v /\ files'[p].id = x /\ files'[p].content = "good"
    BY <1>1, <1>2, <2>2, <2>3
  <2>6. Novel(v) /\ Touch(P)
    BY <1>1, <1>5, <2>3, FreshIsNovel
  <2>7. P \in SUBSET Paths /\ pass' = pass
    BY <1>3, <2>3
  <2> QED  BY <1>1, <2>4, <2>5, <2>6, <2>7, OneFileBytes
<1>6. CASE f # None /\ files' = [files EXCEPT ![w.to] = f] /\ Touch({w.to})
  <2>1. PICK P \in SUBSET Paths, p \in Paths : P = {p} /\ p = w.to
    BY <1>2
  <2>2. \A q \in Paths \ P : files'[q] = files[q]
    BY <1>1, <1>6, <2>1
  <2>3. Copied(p)
    BY <1>1, <1>2, <1>6, <2>1 DEF Copied
  <2>4. Novel(None) /\ Touch(P)
    BY <1>1, <1>6, <2>1, NoneIsNovel
  <2> QED  BY <1>1, <1>3, <2>1, <2>2, <2>3, <2>4, OneFileBytes
<1> QED  BY <1>3, <1>4, <1>5, <1>6

(* A file is taken away. *)
LEMMA TakenBytes ==
  ASSUME Inv, Bytes, NEW p \in Paths, files' = [files EXCEPT ![p] = None], Touch({p}), pass' = pass
  PROVE  Bytes'
<1>1. TypeOK /\ files \in [Paths -> File \cup {None}]
  BY DEF Inv, TypeOK
<1>2. PICK P \in SUBSET Paths : P = {p}
  OBVIOUS
<1>3. files'[p] = None /\ \A q \in Paths \ P : files'[q] = files[q]
  BY <1>1, <1>2
<1>4. Novel(None) /\ Touch(P)
  BY <1>1, <1>2, NoneIsNovel
<1> QED  BY <1>1, <1>2, <1>3, <1>4, OneFileBytes

LEMMA WritersLeaveBytes ==
  ASSUME Inv, Bytes, NEW o \in Ops, BeginWrite(o) \/ WriterStep(o)
  PROVE  Bytes'
<1>1. TypeOK
  BY DEF Inv
<1>2. CASE BeginWrite(o)
  <2>1. UNCHANGED <<files, meddled>> /\ pass' = pass
    BY <1>2 DEF BeginWrite, Untouched, WriterOnly
  <2> QED  BY <1>1, <2>1, NoFileBytes
<1>3. CASE WriteFile(o)
  BY <1>3, WriteFileBytes
<1>4. CASE Unlink(o)
  <2>1. PICK p \in Paths : p = writing[o].from
    BY <1>1, <1>4, WritingTyped DEF Unlink
  <2>2. files' = [files EXCEPT ![p] = None] /\ Touch({p}) /\ pass' = pass
    BY <1>4, <2>1 DEF Unlink, WriterOnly
  <2> QED  BY <2>2, TakenBytes
<1>5. CASE Commit(o)
  <2>1. UNCHANGED <<files, meddled>> /\ pass' = pass
    BY <1>5 DEF Commit, Untouched, WriterOnly
  <2> QED  BY <1>1, <2>1, NoFileBytes
<1>6. CASE WriteFails(o)
  <2>1. PICK p \in Paths : p = writing[o].to
    BY <1>1, <1>6, WritingTyped DEF WriteFails
  <2>2. /\ pass' = pass
        /\ \/ files' = [files EXCEPT ![p] = None] /\ Touch({p})
           \/ UNCHANGED <<files, meddled>>
    BY <1>6, <2>1 DEF WriteFails, Untouched, WriterOnly
  <2> QED  BY <1>1, <2>2, TakenBytes, NoFileBytes
<1> QED  BY <1>2, <1>3, <1>4, <1>5, <1>6 DEF WriterStep

LEMMA DevicesLeaveBytes == ASSUME Inv, Bytes, Device  PROVE Bytes'
<1>0. TypeOK /\ files \in [Paths -> File \cup {None}] /\ Novel(None)
  BY NoneIsNovel DEF Inv, TypeOK
<1>1. ASSUME NEW p \in Paths, DeviceWrites(p)  PROVE Bytes'
  <2>1. PICK id \in {NoId} \cup (IF files[p] = None THEN {} ELSE {files[p].id}), content \in Content,
              v \in Fresh :
           files' = [files EXCEPT ![p] = [id |-> id, ver |-> v, content |-> content, settled |-> FALSE]]
    BY <1>1 DEF DeviceWrites
  <2>2. PICK g : g = [id |-> id, ver |-> v, content |-> content, settled |-> FALSE]
    OBVIOUS
  <2>3. files' = [files EXCEPT ![p] = g] /\ g.id = id /\ g.ver = v /\ g.content = content
    BY <2>1, <2>2
  <2>4. PICK P \in SUBSET Paths : P = {p}
    OBVIOUS
  <2>5. files'[p] = g /\ \A q \in Paths \ P : files'[q] = files[q]
    BY <1>0, <2>3, <2>4
  <2>6. Touch(P) /\ pass' = pass /\ Novel(v)
    BY <1>0, <1>1, <2>4, FreshIsNovel DEF DeviceWrites, DeviceTouches
  <2> QED  BY <1>0, <2>3, <2>4, <2>5, <2>6, OneFileBytes
<1>2. ASSUME NEW p \in Paths, DeviceDeletes(p)  PROVE Bytes'
  <2>1. files' = [files EXCEPT ![p] = None] /\ Touch({p}) /\ pass' = pass
    BY <1>2 DEF DeviceDeletes, DeviceTouches
  <2> QED  BY <2>1, TakenBytes
<1>3. ASSUME NEW p \in Paths, NEW q \in Paths, DeviceMoves(p, q) \/ DeviceCopies(p, q)  PROVE Bytes'
  <2>1. /\ files[p] # None /\ files'[q] = files[p] /\ (files'[p] = None \/ files'[p] = files[p])
        /\ \A x \in Paths \ {p, q} : files'[x] = files[x]
    BY <1>0, <1>3 DEF DeviceMoves, DeviceCopies
  <2>2. PICK P \in SUBSET Paths : P = {p, q}
    OBVIOUS
  <2>3. Touch(P) /\ pass' = pass
    BY <1>3, <2>2 DEF DeviceMoves, DeviceCopies, DeviceTouches
  <2>4. \A x \in P : files'[x] # None => Copied(x)
    BY <2>1, <2>2 DEF Copied
  <2> QED  BY <1>0, <2>1, <2>2, <2>3, <2>4, OneFileBytes
<1> QED  BY <1>1, <1>2, <1>3 DEF Device

LEMMA SettleBytes == ASSUME Inv, Bytes, NEW p \in Paths, Settle(p)  PROVE Bytes'
<1>1. TypeOK /\ files \in [Paths -> File \cup {None}]
  BY DEF Inv, TypeOK
<1>2. PICK f \in File : f = files[p] /\ files[p] # None
  BY <1>1, SomeIsTyped DEF Settle
<1>3. PICK g \in File : /\ g = [f EXCEPT !.settled = TRUE]
                        /\ g.id = f.id /\ g.ver = f.ver /\ g.content = f.content
  <2>1. /\ [f EXCEPT !.settled = TRUE] \in File
        /\ [f EXCEPT !.settled = TRUE].id = f.id /\ [f EXCEPT !.settled = TRUE].ver = f.ver
        /\ [f EXCEPT !.settled = TRUE].content = f.content
    BY DEF File
  <2> QED  BY <2>1
<1>4. files' = [files EXCEPT ![p] = g] /\ UNCHANGED <<pass, meddled>>
  BY <1>1, <1>2, <1>3 DEF Settle
<1>5. \A q \in Paths : Alike(q) /\ (files[q] # None => Copied(q))
  BY <1>1, <1>2, <1>3, <1>4 DEF Alike, Copied
<1>6. Brought(None, None, None)
  BY <1>5 DEF Brought, Alike
<1>7. Watched
  BY <1>1, <1>4, <1>5, AdoptingIsTyped DEF Watched
<1> QED  BY <1>1, <1>4, <1>6, <1>7, NoneIsNovel, OthersLeaveBytes

LEMMA BytesInductive == Inv /\ Bytes /\ [Next]_vars => Bytes'
<1> SUFFICES ASSUME Inv, Bytes, [Next]_vars  PROVE Bytes'
  OBVIOUS
<1>0. TypeOK /\ Begun
  BY DEF Inv
<1>1. CASE UNCHANGED vars
  BY <1>0, <1>1, NoFileBytes DEF vars
<1>2. CASE PassStep
  <2>1. CASE Begin
    BY <1>0, <2>1, BeginDoes, NothingIsBrought DEF Begin, Blank
  <2>2. CASE ReadMirror
    BY <1>0, <2>2, ReadMirrorDoes, NothingIsBrought DEF ReadMirror, Begun
  <2>3. CASE \E p \in Paths : List(p)
    <3>1. PICK p \in Paths : List(p)
      BY <2>3
    <3>2. /\ files' = files /\ pass'.candidates = pass.candidates /\ pass'.adopting = pass.adopting
          /\ pass.phase = "walk"
      BY <1>0, <3>1, ListDoes DEF List, Scanning, AsBefore
    <3> QED  BY <1>0, <3>2, NothingIsBrought DEF Begun
  <2>4. CASE Stat
    <3>1. PICK p \in Paths : pass.at = p
      BY <2>4, AtSomewhere DEF Stat
    <3>2. StatGone(p) \/ StatTrusts(p) \/ StatPasses(p) \/ StatReads(p)
      BY <1>0, <2>4, <3>1, StatDoes
    <3>3. /\ files' = files /\ pass'.candidates = pass.candidates /\ pass'.adopting = pass.adopting
          /\ pass.phase = "stat"
      BY <2>4, <3>2 DEF Stat, Scanning, StatGone, StatTrusts, StatPasses, StatReads, StatEnds, Moved, AsBefore
    <3> QED  BY <1>0, <3>3, NothingIsBrought DEF Begun
  <2>5. CASE Read
    BY <2>5, ReadBytes
  <2>6. CASE WalkEnds
    <3>1. /\ files' = files /\ pass'.candidates = pass.candidates /\ pass'.adopting = pass.adopting
          /\ pass.phase = "walk"
      BY <1>0, <2>6, WalkEndsDoes DEF WalkEnds, AsBefore
    <3> QED  BY <1>0, <3>1, NothingIsBrought DEF Begun
  <2>7. CASE Adopt
    <3>1. CASE AdoptCommit
      BY <1>0, <3>1, AdoptCommitDoes, NothingIsBrought DEF AdoptCommit, Adopts
    <3> QED  BY <2>7, <3>1, AdoptCheckBytes, AdoptLookBytes, AdoptWriteBytes DEF Adopt
  <2>8. CASE AdoptFails
    BY <1>0, <2>8, AdoptFailsDoes, NothingIsBrought DEF AdoptFails, Adopts
  <2>9. CASE Fetch
    BY <1>0, <2>9, FetchDoes, NothingIsBrought DEF Fetch
  <2>10. CASE Apply
    BY <1>0, <2>10, RestIsBlank, NothingIsBrought DEF Apply, PassOver, Blank
  <2> QED  BY <1>2, <2>1, <2>2, <2>3, <2>4, <2>5, <2>6, <2>7, <2>8, <2>9, <2>10 DEF PassStep
<1>3. CASE PassFails \/ Crash
  BY <1>0, <1>3, RestIsBlank, NothingIsBrought DEF PassFails, Crash, PassOver, Blank
<1>4. CASE \E o \in Ops : BeginWrite(o) \/ WriterStep(o)
  BY <1>4, WritersLeaveBytes
<1>5. CASE Device \/ \E p \in Paths : Settle(p)
  BY <1>5, DevicesLeaveBytes, SettleBytes
<1> QED  BY <1>1, <1>2, <1>3, <1>4, <1>5 DEF Next

LEMMA BytesAreKept == Spec => []Bytes
BY InvInductive, InitEstablishes, InitBytes, BytesInductive, PTL DEF Spec

\* Adoption loses no bytes a device wrote and adds rows that are right, for any
\* number of notes, paths, devices and writers, unless somebody changed the
\* file after the last look at it: between the walk and that look, whatever is
\* written, moved or copied there is seen (adopt_note).
THEOREM AdoptionsLoseNothing == Spec => AdoptionLosesNothing
<1>1. ASSUME Inv, Bytes, ~meddled, AdoptWrite
      PROVE  LET c == pass.adopting.cand IN files[c.path] # None /\ files[c.path].ver = c.ver
  <2>1. Adopting /\ pass.adopting # None /\ pass.adopting.looked /\ pass.adopting.ver = None
    BY <1>1 DEF Bytes, AdoptWrite, AdoptionRuns
  <2> QED  BY <1>1, <2>1 DEF Adopting
<1>2. ASSUME Inv, Bytes, ~meddled, AdoptCommit, NEW i \in Ids, i = pass.adopting.id
      PROVE  Right(i)' /\ rows'[i].stat = rows'[i].hash
  <2>1. TypeOK /\ Adopting /\ pass.adopting # None /\ pass.adopting.ver # None
    BY <1>2 DEF Inv, Bytes, AdoptCommit
  <2>2. PICK p \in Paths, v \in Versions : p = pass.adopting.cand.path /\ v = pass.adopting.ver
    BY <2>1, AdoptingIsTyped
  <2>3. /\ files[p] # None /\ files[p].id = i /\ files[p].ver = v /\ files[p].content = "good"
    BY <1>2, <2>1, <2>2 DEF Adopting
  <2>4. files' = files /\ rows' = [rows EXCEPT ![i] = [path |-> p, hash |-> v, stat |-> v, state |-> "ok"]]
    BY <1>2, <2>2, <2>3 DEF AdoptCommit
  <2>5. PICK r : r = [path |-> p, hash |-> v, stat |-> v, state |-> "ok"]
    OBVIOUS
  <2>6. rows'[i] = r
    BY <2>1, <2>4, <2>5 DEF TypeOK
  <2>7. r.path = p /\ r.hash = v /\ r.stat = v /\ r.state = "ok"
    BY <2>5
  <2> QED  BY <2>3, <2>4, <2>6, <2>7 DEF Right, Names
<1>3. Inv /\ Bytes /\ [Next]_vars
      => [~meddled =>
            /\ AdoptWrite => LET c == pass.adopting.cand
                             IN  files[c.path] # None /\ files[c.path].ver = c.ver
            /\ \A i \in Ids : AdoptCommit /\ i = pass.adopting.id
                             => Right(i)' /\ rows'[i].stat = rows'[i].hash]_vars
  BY <1>1, <1>2
<1> QED  BY <1>3, PassesKeepFaith, BytesAreKept, PTL DEF AdoptionLosesNothing, Spec
=============================================================================
