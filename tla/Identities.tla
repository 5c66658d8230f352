----------------------------- MODULE Identities -----------------------------
(***************************************************************************)
(* Who is who in the dossiers (entities.py): dossiers are made for the     *)
(* addresses notes mention or on request, merged and split after a preview,*)
(* given other addresses, retired, restored and purged.  Every operation   *)
(* holds the lock and the gate and saves the catalog, one file, at its     *)
(* end.  What a dossier's page says, and does, is in Dossiers.             *)
(***************************************************************************)
EXTENDS Naturals, FiniteSets

CONSTANTS Ids, Addresses, Words,   \* numbers; Words are facts the owner adds
          MaxRequests, MaxNotes, None

VARIABLES people,      \* catalog.json
          suppressed,  \* the addresses it is never to make a dossier of by itself
          mentioned,   \* the addresses the reviewed notes name
          held,        \* a preview somebody holds, and whether the revision it names is the catalog's
          used, said,  \* history: identities given, words added
          purged, withdrawn,   \* history: addresses forgotten, words taken back
          revived,     \* history: redirects that a purge has made dossiers again, and whom they
                       \* were merged into or split into since
          leave

vars == <<people, suppressed, mentioned, held, used, said, purged, withdrawn, revived, leave>>
history == <<purged, withdrawn, revived>>

Silent == [w \in Words |-> "none"]
Person(emails, auto) == [emails |-> emails, to |-> None, retired |-> FALSE, auto |-> auto, words |-> Silent]

Start(at) ==
  /\ people = [i \in Ids |-> None] /\ suppressed = {} /\ mentioned = {} /\ held = None
  /\ used = {} /\ said = {} /\ purged = {} /\ withdrawn = {} /\ revived = {}
  /\ leave = IF at = "off" THEN [requests |-> 0, notes |-> 0]
              ELSE [requests |-> MaxRequests, notes |-> MaxNotes]
Init == Start("idle")

May(what) == leave[what] > 0 /\ leave' = [leave EXCEPT ![what] = @ - 1]
Known == {i \in Ids : people[i] # None}
Owners == {i \in Known : people[i].to = None}
Active == {i \in Owners : ~people[i].retired}
Fresh(k) == CHOOSE i \in Ids \ used : Cardinality({j \in Ids \ used : j < i}) = k
Taken == UNION {people[i].emails : i \in Owners}

Save(all) == people' = all
Outdates == held' = IF held = None THEN None ELSE [held EXCEPT !.current = FALSE]

-----------------------------------------------------------------------------
(* contribute: a mentioned address that belongs to nobody gets a dossier of its own *)
Strangers == mentioned \ (Taken \cup suppressed)
NewFor(a) == Fresh(Cardinality({b \in Strangers : b < a}))
Refreshed == Strangers = {}
Refresh ==
  /\ ~Refreshed /\ Cardinality(Strangers) <= Cardinality(Ids \ used)
  /\ LET made == {NewFor(a) : a \in Strangers}
     IN /\ used' = used \cup made
        /\ Save([i \in Ids |-> IF i \in made THEN Person({CHOOSE a \in Strangers : NewFor(a) = i}, TRUE)
                               ELSE people[i]])
  /\ Outdates /\ UNCHANGED <<suppressed, mentioned, said, history, leave>>

-----------------------------------------------------------------------------
(* Requests.  All but the first begin with a refresh. *)

Request == May("requests")
Change(i) == Request /\ Refreshed /\ i \in Active

Create(emails) ==
  /\ Request /\ Ids \ used # {} /\ emails \cap Taken = {}
  /\ Save([people EXCEPT ![Fresh(0)] = Person(emails, FALSE)]) /\ used' = used \cup {Fresh(0)}
  /\ Outdates /\ UNCHANGED <<suppressed, mentioned, said, history>>

OfOthers(i) == UNION {people[j].emails : j \in Owners \ {i}}
OfActive(i) == UNION {people[j].emails : j \in Active \ {i}}
Elsewhere(i) == OfOthers(i)
Aliases(i, emails) ==
  /\ Change(i) /\ emails \cap Elsewhere(i) = {}
  /\ Save([people EXCEPT ![i].emails = emails])
  /\ Outdates /\ UNCHANGED <<suppressed, mentioned, used, said, history>>

Correct(i, w) ==
  /\ Change(i) /\ w \notin said /\ said' = said \cup {w}
  /\ Save([people EXCEPT ![i].words[w] = "confirmed"])
  /\ Outdates /\ UNCHANGED <<suppressed, mentioned, used, history>>
Withdraw(i, w) ==
  /\ Change(i) /\ people[i].words[w] = "confirmed"
  /\ Save([people EXCEPT ![i].words[w] = "withdrawn"])
  /\ withdrawn' = IF i \in revived THEN withdrawn ELSE withdrawn \cup {w}
  /\ Outdates /\ UNCHANGED <<suppressed, mentioned, used, said, purged, revived>>

Retire(i) == /\ Change(i) /\ Save([people EXCEPT ![i].retired = TRUE])
             /\ Outdates /\ UNCHANGED <<suppressed, mentioned, used, said, history>>
Restore(i) == /\ Request /\ Refreshed /\ i \in Owners \ Active
              /\ Save([people EXCEPT ![i].retired = FALSE])
              /\ Outdates /\ UNCHANGED <<suppressed, mentioned, used, said, history>>

(* The token of a preview names the revision of the catalog, which every save raises *)
Preview(i) ==
  /\ Change(i)
  /\ \/ \E j \in Active \ {i} : held' = [into |-> j, of |-> i, emails |-> {}, words |-> {},
                                         current |-> TRUE, saw |-> people]
     \/ \E emails \in SUBSET people[i].emails, words \in SUBSET {w \in Words : people[i].words[w] # "none"} :
          words # {} /\ held' = [into |-> None, of |-> i, emails |-> emails, words |-> words,
                                 current |-> TRUE, saw |-> people]
  /\ UNCHANGED <<people, suppressed, mentioned, used, said, history>>

Whatever == {held.of, held.into} \ {None} \subseteq Active
Unchanged == held.current
Valid == Unchanged

Inherits(i, j) == revived' = IF i \in revived THEN revived \cup {j} ELSE revived

(* A live fact replaces the copy that a split has left withdrawn *)
Join(mine, others) ==
  [w \in Words |-> IF mine[w] = "none" \/ (mine[w] = "withdrawn" /\ others[w] = "confirmed")
                   THEN others[w] ELSE mine[w]]
JoinNew(mine, others) == [w \in Words |-> IF mine[w] = "none" THEN others[w] ELSE mine[w]]
Joined(mine, others) == Join(mine, others)
Merge ==
  /\ held # None /\ held.into # None /\ Change(held.of) /\ Valid
  /\ LET i == held.of   j == held.into
     IN Save([people EXCEPT ![j].words = Joined(@, people[i].words), ![j].emails = @ \cup people[i].emails,
                            ![i].to = j]) /\ Inherits(i, j)
  /\ held' = None /\ UNCHANGED <<suppressed, mentioned, used, said, purged, withdrawn>>

Split ==
  /\ held # None /\ held.into = None /\ Change(held.of) /\ Valid /\ Ids \ used # {}
  /\ LET i == held.of
         part == [Person(held.emails, FALSE) EXCEPT
                    !.words = [w \in Words |-> IF w \in held.words THEN people[i].words[w] ELSE "none"]]
     IN Save([people EXCEPT ![Fresh(0)] = part, ![i].emails = @ \ held.emails,
               ![i].words = [w \in Words |-> IF w \in held.words THEN "withdrawn" ELSE @[w]]])
        /\ Inherits(i, Fresh(0))
  /\ used' = used \cup {Fresh(0)}
  /\ held' = None /\ UNCHANGED <<suppressed, mentioned, said, purged, withdrawn>>

-----------------------------------------------------------------------------
(* purge, inside the exclusive gate: who has been retired long enough, and who is known from
   the purged notes only *)
Orphans == {i \in Owners : people[i].auto /\ people[i].words = Silent}
Released(gone) == {i \in Known \ gone : people[i].to \in gone}
NoneReleased(gone) == {}
Left(gone) == Released(gone)
Purge ==
  /\ Request
  /\ \E gone \in SUBSET ((Owners \ Active) \cup Orphans) \ {{}} :
       LET forgotten == UNION {people[i].emails : i \in gone}
       IN /\ Save([i \in Ids |-> IF i \in gone THEN None
                                 ELSE IF i \in Left(gone) THEN [people[i] EXCEPT !.to = None, !.retired = TRUE]
                                 ELSE people[i]])
          /\ suppressed' = suppressed \cup forgotten /\ purged' = purged \cup forgotten
          /\ revived' = revived \cup Released(gone)
          /\ mentioned' = IF gone \cap Active = {} THEN mentioned ELSE {}
  /\ Outdates /\ UNCHANGED <<used, said, withdrawn>>

(* Notes are reviewed, edited and deleted *)
NotesChange ==
  /\ May("notes") /\ mentioned' \in SUBSET Addresses \ {mentioned}
  /\ UNCHANGED <<people, suppressed, held, used, said, history>>

Next == \/ Refresh \/ Merge \/ Split \/ Purge \/ NotesChange
        \/ \E emails \in SUBSET Addresses : Create(emails) \/ \E i \in Ids : Aliases(i, emails)
        \/ \E i \in Ids : Retire(i) \/ Restore(i) \/ Preview(i)
        \/ \E i \in Ids, w \in Words : Correct(i, w) \/ Withdraw(i, w)
Spec == Init /\ [][Next]_vars

-----------------------------------------------------------------------------
TypeOK == /\ Known \subseteq used /\ revived \subseteq used /\ suppressed \subseteq Addresses
          /\ \A i \in Known : people[i].emails \subseteq Addresses /\ people[i].to \in Ids \cup {None}

(* An address belongs to one dossier, unless one of two is a redirect that a purge has made a
   dossier again with the addresses it had *)
OneEach == \A i, j \in Owners \ revived : i # j => people[i].emails \cap people[j].emails = {}
(* A redirect leads to a dossier, over as many others as it may *)
Follow(i) == LET at[n \in 0..Cardinality(Ids)] ==
                   IF n = 0 THEN i ELSE IF at[n - 1] \in Known \ Owners THEN people[at[n - 1]].to ELSE at[n - 1]
             IN at[Cardinality(Ids)]
Leads == \A i \in Known : Follow(i) \in Owners
(* What the owner has taken back is not said again by anybody but such a redirect *)
Says(w) == {i \in Active : people[i].words[w] = "confirmed"}
TakenBack == \A w \in withdrawn : Says(w) \subseteq revived

(* Neither a merge nor a split, nor what is done about others, silences a fact *)
Spoken == {w \in Words : Says(w) # {}}
Heard == \/ Spoken \subseteq Spoken'
         \/ \E i \in Ids : Retire(i) \/ \E w \in Words : Withdraw(i, w)
         \/ Purge
(* Only what was previewed is done *)
AsSeen == held # None /\ held' = None => held.saw = people
(* Whoever was purged is not found again in the notes *)
Forgets == Refresh => \A i \in Known' \ Known : people'[i].emails \cap purged = {}

PeopleStand == [](OneEach /\ Leads /\ TakenBack) /\ [][Heard /\ AsSeen /\ Forgets]_vars
=============================================================================
