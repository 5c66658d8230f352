------------------------------ MODULE Services ------------------------------
(***************************************************************************)
(* Seven services that share no state, one instance of each: the API's     *)
(* key cache, the field index, the control files, the configuration of     *)
(* enrichment, the catalog of people, their dossiers and the archive of    *)
(* artifacts.  What each promises its callers is stated here.              *)
(***************************************************************************)
EXTENDS Integers, Sequences, FiniteSets

CONSTANTS
    Callers, ApiRequests, MaxTime, Ttl, Patience,                      \* Access
    FieldNotes, LastNote, Limit, MaxWrites, MaxChanges, FieldRequests, MaxLists,   \* FieldIndex
    Clerks, ControlRequests, Attempts,                                  \* ControlFiles
    Conns, Keys, Tabs, TabRequests,                                     \* Connections
    LastPerson, LastAddress, Words, PeopleRequests, PeopleNotes,        \* Identities
    Artifact, Bytes, Filenames, CopyPaths, Edited, MaxRevisions,
    ArchiveRequests, ArchiveWrites, ArchiveFaults, MaxCommits,          \* Artifacts
    Editions, DossierEdits, DossierChanges, DossierMirrors,             \* Dossiers
    ServiceFaults, None

VARIABLES
    now, revoked, keyset, loading, verified, asked, aleave,
    ischema, mirror, present, txn, active, receipt, retry, refresh, listing, taken, ileave,
    control, flock, clerks, reveal, fleave,
    config, credentials, discovery, tests, baseline, schema, slock, tabs, answered, storn, sleave,
    people, suppressed, mentioned, held, used, said, purged, withdrawn, revived, wleave,
    page, dnote, catalog, job, person, torn, unheard, dleave,
    archive, copies, manifests, rows, snapshot, work, sweeper, rebuild, wrote, rleave

Api == INSTANCE Access
  WITH Requests <- Callers, MaxRequests <- ApiRequests, MaxFaults <- ServiceFaults, records <- keyset, leave <- aleave
Fields == INSTANCE FieldIndex
  WITH Notes <- FieldNotes, MaxRequests <- FieldRequests, MaxFaults <- ServiceFaults,
       schema <- ischema, request <- retry, job <- refresh, leave <- ileave
Control == INSTANCE ControlFiles
  WITH MaxRequests <- ControlRequests, MaxFaults <- ServiceFaults,
       files <- control, jobs <- clerks, leave <- fleave
Conn == INSTANCE Connections
  WITH MaxRequests <- TabRequests, MaxFaults <- ServiceFaults,
       lock <- slock, torn <- storn, leave <- sleave
PersonIds == 1 .. LastPerson
Addresses == 1 .. LastAddress
Who == INSTANCE Identities
  WITH Ids <- PersonIds, MaxRequests <- PeopleRequests, MaxNotes <- PeopleNotes, leave <- wleave
Doss == INSTANCE Dossiers
  WITH Versions <- Editions, MaxEdits <- DossierEdits, MaxChanges <- DossierChanges, MaxMirrors <- DossierMirrors,
       MaxFaults <- ServiceFaults, note <- dnote, owner <- person, leave <- dleave
Arts == INSTANCE Artifacts
  WITH Paths <- CopyPaths, MaxRequests <- ArchiveRequests, MaxWrites <- ArchiveWrites, MaxFaults <- ArchiveFaults,
       records <- manifests, leave <- rleave

-----------------------------------------------------------------------------
(* The constants: bounds are numbers, and None is nothing else *)

AccessConstants == /\ {MaxTime, Ttl, Patience} \subseteq Nat
                   /\ None \notin Nat \cup BOOLEAN

Stored      == {"absent", "word", "listed", "invalid"}
Definitions == [kind : Fields!Kinds, others : Nat]
Generation  == [keys : Definitions, stored : [FieldNotes -> Stored]]
Writing     == [n : FieldNotes, v : Fields!Values, into : BOOLEAN, stored : Stored \cup {None}]
Receipts    == [state : {"queued", "running", "succeeded", "failed"}, of : Definitions]
FieldConstants ==
    /\ LastNote \in Nat /\ FieldNotes \subseteq 1 .. LastNote
    /\ Limit \in Nat \ {0} /\ {MaxWrites, MaxChanges, FieldRequests, MaxLists, ServiceFaults} \subseteq Nat
    /\ None \notin Generation \cup Writing \cup Receipts

Entries == [id : Nat, live : BOOLEAN, default : BOOLEAN]
Changes == [ids : SUBSET Nat, put : SUBSET Entries]
ControlConstants ==
    /\ None \notin Clerks \cup Changes \cup {"schema", "keys"}
    /\ ControlRequests \in Nat /\ ServiceFaults \in Nat

Persons == [emails : SUBSET Addresses, to : PersonIds \cup {None}, retired : BOOLEAN, auto : BOOLEAN,
            words : [Words -> {"none", "confirmed", "withdrawn"}]]
Previews == [into : PersonIds \cup {None}, of : PersonIds, emails : SUBSET Addresses, words : SUBSET Words,
             current : BOOLEAN, saw : [PersonIds -> Persons \cup {None}]]
IdentityConstants ==
    /\ LastPerson \in Nat /\ LastAddress \in Nat
    /\ None \notin PersonIds \cup Persons \cup Previews

Copy == Bytes \cup {Edited, None}
Archived == [revs : Seq(Bytes) \ {<<>>}, name : Filenames, path : CopyPaths, removed : BOOLEAN, stray : BOOLEAN, at : Nat]
ArchiveConstants ==
    /\ {ArchiveRequests, ArchiveWrites, ArchiveFaults} \subseteq Nat
    /\ None \notin Bytes \cup {Edited} \cup Archived /\ Edited \notin Bytes

Texts  == ({"mention", "evidence"} \X Editions) \cup ({"word", "asked"} \X Nat)
Lines  == [id : SUBSET Texts, text : SUBSET Texts]
Blocks == [lines : SUBSET Lines, rest : SUBSET Texts, retired : BOOLEAN]
DossierConstants ==
    /\ Editions # {} /\ {DossierEdits, DossierChanges, DossierMirrors, ServiceFaults} \subseteq Nat
    /\ None \notin Blocks \cup Editions \cup {"evidence", "change"}

ASSUME ServicesAssumption ==
    /\ AccessConstants /\ FieldConstants /\ ControlConstants
    /\ IdentityConstants /\ DossierConstants /\ ArchiveConstants

-----------------------------------------------------------------------------
(* Nobody is let in with a key that was revoked more than the cache's time and the time of
   a read ago, nor with one the records in force refuse (auth.py, authenticate). *)
RevokedStaysOut == Api!RevokedStaysOut

(* What a reader of the index relies on: it says of every note what the committed row says,
   a filtered listing read to its end has every note that met the filter and none that did
   not, a request to rebuild is taken before it is acknowledged, and a receipt of success is
   of what is indexed (field_index.py, context_service.py, list_notes). *)
FieldIndexServes ==
    Fields!IndexFollows /\ Fields!ListsAreTrue /\ Fields!RequestsAreTaken /\ Fields!ReceiptIsTrue

(* No writer of a control file undoes another's change, the bootstrap mints once (control.py,
   keys.py); no model is at work that was not tested with the credential it has, and no
   request for the configuration undoes another's (context_service.py). *)
ChangesStand == Control!ChangesStand /\ Conn!TestedBeforeUse

(* An artifact is retired by the sweep only when its copy was taken away since the store last
   placed it, and what a person wrote at a copy's place is neither replaced nor removed
   (artifacts.py, _bring_browse_current, sweep and removal_commit). *)
ArtifactsStand == Arts!ArtifactsStand

(* The owner's corrections of a dossier stand and nobody else makes any, through refreshes,
   changes of the note and crashes (entities.py, observe and project); an address is one
   person's and redirects end at a person, no merge or split silences a fact, and neither
   what was withdrawn nor who was purged comes back by itself (entities.py, change). *)
CorrectionsStand == []Doss!CorrectionsStand /\ Who!PeopleStand
=============================================================================
