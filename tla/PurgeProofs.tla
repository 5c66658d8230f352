---------------------------- MODULE PurgeProofs ----------------------------
(***************************************************************************)
(* A source with a row has its manifest and its data, for any notes,       *)
(* sources, previews, devices and faults.  The claim speaks of rows and    *)
(* files only; that it holds rests on what the purge under way remembers:  *)
(* whatever it may still unlink belongs to sources whose rows are gone.    *)
(* For that, a list must name under each identity only its own files,      *)
(* through every preview, every resumption and every leftover of an        *)
(* abandoned purge.                                                        *)
(*                                                                         *)
(* Three parts: what the purge unlinks is its own (Inv), what it unlinked  *)
(* was asked for by a confirmed list and cited by nobody (Orders), and     *)
(* what it left behind stays within reach (Reach).                         *)
(***************************************************************************)
EXTENDS Purge, TLAPS

RecordFields == {"state", "items", "completed", "remaining"}
OpFields == {"pc", "token", "resuming", "committed", "left", "files", "checked"}

Shape ==
    /\ DOMAIN records = Tokens
    /\ \A t \in Tokens : DOMAIN records[t] = RecordFields
    /\ DOMAIN op = OpFields
    /\ op.pc # "idle" => op.token \in Tokens

\* An item lists files of its own identity.
Own(i) ==
    /\ DOMAIN i = {"id", "row", "files"}
    /\ \A f \in i.files : f[2] = i.id

ListsAreOwn == \A t \in Tokens : \A i \in records[t].items : Own(i)

\* What the purge may still unlink belongs to nothing that has a row.
OnlyRowless ==
    op.pc = "unlink" =>
        /\ \A i \in op.left : Own(i) /\ i.id \notin sources
        /\ \A f \in op.files : f[2] \notin sources
        /\ op.checked # NoFile => op.checked[2] \notin sources

\* The transaction begins with nothing in hand.
EmptyHanded == op.pc \in {"recheck", "commit"} => op.files = {} /\ op.checked = NoFile

Inv == Shape /\ ListsAreOwn /\ EmptyHanded /\ OnlyRowless /\ RowMeansBundle

-----------------------------------------------------------------------------
\* candidates() lists under each identity only its own files, the leftovers of
\* an abandoned purge (_residual) included.
LEMMA CandidatesAreOwn ==
    ASSUME Shape, ListsAreOwn
    PROVE  \A i \in Candidates : Own(i)
<1>1. \A i \in NoteItems \cup SourceItems : Own(i)
  BY DEF NoteItems, SourceItems, Own, Of
<1>2. \A j : Own(j) => Own(Left(j))
  BY DEF Own, Left
<1>3. \A i \in Leftovers : Own(i)
  BY <1>2 DEF Leftovers, ListsAreOwn
<1>4. Residuals \subseteq Leftovers
  BY DEF Residuals
<1> QED
  BY <1>1, <1>3, <1>4 DEF Candidates

\* Whatever leaves the rows alone and removes no manifest and no data keeps
\* every bundle whole.
LEMMA BundlesKept ==
    ASSUME RowMeansBundle, sources' \subseteq sources,
           \A f \in files : f[1] \in {"manifest", "data"} => f \in files'
    PROVE  RowMeansBundle'
BY DEF RowMeansBundle, Intact, Has

\* A step that leaves the purge alone disturbs at most the bundles.
LEMMA PurgeUntouched ==
    ASSUME Inv, UNCHANGED <<records, op>>, sources' \subseteq sources,
           \A f \in files : f[1] \in {"manifest", "data"} => f \in files'
    PROVE  Inv'
<1>1. RowMeansBundle'
  BY BundlesKept DEF Inv
<1> QED
  BY <1>1 DEF Inv, Shape, ListsAreOwn, EmptyHanded, OnlyRowless, Own

\* Before the first purge every source is complete and nothing is listed.
LEMMA InitEstablishes == Init => Inv
<1> SUFFICES ASSUME Init PROVE Inv
  OBVIOUS
<1>1. Shape
  BY DEF Init, Shape, NoRecord, Idle, RecordFields, OpFields
<1>2. ListsAreOwn
  BY DEF Init, ListsAreOwn, NoRecord
<1>3. OnlyRowless /\ EmptyHanded
  BY DEF Init, OnlyRowless, EmptyHanded, Idle
<1>4. \A s \in Sources : <<"manifest", s, 1>> \in files /\ <<"data", s, 1>> \in files
  BY DEF Init
<1>5. RowMeansBundle
  BY <1>4 DEF Init, RowMeansBundle, Intact, Has
<1> QED
  BY <1>1, <1>2, <1>3, <1>5 DEF Inv

\* Preview, confirm and abandon.
LEMMA AskingKeeps ==
    ASSUME Inv, NEW t \in Tokens, Preview(t) \/ Confirm(t) \/ Abandon(t)
    PROVE  Inv'
<1>1. RowMeansBundle'
  <2>1. UNCHANGED <<sources, files>>
    BY DEF Preview, Confirm, Abandon, world
  <2> QED
    BY <2>1, BundlesKept DEF Inv
<1>2. CASE Preview(t)
  <2>1. records' = [records EXCEPT ![t] = [NoRecord EXCEPT !.state = "preview", !.items = Candidates]]
    BY <1>2 DEF Preview
  <2>2. op' = [Idle EXCEPT !.pc = "tidy", !.token = t]
    BY <1>2 DEF Preview
  <2>3. Shape'
    BY <2>1, <2>2 DEF Inv, Shape, NoRecord, Idle, RecordFields, OpFields
  <2>4. ListsAreOwn'
    <3>1. \A i \in Candidates : Own(i)
      BY CandidatesAreOwn DEF Inv
    <3>2. \A u \in Tokens : records'[u].items = IF u = t THEN Candidates ELSE records[u].items
      BY <2>1 DEF Inv, Shape, NoRecord
    <3> QED
      BY <3>1, <3>2 DEF Inv, ListsAreOwn, Own
  <2>5. OnlyRowless' /\ EmptyHanded'
    BY <2>2 DEF OnlyRowless, EmptyHanded, Idle
  <2> QED
    BY <1>1, <2>3, <2>4, <2>5 DEF Inv
<1>3. CASE Confirm(t)
  <2>1. records' = [records EXCEPT ![t].state = "applying"]
    BY <1>3 DEF Confirm, Save
  <2>2. op' = [Idle EXCEPT !.pc = "recheck", !.token = t, !.resuming = (t \in Unfinished)]
    BY <1>3 DEF Confirm
  <2>3. Shape'
    BY <2>1, <2>2 DEF Inv, Shape, Idle, RecordFields, OpFields
  <2>4. \A u \in Tokens : records'[u].items = records[u].items
    BY <2>1 DEF Inv, Shape, RecordFields
  <2>5. OnlyRowless' /\ EmptyHanded'
    BY <2>2 DEF OnlyRowless, EmptyHanded, Idle
  <2> QED
    BY <1>1, <2>3, <2>4, <2>5 DEF Inv, ListsAreOwn, Own
<1>4. CASE Abandon(t)
  <2>1. PICK held : records' = [records EXCEPT ![t].state = "abandoned",
                                  ![t].remaining = held, ![t].completed = Listed(t) \ held]
    BY <1>4 DEF Abandon
  <2>2. UNCHANGED <<op, sources>>
    BY <1>4 DEF Abandon, world
  <2>3. Shape'
    BY <2>1, <2>2 DEF Inv, Shape, RecordFields
  <2>4. \A u \in Tokens : records'[u].items = records[u].items
    BY <2>1 DEF Inv, Shape, RecordFields
  <2>5. OnlyRowless' /\ EmptyHanded'
    BY <2>2 DEF Inv, OnlyRowless, EmptyHanded, Own
  <2> QED
    BY <1>1, <2>3, <2>4, <2>5 DEF Inv, ListsAreOwn, Own
<1> QED
  BY <1>2, <1>3, <1>4

\* Between asking and the transaction, and after the last file.
LEMMA FramingKeeps ==
    ASSUME Inv,
           Tidy \/ Recheck \/ Complete \/ CompleteFails \/ SaveFailure \/ Crash
    PROVE  Inv'
<1>1. RowMeansBundle'
  <2>1. UNCHANGED <<sources, files>>
    BY DEF Tidy, Recheck, Complete, CompleteFails, SaveFailure, Crash, world
  <2> QED
    BY <2>1, BundlesKept DEF Inv
<1>2. op' = Idle \/ op' = [op EXCEPT !.pc = "commit"] \/ op' = [op EXCEPT !.pc = "fail"]
  BY DEF Tidy, Recheck, Complete, CompleteFails, SaveFailure, Crash, Fails
<1>3. DOMAIN op' = OpFields /\ op'.pc # "unlink"
  BY <1>2 DEF Inv, Shape, Idle, OpFields
<1>4. op'.pc # "idle" => op'.token \in Tokens
  <2>1. CASE op' = Idle
    BY <2>1 DEF Idle
  <2>2. CASE op' # Idle
    <3>1. op.pc # "idle"
      BY <2>2 DEF Tidy, Recheck, Complete, CompleteFails, SaveFailure, Crash, Fails
    <3> QED
      BY <1>2, <2>2, <3>1 DEF Inv, Shape, OpFields
  <2> QED
    BY <2>1, <2>2
<1>5. /\ DOMAIN records' = Tokens
      /\ \A t \in Tokens : DOMAIN records'[t] = RecordFields /\ records'[t].items \subseteq records[t].items
  <2>1. CASE Tidy
    BY <2>1 DEF Tidy, Inv, Shape, NoRecord, RecordFields
  <2>2. CASE Complete
    BY <2>2 DEF Complete, Inv, Shape, RecordFields
  <2>3. CASE SaveFailure
    BY <2>3 DEF SaveFailure, Save, Inv, Shape, RecordFields
  <2>4. CASE UNCHANGED records
    BY <2>4 DEF Inv, Shape
  <2> QED
    BY <2>1, <2>2, <2>3, <2>4 DEF Recheck, CompleteFails, Crash
<1>6. EmptyHanded'
  <2>1. CASE Recheck
    BY <2>1 DEF Recheck, Fails, EmptyHanded, Inv, Shape, OpFields
  <2>2. CASE op' = Idle \/ op' = [op EXCEPT !.pc = "fail"]
    BY <2>2 DEF EmptyHanded, Inv, Shape, Idle, OpFields
  <2> QED
    BY <2>1, <2>2 DEF Tidy, Complete, CompleteFails, SaveFailure, Crash, Fails
<1> QED
  BY <1>1, <1>3, <1>4, <1>5, <1>6 DEF Inv, Shape, ListsAreOwn, OnlyRowless, Own

\* The transaction: the rows of everything listed go together.
LEMMA CommittingKeeps ==
    ASSUME Inv, Commit \/ CommitFails
    PROVE  Inv'
<1>1. UNCHANGED <<records, files>> /\ sources' \subseteq sources
  BY DEF Commit, CommitFails, RowsDeleted, world
<1>2. RowMeansBundle'
  BY <1>1, BundlesKept DEF Inv
<1>3. CASE Commit
  <2>1. op' = [op EXCEPT !.pc = "unlink", !.committed = TRUE, !.left = records[op.token].items]
    BY <1>3 DEF Commit
  <2>2. op.pc = "commit" /\ op.token \in Tokens
    BY <1>3 DEF Commit, Inv, Shape
  <2>3. Shape'
    BY <1>1, <2>1, <2>2 DEF Inv, Shape, OpFields
  <2>4. \A i \in records[op.token].items : Own(i) /\ i.id \notin sources'
    BY <1>3, <2>2 DEF Commit, RowsDeleted, Listed, Inv, ListsAreOwn
  <2>5. OnlyRowless' /\ EmptyHanded'
    BY <2>1, <2>2, <2>4 DEF Inv, Shape, OpFields, OnlyRowless, EmptyHanded, Own
  <2> QED
    BY <1>1, <1>2, <2>3, <2>5 DEF Inv, ListsAreOwn, Own
<1>4. CASE CommitFails
  <2>1. op.pc = "commit" /\ op' = [op EXCEPT !.pc = "fail"]
    BY <1>4 DEF CommitFails, Fails
  <2> QED
    BY <1>1, <1>2, <2>1 DEF Inv, Shape, OpFields, ListsAreOwn, EmptyHanded, OnlyRowless, Own
<1> QED
  BY <1>3, <1>4

\* Unlinking: what goes is what is checked, and what is checked has no row.
LEMMA UnlinkingKeeps ==
    ASSUME Inv, NextItem \/ CheckFile \/ UnlinkFile \/ UnlinkFails
    PROVE  Inv'
<1>1. UNCHANGED <<records, sources>> /\ op.pc = "unlink" /\ op.token \in Tokens
  BY DEF NextItem, CheckFile, UnlinkFile, UnlinkFails, world, Inv, Shape
<1>2. ListsAreOwn'
  BY <1>1 DEF Inv, ListsAreOwn, Own
<1>3. CASE NextItem
  <2>1. PICK i \in op.left : op' = [op EXCEPT !.left = @ \ {i}, !.files = i.files]
    BY <1>3 DEF NextItem
  <2>2. Own(i) /\ i.id \notin sources
    BY <1>1 DEF Inv, OnlyRowless
  <2>3. Shape' /\ EmptyHanded'
    BY <1>1, <2>1 DEF Inv, Shape, OpFields, EmptyHanded
  <2>4. OnlyRowless'
    BY <1>1, <2>1, <2>2 DEF Inv, Shape, OpFields, OnlyRowless, Own
  <2>5. RowMeansBundle'
    BY <1>1, <1>3, BundlesKept DEF NextItem, world, Inv
  <2> QED
    BY <1>2, <2>3, <2>4, <2>5 DEF Inv
<1>4. CASE CheckFile
  <2>1. \/ \E f \in op.files : op' = [op EXCEPT !.checked = f]
        \/ op' = [op EXCEPT !.pc = "fail"]
        \/ \E f \in op.files : op' = [op EXCEPT !.files = @ \ {f}]
    BY <1>4 DEF CheckFile, Fails
  <2>2. Shape' /\ EmptyHanded'
    BY <1>1, <2>1 DEF Inv, Shape, OpFields, EmptyHanded
  <2>3. OnlyRowless'
    BY <1>1, <2>1 DEF Inv, Shape, OpFields, OnlyRowless, Own
  <2>4. RowMeansBundle'
    BY <1>1, <1>4, BundlesKept DEF CheckFile, world, Inv
  <2> QED
    BY <1>2, <2>2, <2>3, <2>4 DEF Inv
<1>5. CASE UnlinkFile
  <2>1. op' = [op EXCEPT !.files = @ \ {op.checked}, !.checked = NoFile]
    BY <1>5 DEF UnlinkFile
  <2>2. Shape' /\ EmptyHanded'
    BY <1>1, <2>1 DEF Inv, Shape, OpFields, EmptyHanded
  <2>3. OnlyRowless'
    BY <1>1, <2>1 DEF Inv, Shape, OpFields, OnlyRowless, Own
  <2>4. op.checked[2] \notin sources /\ files' = files \ {g \in files : SamePath(op.checked, g)}
    BY <1>1, <1>5 DEF UnlinkFile, Inv, OnlyRowless
  <2>5. \A g \in files : g[2] \in sources => g \in files'
    BY <2>4 DEF SamePath
  <2>6. RowMeansBundle'
    BY <1>1, <2>5 DEF Inv, RowMeansBundle, Intact, Has
  <2> QED
    BY <1>2, <2>2, <2>3, <2>6 DEF Inv
<1>6. CASE UnlinkFails
  <2>1. op' = [op EXCEPT !.pc = "fail"] /\ UNCHANGED files
    BY <1>6 DEF UnlinkFails, Fails, world
  <2>2. RowMeansBundle'
    BY <1>1, <2>1, BundlesKept DEF Inv
  <2> QED
    BY <1>1, <1>2, <2>1, <2>2 DEF Inv, Shape, OpFields, EmptyHanded, OnlyRowless
<1> QED
  BY <1>3, <1>4, <1>5, <1>6

\* Recovery gives a row only to a source whose manifest and data it has read.
LEMMA RecoveryKeeps ==
    ASSUME Inv, RecoverSources
    PROVE  Inv'
<1>1. UNCHANGED <<records, op, files>> /\ op = Idle /\ sources' = sources \cup Recoverable
  BY DEF RecoverSources, rest
<1>2. \A s \in Recoverable : Intact(s)
  BY DEF RecoverSources, Recoverable, Intact
<1>3. RowMeansBundle'
  BY <1>1, <1>2 DEF Inv, RowMeansBundle, Intact, Has
<1> QED
  BY <1>1, <1>3 DEF Inv, Shape, ListsAreOwn, EmptyHanded, OnlyRowless, Own, Idle

\* The reconciler and the devices touch no manifest and no data.
LEMMA OthersSpareBundles ==
    ASSUME \/ \E n \in Notes : \/ Returns(n) \/ Misses(n) \/ RecoverRow(n) \/ Adopt(n) \/ Ages(n)
                               \/ DeviceReturns(n) \/ DeviceDeletes(n)
           \/ \E s \in Sources : DeviceEditsPage(s)
    PROVE  \A f \in files : f[1] \in {"manifest", "data"} => f \in files'
<1> SUFFICES ASSUME NEW f \in files, f[1] \in {"manifest", "data"}
             PROVE  f \in files'
  OBVIOUS
<1>1. CASE \E n \in Notes : Returns(n)
  BY <1>1 DEF Returns, Observed
<1>2. CASE \E n \in Notes : Misses(n)
  BY <1>2 DEF Misses
<1>3. CASE UNCHANGED files
  BY <1>3
<1>4. CASE \E s \in Sources : DeviceEditsPage(s)
  BY <1>4 DEF DeviceEditsPage
<1> QED
  BY <1>1, <1>2, <1>3, <1>4 DEF RecoverRow, Adopt, Ages, DeviceReturns, DeviceDeletes

\* So they leave every bundle whole, and the purge under way alone.
LEMMA OthersKeep ==
    ASSUME Inv,
           \/ \E n \in Notes : \/ Returns(n) \/ Misses(n) \/ RecoverRow(n) \/ Adopt(n) \/ Ages(n)
                               \/ DeviceReturns(n) \/ DeviceDeletes(n)
           \/ \E s \in Sources : DeviceEditsPage(s)
    PROVE  Inv'
<1>1. UNCHANGED <<records, op, sources>>
  BY DEF Returns, Misses, RecoverRow, Adopt, Ages, DeviceReturns, DeviceDeletes, DeviceEditsPage, rest
<1>2. \A f \in files : f[1] \in {"manifest", "data"} => f \in files'
  BY OthersSpareBundles
<1> QED
  BY <1>1, <1>2, PurgeUntouched

LEMMA PurgesInductive == Inv /\ [Next]_vars => Inv'
<1> SUFFICES ASSUME Inv, [Next]_vars PROVE Inv'
  OBVIOUS
<1>1. CASE UNCHANGED vars
  BY <1>1, PurgeUntouched DEF vars
<1>2. CASE \E t \in Tokens : Preview(t) \/ Confirm(t) \/ Abandon(t)
  BY <1>2, AskingKeeps
<1>3. CASE Purging
  BY <1>3, FramingKeeps, CommittingKeeps, UnlinkingKeeps DEF Purging
<1>4. CASE RecoverSources
  BY <1>4, RecoveryKeeps
<1>5. CASE \/ \E n \in Notes : \/ Returns(n) \/ Misses(n) \/ RecoverRow(n) \/ Adopt(n) \/ Ages(n)
                               \/ DeviceReturns(n) \/ DeviceDeletes(n)
           \/ \E s \in Sources : DeviceEditsPage(s)
  BY <1>5, OthersKeep
<1> QED
  BY <1>1, <1>2, <1>3, <1>4, <1>5 DEF Next

\* Every source with a row in the mirror has its manifest and its data on disk,
\* at every step of every purge, resumption, abandonment, crash and recovery
\* (confirm's "the mirror and the disk telling the same story", purge.py:930).
THEOREM MirrorAndDiskAgree == Spec => []RowMeansBundle
<1>1. Inv => RowMeansBundle
  BY DEF Inv
<1> QED
  BY <1>1, InitEstablishes, PurgesInductive, PTL DEF Spec

-----------------------------------------------------------------------------
(* Whose files go, and by whose word.  The record of the purge under way   *)
(* says "applying" from before its first unlink on, and only a purge that  *)
(* has committed nothing goes back to being a preview; what is in hand is  *)
(* in its list; and a note that comes back while it works is too late.     *)

\* Files are named by kind, identity and version; pages are sources' own.
Filed ==
    /\ clock \in Nat /\ vault \subseteq Notes
    /\ \A f \in files : /\ f = <<f[1], f[2], f[3]>>
                        /\ f[1] = "page" => f[2] \in Sources /\ f[3] \in 1..clock

OnePerPath == \A f, g \in files : SamePath(f, g) => f = g

\* A page that a device has changed under the purge's hands.
Excused(f) == f[2] \in late /\ f[2] \in Sources

Names(t, f) == \E i \in records[t].items : f \in i.files

Held == {"recheck", "commit", "unlink", "fail"}

InHand ==
    /\ op.pc \in Held => records[op.token].state = "applying"
    /\ op.pc = "unlink" =>
          /\ op.committed
          /\ op.left \subseteq records[op.token].items
          /\ \A f \in op.files : Names(op.token, f)
          /\ op.checked # NoFile =>
                /\ op.checked \in op.files
                /\ op.checked = <<op.checked[1], op.checked[2], op.checked[3]>>
                /\ op.checked[1] = "page" => op.checked[2] \in Sources /\ op.checked[3] \in 1..clock
                /\ \A g \in files : SamePath(op.checked, g) => g = op.checked \/ Excused(g)

\* A confirmation that nothing has come of yet, and perhaps nothing will.
Tentative(t) ==
    op.token = t /\ op.pc \in {"recheck", "commit", "fail"} /\ ~op.committed /\ ~op.resuming

Vouched(f) ==
    \E t \in Tokens : /\ records[t].state \in {"applying", "failed", "complete", "abandoned"}
                      /\ Names(t, f) /\ ~Tentative(t)
Signed == \A f \in gone : Excused(f) \/ Vouched(f)

\* Nothing on the list of a purge that has looked for the last time is cited.
Uncited ==
    op.pc \in {"commit", "unlink"} =>
        \A n \in vault \ late : \A s \in Cites[n] : s \notin Listed(op.token)

Orders == Filed /\ OnePerPath /\ InHand /\ Signed /\ Uncited /\ KeepsWhatIsUsed

LEMMA InitOrders == Init => Orders
<1> SUFFICES ASSUME Init PROVE Orders
  OBVIOUS
<1>1. /\ files = ({"receipt"} \X (Notes \ vault) \X {1}) \cup ({"manifest", "data", "page"} \X Sources \X {1})
      /\ clock = 1 /\ op = Idle /\ gone = {}
  BY DEF Init
<1>2. Filed
  BY <1>1 DEF Filed, Init
<1>3. OnePerPath
  BY <1>1 DEF OnePerPath, SamePath
<1>4. InHand /\ Signed /\ Uncited
  BY <1>1 DEF InHand, Held, Signed, Uncited, Idle
<1>5. KeepsWhatIsUsed
  <2>1. \A s \in Sources : <<"manifest", s, 1>> \in files /\ <<"data", s, 1>> \in files
    BY <1>1
  <2>2. \A s \in Sources : Intact(s)
    BY <2>1 DEF Intact, Has
  <2> QED
    BY <2>2, PurgeConstants DEF KeepsWhatIsUsed, Init
<1> QED
  BY <1>2, <1>3, <1>4, <1>5 DEF Orders

\* What neither lists nor removes anything leaves what was vouched for so.
LEMMA SignaturesStay ==
    ASSUME Orders, UNCHANGED <<records, op, gone>>, late \cap Sources \subseteq late'
    PROVE  Signed'
<1> SUFFICES ASSUME NEW f \in gone PROVE Excused(f)' \/ Vouched(f)'
  BY DEF Signed
<1>1. Excused(f) => Excused(f)'
  BY DEF Excused
<1>2. Vouched(f) => Vouched(f)'
  BY DEF Vouched, Names, Tentative
<1> QED
  BY <1>1, <1>2 DEF Orders, Signed

\* A bundle that no step empties stays whole, for whoever cites it.
LEMMA CitedStays ==
    ASSUME Orders, \A f \in files : f[1] \in {"manifest", "data"} => f \in files',
           vault' \ late' \subseteq vault \ late
    PROVE  KeepsWhatIsUsed'
<1>1. \A s : Intact(s) => Intact(s)'
  BY DEF Intact, Has
<1> QED
  BY <1>1 DEF Orders, KeepsWhatIsUsed

\* The reconciler and the recovery move only between purges, and put at a path
\* what there was at none.
LEMMA StoreObeys ==
    ASSUME Inv, Orders,
           \/ RecoverSources
           \/ \E n \in Notes : Returns(n) \/ Misses(n) \/ RecoverRow(n) \/ Adopt(n) \/ Ages(n)
    PROVE  Orders'
<1>1. UNCHANGED <<records, op, gone, vault, late>>
  BY DEF Returns, Misses, RecoverRow, Adopt, Ages, RecoverSources, rest, past
<1>2. clock' \in Nat /\ clock <= clock'
  BY DEF Returns, Misses, RecoverRow, Adopt, Ages, RecoverSources, Fresh, Orders, Filed
<1>3. \A f \in files : f[1] \in {"manifest", "data"} => f \in files'
  <2>1. CASE RecoverSources
    BY <2>1 DEF RecoverSources
  <2> QED
    BY <2>1, OthersSpareBundles
<1>4. \/ UNCHANGED files
      \/ op = Idle /\ \E n \in Notes : files' = (files \ Observed(n)) \cup {<<"observed", n, clock'>>}
      \/ op = Idle /\ \E n \in Notes : files' = files \cup {<<"receipt", n, note[n].gen>>}
  BY DEF Returns, Misses, RecoverRow, Adopt, Ages, RecoverSources
<1>5. Filed'
  BY <1>1, <1>2, <1>4 DEF Orders, Filed
<1>6. OnePerPath'
  <2>1. CASE UNCHANGED files
    BY <2>1 DEF Orders, OnePerPath, SamePath
  <2>2. ASSUME NEW n \in Notes, files' = (files \ Observed(n)) \cup {<<"observed", n, clock'>>}
        PROVE  OnePerPath'
    BY <2>2 DEF Orders, OnePerPath, SamePath, Observed, Of
  <2>3. ASSUME NEW n \in Notes, files' = files \cup {<<"receipt", n, note[n].gen>>}
        PROVE  OnePerPath'
    BY <2>3 DEF Orders, OnePerPath, SamePath, Filed
  <2> QED
    BY <1>4, <2>1, <2>2, <2>3
<1>7. InHand'
  <2>1. CASE UNCHANGED files
    BY <1>1, <1>2, <2>1 DEF Orders, InHand, Names, Excused, SamePath, Filed
  <2>2. CASE op = Idle
    BY <1>1, <2>2 DEF InHand, Held, Idle
  <2> QED
    BY <1>4, <2>1, <2>2
<1>8. Signed'
  BY <1>1, SignaturesStay
<1>9. Uncited'
  BY <1>1 DEF Orders, Uncited, Listed
<1>10. KeepsWhatIsUsed'
  BY <1>1, <1>3, CitedStays
<1> QED
  BY <1>5, <1>6, <1>7, <1>8, <1>9, <1>10 DEF Orders

\* A note that a device brings back while its sources are going is late.
LEMMA VaultObeys ==
    ASSUME Inv, Orders, NEW n \in Notes, DeviceReturns(n) \/ DeviceDeletes(n)
    PROVE  Orders'
<1>1. UNCHANGED <<records, op, gone, files, clock>>
  BY DEF DeviceReturns, DeviceDeletes, rest
<1>2. n \notin Sources /\ late \cap Sources \subseteq late' /\ late \ {n} \subseteq late'
  BY PurgeConstants DEF DeviceReturns, DeviceDeletes
<1>3. Filed' /\ OnePerPath'
  BY <1>1 DEF Orders, Filed, OnePerPath, SamePath, DeviceReturns, DeviceDeletes
<1>4. InHand'
  BY <1>1, <1>2 DEF Orders, InHand, Names, Excused, SamePath
<1>5. Signed'
  BY <1>1, <1>2, SignaturesStay
<1>6. \A m \in vault' \ late' : m \in vault \ late \/ (m = n /\ ~TooLate(n))
  BY DEF DeviceReturns, DeviceDeletes
<1>7. Uncited'
  BY <1>1, <1>6 DEF Orders, Uncited, Listed, TooLate
<1>8. KeepsWhatIsUsed'
  BY <1>1, <1>6 DEF Orders, KeepsWhatIsUsed, TooLate, Intact, Has
<1> QED
  BY <1>3, <1>4, <1>5, <1>7, <1>8 DEF Orders

\* A page that changes after its hash was compared is its source's excuse.
LEMMA PageObeys ==
    ASSUME Inv, Orders, NEW s \in Sources, DeviceEditsPage(s)
    PROVE  Orders'
<1> DEFINE page == {f \in Of(s) : f[1] = "page"}
<1>1. UNCHANGED <<records, op, gone, vault>>
  BY DEF DeviceEditsPage, rest
<1>2. /\ clock' \in Nat /\ clock <= clock'
      /\ \/ files' = (files \ page) \cup {<<"page", s, clock'>>} /\ clock < MaxVersions /\ clock' = clock + 1
         \/ files' = files \ page /\ clock' = clock
  BY DEF DeviceEditsPage, Fresh, Orders, Filed
<1>3. late \subseteq late'
  BY DEF DeviceEditsPage
<1>4. Filed'
  BY <1>1, <1>2 DEF Orders, Filed
<1>5. OnePerPath'
  BY <1>2 DEF Orders, OnePerPath, SamePath, Of
<1>6. InHand'
  <2> SUFFICES ASSUME op.pc = "unlink", op.checked # NoFile, NEW g \in files', SamePath(op.checked, g),
                      g # op.checked
               PROVE  Excused(g)'
    BY <1>1, <1>2 DEF Orders, InHand, Names, Filed, SamePath
  <2>1. CASE g \in files
    BY <1>3, <2>1 DEF Orders, InHand, Excused
  <2>2. CASE g \notin files
    <3>1. g = <<"page", s, clock'>> /\ clock < MaxVersions
      BY <1>2, <2>2
    <3>2. op.checked[1] = "page" /\ op.checked[2] = s
      BY <3>1 DEF SamePath
    <3>3. op.checked = <<"page", s, op.checked[3]>> /\ op.checked[3] \in 1..clock
      BY <3>2 DEF Orders, InHand
    <3>4. op.checked[3] \in Versions
      BY <3>1, <3>3, PurgeConstants DEF Orders, Filed, Versions
    <3>5. op.checked \in File
      BY <3>3, <3>4 DEF File, Kinds, Ids
    <3>6. s \in late'
      BY <3>2, <3>5 DEF DeviceEditsPage
    <3> QED
      BY <3>1, <3>6 DEF Excused
  <2> QED
    BY <2>1, <2>2
<1>7. Signed'
  BY <1>1, <1>3, SignaturesStay
<1>8. vault' \ late' \subseteq vault \ late
  BY <1>1, <1>3
<1>9. Uncited'
  BY <1>1, <1>8 DEF Orders, Uncited, Listed
<1>10. KeepsWhatIsUsed'
  BY <1>8, CitedStays, OthersSpareBundles
<1> QED
  BY <1>4, <1>5, <1>6, <1>7, <1>9, <1>10 DEF Orders

\* What the purge does without touching a file: what is to be shown of it.
LEMMA ListingObeys ==
    ASSUME Orders, UNCHANGED <<files, clock, gone, vault, late>>, InHand', Uncited',
           \A f \in gone : Vouched(f) => Vouched(f)'
    PROVE  Orders'
<1>1. Filed' /\ OnePerPath'
  BY DEF Orders, Filed, OnePerPath, SamePath
<1>2. Signed'
  BY DEF Orders, Signed, Excused
<1>3. KeepsWhatIsUsed'
  BY CitedStays
<1> QED
  BY <1>1, <1>2, <1>3 DEF Orders

\* Preview, confirm and abandon leave the lists of the purges that have begun as
\* they are; confirming a preview promises nothing yet.
LEMMA AskingObeys ==
    ASSUME Inv, Orders, NEW t \in Tokens, Preview(t) \/ Confirm(t) \/ Abandon(t)
    PROVE  Orders'
<1>1. UNCHANGED <<files, clock, gone, vault, late>> /\ op = Idle
  BY DEF Preview, Confirm, Abandon, world, past
<1>2. CASE Preview(t)
  <2>1. /\ records[t] = NoRecord
        /\ records' = [records EXCEPT ![t] = [NoRecord EXCEPT !.state = "preview", !.items = Candidates]]
        /\ op' = [Idle EXCEPT !.pc = "tidy", !.token = t]
    BY <1>2 DEF Preview
  <2>2. op'.pc = "tidy" /\ \A u \in Tokens \ {t} : records'[u] = records[u]
    BY <2>1 DEF Inv, Shape, Idle
  <2>3. ASSUME NEW f \in gone, Vouched(f) PROVE Vouched(f)'
    <3>1. PICK u \in Tokens : /\ records[u].state \in {"applying", "failed", "complete", "abandoned"}
                             /\ Names(u, f) /\ ~Tentative(u)
      BY <2>3 DEF Vouched
    <3>2. u # t
      BY <2>1, <3>1 DEF NoRecord
    <3> QED
      BY <2>2, <3>1, <3>2 DEF Vouched, Names, Tentative
  <2> QED
    BY <1>1, <2>2, <2>3, ListingObeys DEF InHand, Uncited, Held
<1>3. CASE Confirm(t)
  <2>1. /\ records[t].state = "preview" \/ t \in Unfinished
        /\ records' = [records EXCEPT ![t].state = "applying"]
        /\ op' = [Idle EXCEPT !.pc = "recheck", !.token = t, !.resuming = (t \in Unfinished)]
    BY <1>3 DEF Confirm, Save
  <2>2. op'.pc = "recheck" /\ op'.token = t /\ op'.resuming = (t \in Unfinished) /\ ~op'.committed
    BY <2>1 DEF Idle
  <2>3. /\ \A u \in Tokens : records'[u].items = records[u].items
        /\ \A u \in Tokens \ {t} : records'[u].state = records[u].state
        /\ records'[t].state = "applying"
    BY <2>1 DEF Inv, Shape, RecordFields
  <2>4. ASSUME NEW f \in gone, Vouched(f) PROVE Vouched(f)'
    <3>1. PICK u \in Tokens : /\ records[u].state \in {"applying", "failed", "complete", "abandoned"}
                             /\ Names(u, f)
      BY <2>4 DEF Vouched
    <3>2. u = t => t \in Unfinished
      BY <2>1, <3>1
    <3>3. ~Tentative(u)'
      BY <2>2, <3>2 DEF Tentative
    <3>4. records'[u].state \in {"applying", "failed", "complete", "abandoned"} /\ Names(u, f)'
      BY <2>3, <3>1 DEF Names
    <3> QED
      BY <3>3, <3>4 DEF Vouched
  <2> QED
    BY <1>1, <2>2, <2>3, <2>4, ListingObeys DEF InHand, Uncited, Held
<1>4. CASE Abandon(t)
  <2>1. PICK held : records' = [records EXCEPT ![t].state = "abandoned",
                                  ![t].remaining = held, ![t].completed = Listed(t) \ held]
    BY <1>4 DEF Abandon
  <2>2. op' = op /\ t \in Unfinished
    BY <1>4 DEF Abandon
  <2>3. /\ \A u \in Tokens : records'[u].items = records[u].items
        /\ \A u \in Tokens \ {t} : records'[u].state = records[u].state
        /\ records'[t].state = "abandoned"
    BY <2>1 DEF Inv, Shape, RecordFields
  <2>4. \A f \in gone : Vouched(f) => Vouched(f)'
    BY <2>2, <2>3 DEF Vouched, Names, Tentative
  <2> QED
    BY <1>1, <2>2, <2>4, ListingObeys DEF InHand, Uncited, Held, Idle
<1> QED
  BY <1>2, <1>3, <1>4

\* The end of a purge, good or bad, and what leads up to its transaction: only
\* one that has come to nothing is a preview again.
LEMMA FramingObeys ==
    ASSUME Inv, Orders,
           Tidy \/ Recheck \/ Complete \/ CompleteFails \/ SaveFailure \/ Crash
    PROVE  Orders'
<1>1. UNCHANGED <<files, clock, gone, vault, late>> /\ (op.pc # "idle" => op.token \in Tokens)
  BY DEF Tidy, Recheck, Complete, CompleteFails, SaveFailure, Crash, world, past, Inv, Shape
<1>2. CASE Tidy
  <2>1. op' = Idle /\ \A t \in Tokens : records[t].state # "preview" => records'[t] = records[t]
    BY <1>2 DEF Tidy
  <2>2. \A f \in gone : Vouched(f) => Vouched(f)'
    BY <2>1 DEF Vouched, Names, Tentative, Idle
  <2> QED
    BY <1>1, <2>1, <2>2, ListingObeys DEF InHand, Uncited, Held, Idle
<1>3. CASE Recheck
  <2>1. op.pc = "recheck" /\ ((Safe /\ op' = [op EXCEPT !.pc = "commit"]) \/ op' = [op EXCEPT !.pc = "fail"])
        /\ UNCHANGED records
    BY <1>3 DEF Recheck, Fails
  <2>2. /\ op'.pc \in {"commit", "fail"} /\ (op'.pc = "commit" => Safe)
        /\ op'.token = op.token /\ op'.committed = op.committed /\ op'.resuming = op.resuming
    BY <2>1 DEF Inv, Shape, OpFields
  <2>3. InHand'
    BY <2>1, <2>2 DEF Orders, InHand, Held
  <2>4. Uncited'
    <3> SUFFICES ASSUME op'.pc = "commit", NEW n \in vault \ late, NEW c \in Cites[n], NEW i \in records[op.token].items,
                        c = i.id
                 PROVE  FALSE
      BY <1>1, <2>1, <2>2 DEF Uncited, Listed
    <3>1. c \in Sources
      BY PurgeConstants DEF Orders, Filed
    <3> QED
      BY <2>2, <3>1 DEF Safe
  <2>5. \A f \in gone : Vouched(f) => Vouched(f)'
    BY <2>1, <2>2 DEF Vouched, Names, Tentative
  <2> QED
    BY <1>1, <2>3, <2>4, <2>5, ListingObeys
<1>4. CASE Complete
  <2>1. op.pc = "unlink" /\ op' = Idle
        /\ records' = [records EXCEPT ![op.token].state = "complete", ![op.token].completed = Listed(op.token)]
    BY <1>4 DEF Complete
  <2>2. /\ \A u \in Tokens : records'[u].items = records[u].items
        /\ \A u \in Tokens \ {op.token} : records'[u].state = records[u].state
        /\ records'[op.token].state = "complete"
    BY <1>1, <2>1 DEF Inv, Shape, RecordFields
  <2>3. \A f \in gone : Vouched(f) => Vouched(f)'
    BY <2>1, <2>2 DEF Vouched, Names, Tentative, Idle
  <2> QED
    BY <1>1, <2>1, <2>3, ListingObeys DEF InHand, Uncited, Held, Idle
<1>5. CASE CompleteFails
  <2>1. op.pc = "unlink" /\ op' = [op EXCEPT !.pc = "fail"] /\ UNCHANGED records
    BY <1>5 DEF CompleteFails, Fails
  <2>2. op'.pc = "fail" /\ op'.token = op.token /\ op'.committed
    BY <2>1 DEF Orders, InHand, Inv, Shape, OpFields
  <2>3. InHand' /\ Uncited'
    BY <2>1, <2>2 DEF Orders, InHand, Held, Uncited
  <2>4. \A f \in gone : Vouched(f) => Vouched(f)'
    BY <2>1, <2>2 DEF Vouched, Names, Tentative
  <2> QED
    BY <1>1, <2>3, <2>4, ListingObeys
<1>6. CASE SaveFailure
  <2>1. op.pc = "fail" /\ op' = Idle
        /\ records' = [records EXCEPT ![op.token].state = IF op.committed \/ op.resuming THEN "failed" ELSE "preview"]
    BY <1>6 DEF SaveFailure, Save
  <2>2. /\ \A u \in Tokens : records'[u].items = records[u].items
        /\ \A u \in Tokens \ {op.token} : records'[u].state = records[u].state
        /\ op.committed \/ op.resuming => records'[op.token].state = "failed"
    BY <1>1, <2>1 DEF Inv, Shape, RecordFields
  <2>3. \A f \in gone : Vouched(f) => Vouched(f)'
    BY <2>1, <2>2 DEF Vouched, Names, Tentative, Idle
  <2> QED
    BY <1>1, <2>1, <2>3, ListingObeys DEF InHand, Uncited, Held, Idle
<1>7. CASE Crash
  <2>1. op' = Idle /\ UNCHANGED records
    BY <1>7 DEF Crash
  <2>2. \A f \in gone : Vouched(f) => Vouched(f)'
    BY <2>1 DEF Vouched, Names, Tentative, Idle
  <2> QED
    BY <1>1, <2>1, <2>2, ListingObeys DEF InHand, Uncited, Held, Idle
<1> QED
  BY <1>2, <1>3, <1>4, <1>5, <1>6, <1>7

\* The transaction turns a confirmation into a purge.
LEMMA CommittingObeys ==
    ASSUME Inv, Orders, Commit \/ CommitFails
    PROVE  Orders'
<1>1. UNCHANGED <<records, files, clock, gone, vault, late>> /\ op.pc = "commit" /\ op.token \in Tokens
  BY DEF Commit, CommitFails, RowsDeleted, world, past, Inv, Shape
<1>2. CASE Commit
  <2>1. op' = [op EXCEPT !.pc = "unlink", !.committed = TRUE, !.left = records[op.token].items]
    BY <1>2 DEF Commit
  <2>2. /\ op'.pc = "unlink" /\ op'.token = op.token /\ op'.committed /\ op'.left = records[op.token].items
        /\ op'.files = {} /\ op'.checked = NoFile
    BY <1>1, <2>1 DEF Inv, Shape, OpFields, EmptyHanded
  <2>3. InHand' /\ Uncited'
    BY <1>1, <2>2 DEF Orders, InHand, Held, Uncited, Listed
  <2>4. \A f \in gone : Vouched(f) => Vouched(f)'
    BY <1>1, <2>2 DEF Vouched, Names, Tentative
  <2> QED
    BY <1>1, <2>3, <2>4, ListingObeys
<1>3. CASE CommitFails
  <2>1. op' = [op EXCEPT !.pc = "fail"]
    BY <1>3 DEF CommitFails, Fails
  <2>2. op'.pc = "fail" /\ op'.token = op.token /\ op'.committed = op.committed /\ op'.resuming = op.resuming
    BY <2>1 DEF Inv, Shape, OpFields
  <2>3. InHand' /\ Uncited'
    BY <1>1, <2>2 DEF Orders, InHand, Held, Uncited
  <2>4. \A f \in gone : Vouched(f) => Vouched(f)'
    BY <1>1, <2>2 DEF Vouched, Names, Tentative
  <2> QED
    BY <1>1, <2>3, <2>4, ListingObeys
<1> QED
  BY <1>2, <1>3

\* What is unlinked is in the list of a purge that has committed, and is not what
\* anybody cites.
LEMMA UnlinkingObeys ==
    ASSUME Inv, Orders, NextItem \/ CheckFile \/ UnlinkFile \/ UnlinkFails
    PROVE  Orders'
<1>1. UNCHANGED <<records, clock, vault, late>> /\ op.pc = "unlink" /\ op.token \in Tokens
  BY DEF NextItem, CheckFile, UnlinkFile, UnlinkFails, world, past, Inv, Shape
<1>2. CASE NextItem \/ CheckFile \/ UnlinkFails
  <2>1. UNCHANGED <<files, gone>>
    BY <1>2 DEF NextItem, CheckFile, UnlinkFails, world, past
  <2>2. op'.token = op.token /\ op'.committed = op.committed /\ op'.pc \in {"unlink", "fail"}
    BY <1>1, <1>2 DEF NextItem, CheckFile, UnlinkFails, Fails, Inv, Shape, OpFields
  <2>3. InHand'
    <3>1. CASE NextItem
      <4>1. PICK i \in op.left : op' = [op EXCEPT !.left = @ \ {i}, !.files = i.files]
        BY <3>1 DEF NextItem
      <4>2. op.checked = NoFile /\ i \in records[op.token].items
        BY <1>1, <3>1 DEF Orders, InHand, NextItem
      <4>3. op'.left = op.left \ {i} /\ op'.files = i.files /\ op'.checked = NoFile
        BY <4>1, <4>2 DEF Inv, Shape, OpFields
      <4> QED
        BY <1>1, <2>2, <4>2, <4>3 DEF Orders, InHand, Held, Names
    <3>2. CASE CheckFile /\ \E f \in op.files \cap files : op' = [op EXCEPT !.checked = f]
      <4>1. PICK f \in op.files \cap files : op' = [op EXCEPT !.checked = f]
        BY <3>2
      <4>2. op'.left = op.left /\ op'.files = op.files /\ op'.checked = f
        BY <4>1 DEF Inv, Shape, OpFields
      <4>3. /\ f = <<f[1], f[2], f[3]>> /\ (f[1] = "page" => f[2] \in Sources /\ f[3] \in 1..clock)
            /\ \A g \in files : SamePath(f, g) => g = f
        BY DEF Orders, Filed, OnePerPath
      <4> QED
        BY <1>1, <2>1, <2>2, <4>2, <4>3 DEF Orders, InHand, Held, Names, SamePath
    <3>3. CASE CheckFile /\ \E f \in op.files : op' = [op EXCEPT !.files = @ \ {f}]
      <4>1. op'.left = op.left /\ op'.files \subseteq op.files /\ op'.checked = op.checked /\ op.checked = NoFile
        BY <3>3 DEF CheckFile, Inv, Shape, OpFields
      <4> QED
        BY <1>1, <2>2, <4>1 DEF Orders, InHand, Held, Names
    <3>4. CASE op' = [op EXCEPT !.pc = "fail"]
      <4>1. op'.pc = "fail"
        BY <3>4 DEF Inv, Shape, OpFields
      <4> QED
        BY <1>1, <2>2, <4>1 DEF Orders, InHand, Held
    <3> QED
      BY <1>2, <3>1, <3>2, <3>3, <3>4 DEF CheckFile, UnlinkFails, Fails
  <2>4. Uncited'
    BY <1>1, <2>2 DEF Orders, Uncited, Listed
  <2>5. \A f \in gone : Vouched(f) => Vouched(f)'
    BY <1>1, <2>2 DEF Orders, InHand, Vouched, Names, Tentative
  <2> QED
    BY <1>1, <2>1, <2>3, <2>4, <2>5, ListingObeys
<1>3. CASE UnlinkFile
  <2> DEFINE there == {g \in files : SamePath(op.checked, g)}
  <2>1. /\ op.checked # NoFile /\ files' = files \ there /\ gone' = gone \cup there
        /\ op' = [op EXCEPT !.files = @ \ {op.checked}, !.checked = NoFile]
    BY <1>3 DEF UnlinkFile
  <2>2. /\ op'.pc = "unlink" /\ op'.token = op.token /\ op'.committed = op.committed
        /\ op'.left = op.left /\ op'.files \subseteq op.files /\ op'.checked = NoFile
    BY <1>1, <2>1 DEF Inv, Shape, OpFields
  <2>3. /\ records[op.token].state = "applying" /\ op.committed
        /\ Names(op.token, op.checked)
        /\ \A g \in there : g = op.checked \/ Excused(g)
    BY <1>1, <2>1 DEF Orders, InHand, Held
  <2>4. Filed' /\ OnePerPath'
    BY <1>1, <2>1 DEF Orders, Filed, OnePerPath, SamePath
  <2>5. InHand'
    BY <1>1, <2>2 DEF Orders, InHand, Held, Names
  <2>6. Uncited'
    BY <1>1, <2>2 DEF Orders, Uncited, Listed
  <2>7. Signed'
    <3> SUFFICES ASSUME NEW f \in gone' PROVE Excused(f)' \/ Vouched(f)'
      BY DEF Signed
    <3>1. Excused(f) => Excused(f)'
      BY <1>1 DEF Excused
    <3>2. Vouched(f) => Vouched(f)'
      BY <1>1, <2>2 DEF Vouched, Names, Tentative
    <3>3. f = op.checked => Vouched(f)'
      BY <1>1, <2>2, <2>3 DEF Vouched, Names, Tentative
    <3> QED
      BY <2>1, <2>3, <3>1, <3>2, <3>3 DEF Orders, Signed
  <2>8. KeepsWhatIsUsed'
    <3> SUFFICES ASSUME NEW n \in vault \ late, NEW s \in Cites[n] PROVE Intact(s)'
      BY <1>1 DEF KeepsWhatIsUsed
    <3>1. op.checked[2] \in Listed(op.token)
      BY <1>1, <2>3 DEF Names, Listed, Inv, ListsAreOwn, Own
    <3>2. s # op.checked[2]
      BY <1>1, <3>1 DEF Orders, Uncited
    <3>3. Intact(s)
      BY DEF Orders, KeepsWhatIsUsed
    <3>4. \A g \in files : g[2] = s => g \in files'
      BY <2>1, <3>2 DEF SamePath
    <3> QED
      BY <3>3, <3>4 DEF Intact, Has
  <2> QED
    BY <2>4, <2>5, <2>6, <2>7, <2>8 DEF Orders
<1> QED
  BY <1>2, <1>3

LEMMA OrdersHold == Spec => []Orders
<1>1. Init => Inv /\ Orders
  BY InitEstablishes, InitOrders
<1>2. Inv /\ [Next]_vars => Inv'
  BY PurgesInductive
<1>3. Inv /\ Orders /\ [Next]_vars => Orders'
  <2> SUFFICES ASSUME Inv, Orders, [Next]_vars PROVE Orders'
    OBVIOUS
  <2>1. CASE UNCHANGED vars
    BY <2>1 DEF vars, Orders, Filed, OnePerPath, SamePath, InHand, Names, Excused, Signed, Vouched, Tentative,
                Uncited, Listed, KeepsWhatIsUsed, Intact, Has
  <2>2. CASE \E t \in Tokens : Preview(t) \/ Confirm(t) \/ Abandon(t)
    BY <2>2, AskingObeys
  <2>3. CASE Purging
    BY <2>3, FramingObeys, CommittingObeys, UnlinkingObeys DEF Purging
  <2>4. CASE \/ RecoverSources
             \/ \E n \in Notes : Returns(n) \/ Misses(n) \/ RecoverRow(n) \/ Adopt(n) \/ Ages(n)
    BY <2>4, StoreObeys
  <2>5. CASE \E n \in Notes : DeviceReturns(n) \/ DeviceDeletes(n)
    BY <2>5, VaultObeys
  <2>6. CASE \E s \in Sources : DeviceEditsPage(s)
    BY <2>6, PageObeys
  <2> QED
    BY <2>1, <2>2, <2>3, <2>4, <2>5, <2>6 DEF Next
<1> QED
  BY <1>1, <1>2, <1>3, PTL DEF Spec

\* A source that a note in the vault cites keeps its manifest and its data, for
\* any notes, sources, lists and devices: confirm looks at the vault after the
\* list has been checked and before anything goes (purge.py:940-954), and
\* only a note that comes back after that look, or to a source already broken,
\* is too late.
THEOREM CitedSourcesStay == Spec => []KeepsWhatIsUsed
<1>1. Orders => KeepsWhatIsUsed
  BY DEF Orders
<1> QED
  BY <1>1, OrdersHold, PTL

\* Nothing is ever unlinked that no confirmed list names, through every failure,
\* resumption and abandonment (purge.py:3-4): a list that goes back to being a
\* preview has had nothing of it unlinked.
THEOREM PurgesAreAuthorised == Spec => []Authorised
<1>1. Orders => Authorised
  BY DEF Orders, Signed, Excused, Vouched, Names, Authorised
<1> QED
  BY <1>1, OrdersHold, PTL

-----------------------------------------------------------------------------
(* Nothing is out of reach.  What an interrupted purge left of a note or a *)
(* source belongs to a list that can be resumed or is offered again from   *)
(* an abandoned one, or is whole enough to be recovered.                   *)

\* Notes are rows and leave receipts and observations; a source has a bundle
\* and a page.
Typed ==
    /\ sources \subseteq Sources /\ DOMAIN note = Notes
    /\ \A n \in Notes : DOMAIN note[n] = {"state", "ver", "gen"}
    /\ \A f \in files : \/ f[2] \in Notes /\ f[1] \in {"receipt", "observed"}
                        \/ f[2] \in Sources /\ f[1] \in {"manifest", "data", "page"}

\* A deleted note can be recovered from a receipt of its removal.
Receipted == \A n \in Notes : note[n].state = "deleted" => Generations(n) # {}

\* A list that has begun still says what lies there, pages apart.
Same(i) ==
    \A g \in Of(i.id) :
        g[1] # "page" => /\ \A f \in i.files : SamePath(f, g) => g = f
                         /\ g[1] \in {"receipt", "manifest", "data"} => \E f \in i.files : SamePath(f, g)
Standing == \A t \in Unfinished : \A i \in records[t].items : Same(i)

\* Every list knows of the page, and of the page as it was while nobody has edited it.
Paged(i) ==
    \A g \in Of(i.id) :
        g[1] = "page" => /\ \E f \in i.files : SamePath(f, g)
                         /\ g[3] = 1 => \A f \in i.files : SamePath(f, g) => f = g
PagesListed == \A t \in Tokens : \A i \in records[t].items : Paged(i)

\* While files go, the notes listed have no row, and of the items that have had
\* their turn nothing lies there but what is in hand.
Bare == op.pc = "unlink" => \A n \in Notes : n \in Listed(op.token) => note[n].state = "none"
Emptied ==
    op.pc = "unlink" =>
        \A i \in records[op.token].items \ op.left :
            \A f \in i.files \ op.files : \A g \in files : ~SamePath(f, g)

\* A confirmed preview lists no note that is in the vault's mirror.
Deleting ==
    op.pc \in {"recheck", "commit"} /\ ~op.resuming =>
        \A n \in Notes : n \in Listed(op.token) => note[n].state \in {"none", "deleted"}

Promised(id) == \E t \in Unfinished : id \in Listed(t) /\ ~Tentative(t)
Offered(t, k) ==
    /\ records[t].state = "abandoned" /\ k \in records[t].items /\ k.id \in records[t].remaining
    /\ Same(k) /\ Left(k).files # {}
Leftover(id) == \E t \in Tokens : \E k \in records[t].items : k.id = id /\ Offered(t, k)

Known(n) == note[n].state # "none" \/ Generations(n) # {} \/ n \in Purged
NotesInReach == \A n \in Notes : Known(n) \/ Promised(n) \/ Leftover(n)
SourcesInReach ==
    \A s \in Sources : s \in sources \/ Of(s) = {} \/ Intact(s) \/ Promised(s) \/ Leftover(s)

Reach ==
    /\ Typed /\ Receipted /\ Standing /\ PagesListed /\ Bare /\ Emptied /\ Deleting
    /\ NotesInReach /\ SourcesInReach


-----------------------------------------------------------------------------
\* What is said of an item depends on the files of its own identity.
LEMMA ItemsLookHome ==
    ASSUME NEW k, Own(k), Of(k.id)' = Of(k.id)
    PROVE  (Same(k)' <=> Same(k)) /\ (Paged(k)' <=> Paged(k)) /\ Left(k)' = Left(k)
<1>1. (Same(k)' <=> Same(k)) /\ (Paged(k)' <=> Paged(k))
  BY DEF Same, Paged
<1>2. \A f \in k.files : (\E g \in files' : SamePath(f, g)) <=> \E g \in files : SamePath(f, g)
  <2>1. \A f \in k.files : \A g : SamePath(f, g) => (g \in files <=> g \in Of(k.id)) /\ (g \in files' <=> g \in Of(k.id)')
    BY DEF Own, SamePath, Of
  <2> QED
    BY <2>1
<1>3. Left(k)' = Left(k)
  BY <1>2 DEF Left
<1> QED
  BY <1>1, <1>3

LEMMA IdsLookHome ==
    ASSUME NEW id, Of(id)' = Of(id)
    PROVE  Generations(id)' = Generations(id) /\ (Intact(id)' <=> Intact(id))
<1>1. Generations(id)' = Generations(id)
  BY DEF Generations
<1>2. \A kind : Has(kind, id)' <=> Has(kind, id)
  BY DEF Has, Of
<1> QED
  BY <1>1, <1>2 DEF Intact

\* A finished or an abandoned purge says for ever what it has removed.
LEMMA PurgedMeans ==
    ASSUME NEW n
    PROVE  n \in Purged <=> \E t \in Tokens : \/ records[t].state = "complete" /\ n \in Listed(t)
                                              \/ records[t].state = "abandoned" /\ n \in records[t].completed
<1> DEFINE done == {t \in Tokens : records[t].state = "complete"}
           dropped == {t \in Tokens : records[t].state = "abandoned"}
           whole == UNION {Listed(t) : t \in {u \in Tokens : records[u].state = "complete"}}
           part == UNION {records[t].completed : t \in {u \in Tokens : records[u].state = "abandoned"}}
<1>1. n \in whole <=> \E t \in done : n \in Listed(t)
  OBVIOUS
<1>2. n \in part <=> \E t \in dropped : n \in records[t].completed
  OBVIOUS
<1>3. Purged = whole \cup part
  BY DEF Purged
<1>4. n \in Purged <=> n \in whole \/ n \in part
  <2> HIDE DEF whole, part
  <2> QED  BY <1>3
<1>5. (n \in whole \/ n \in part)
      <=> (\E t \in done : n \in Listed(t)) \/ (\E t \in dropped : n \in records[t].completed)
  BY <1>1, <1>2, Zenon
<1> HIDE DEF whole, part
<1> QED
  BY <1>4, <1>5

\* What is left of an item is empty only when nothing lies under its identity.
LEMMA LeftIsAll ==
    ASSUME Typed, NEW s \in Sources, NEW k, k.id = s, Own(k), Same(k), Paged(k), Left(k).files = {}
    PROVE  Of(s) = {}
<1>1. Left(k).files = {f \in k.files : \E g \in files : SamePath(f, g)}
  BY DEF Left, Own
<1>2. ASSUME NEW g \in Of(s) PROVE FALSE
  <2>1. g[1] \in {"manifest", "data", "page"} /\ g \in files
    BY PurgeConstants DEF Typed, Of
  <2>2. \E f \in k.files : SamePath(f, g)
    BY <2>1 DEF Same, Paged
  <2> QED
    BY <1>1, <2>1, <2>2
<1> QED
  BY <1>2

\* candidates() lists what lies there.
LEMMA CandidatesAreThere ==
    ASSUME Inv, Orders, PagesListed
    PROVE  \A i \in Candidates : Same(i) /\ Paged(i)
<1>1. \A i : i.files = Of(i.id) => Same(i) /\ Paged(i)
  BY DEF Same, Paged, Of, SamePath, Orders, OnePerPath
<1>2. \A i \in NoteItems \cup SourceItems : Same(i) /\ Paged(i)
  <2>1. \A i \in NoteItems \cup SourceItems : i.files = Of(i.id)
    BY DEF NoteItems, SourceItems
  <2> QED
    BY <1>1, <2>1
<1>3. ASSUME NEW i \in Leftovers PROVE Same(i) /\ Paged(i)
  <2>1. PICK t \in Tokens : \E k \in records[t].items : i = Left(k) /\ Unchanged(i)
    BY <1>3 DEF Leftovers
  <2>0. PICK k \in records[t].items : i = Left(k) /\ Unchanged(i)
    BY <2>1
  <2>2. i.id = k.id /\ i.files = {f \in k.files : \E g \in files : SamePath(f, g)}
    BY <2>0 DEF Left, Inv, ListsAreOwn, Own
  <2>3. Same(i)
    BY <2>0 DEF Unchanged, Same
  <2>4. Paged(i)
    BY <2>2 DEF PagesListed, Paged, Of
  <2> QED
    BY <2>3, <2>4
<1>4. Residuals \subseteq Leftovers
  BY DEF Residuals
<1> QED
  BY <1>2, <1>3, <1>4 DEF Candidates

\* candidates() lists notes that are deleted or have no row.
LEMMA CandidatesAreDeleted ==
    ASSUME Typed, NEW i \in Candidates, i.id \in Notes
    PROVE  note[i.id].state \in {"none", "deleted"}
<1>1. i \in NoteItems => note[i.id].state = "deleted"
  BY DEF NoteItems
<1>2. i \notin SourceItems
  BY PurgeConstants DEF SourceItems, Typed
<1>3. i \in Residuals => Free(i.id)
  BY DEF Residuals, Leftovers
<1> QED
  BY <1>1, <1>2, <1>3 DEF Candidates, Free

LEMMA InitReaches == Init => Reach
<1> SUFFICES ASSUME Init PROVE Reach
  OBVIOUS
<1>1. /\ files = ({"receipt"} \X (Notes \ vault) \X {1}) \cup ({"manifest", "data", "page"} \X Sources \X {1})
      /\ op = Idle /\ records = [t \in Tokens |-> NoRecord] /\ sources = Sources
  BY DEF Init
<1>2. Typed
  BY <1>1 DEF Typed, Init
<1>3. Receipted
  <2> SUFFICES ASSUME NEW n \in Notes, note[n].state = "deleted" PROVE Generations(n) # {}
    BY DEF Receipted
  <2>1. n \notin vault
    BY DEF Init
  <2>2. <<"receipt", n, 1>> \in Of(n)
    BY <1>1, <2>1 DEF Of
  <2> QED
    BY <2>2 DEF Generations
<1>4. Standing /\ PagesListed /\ Bare /\ Emptied /\ Deleting
  BY <1>1 DEF Standing, Unfinished, NoRecord, PagesListed, Bare, Emptied, Deleting, Idle
<1>5. NotesInReach /\ SourcesInReach
  BY <1>1 DEF NotesInReach, SourcesInReach, Known, Init
<1> QED
  BY <1>2, <1>3, <1>4, <1>5 DEF Reach

-----------------------------------------------------------------------------
\* A step that leaves files and records alone leaves what lists promise, unless
\* it takes a confirmation back.
LEMMA PromisesLast ==
    ASSUME Reach, UNCHANGED <<files, records>>
    PROVE  /\ Standing' /\ PagesListed' /\ Purged' = Purged
           /\ \A id : Leftover(id) => Leftover(id)'
           /\ (\A t \in Tokens : Tentative(t)' => Tentative(t)) => \A id : Promised(id) => Promised(id)'
<1>1. \A i : (Same(i)' <=> Same(i)) /\ (Paged(i)' <=> Paged(i)) /\ Left(i)' = Left(i)
  BY DEF Same, Paged, Left, Of
<1>2. Standing' /\ PagesListed'
  BY <1>1 DEF Reach, Standing, PagesListed, Unfinished
<1>3. Purged' = Purged
  BY DEF Purged, Listed
<1>4. \A id : Leftover(id) => Leftover(id)'
  BY <1>1 DEF Leftover, Offered
<1>5. (\A t \in Tokens : Tentative(t)' => Tentative(t)) => \A id : Promised(id) => Promised(id)'
  BY DEF Promised, Listed, Unfinished
<1> QED
  BY <1>2, <1>3, <1>4, <1>5

\* So does one that also leaves the rows alone, if it keeps what the purge is at.
LEMMA OpReaches ==
    ASSUME Reach, UNCHANGED <<files, records, note, sources>>,
           \A t \in Tokens : Tentative(t)' => Tentative(t), Bare', Emptied', Deleting'
    PROVE  Reach'
<1>1. /\ Standing' /\ PagesListed' /\ Purged' = Purged
      /\ \A id : Leftover(id) => Leftover(id)'
      /\ \A id : Promised(id) => Promised(id)'
  BY PromisesLast
<1>2. Typed' /\ Receipted'
  BY DEF Reach, Typed, Receipted, Generations, Of
<1>3. \A id : Of(id)' = Of(id) /\ Generations(id)' = Generations(id) /\ (Intact(id)' <=> Intact(id))
  BY DEF Of, Generations, Intact, Has
<1>4. NotesInReach'
  BY <1>1, <1>3 DEF Reach, NotesInReach, Known
<1>5. SourcesInReach'
  BY <1>1, <1>3 DEF Reach, SourcesInReach
<1> QED
  BY <1>1, <1>2, <1>4, <1>5 DEF Reach

\* A step that changes one list's state, and neither files nor rows.
LEMMA ListReaches ==
    ASSUME Reach, UNCHANGED <<files, note, sources>>, Standing', PagesListed', Bare', Emptied', Deleting',
           \A n : n \in Purged => n \in Purged',
           \A id : Leftover(id) => Leftover(id)',
           \A n \in Notes : Promised(n) => n \in Purged' \/ Promised(n)' \/ Leftover(n)' \/ note[n].state # "none",
           \A s \in Sources : Promised(s) => s \in sources \/ Of(s) = {} \/ Promised(s)' \/ Leftover(s)'
    PROVE  Reach'
<1>2. Typed' /\ Receipted'
  BY DEF Reach, Typed, Receipted, Generations, Of
<1>3. \A id : Of(id)' = Of(id) /\ Generations(id)' = Generations(id) /\ (Intact(id)' <=> Intact(id))
  BY DEF Of, Generations, Intact, Has
<1>4. NotesInReach'
  BY <1>3 DEF Reach, NotesInReach, Known
<1>5. SourcesInReach'
  BY <1>3 DEF Reach, SourcesInReach
<1> QED
  BY <1>2, <1>4, <1>5 DEF Reach

\* An abandoned list keeps what it offers while nothing lies there differently.
LEMMA OffersLast ==
    ASSUME UNCHANGED files,
           \A t \in Tokens : records[t].state = "abandoned" => records'[t] = records[t]
    PROVE  \A id : Leftover(id) => Leftover(id)'
<1>1. \A i : (Same(i)' <=> Same(i)) /\ Left(i)' = Left(i)
  BY DEF Same, Left, Of
<1> QED
  BY <1>1 DEF Leftover, Offered

\* What was removed stays removed.
LEMMA PurgedGrows ==
    ASSUME \A t \in Tokens :
               /\ records[t].state = "complete" => records'[t] = records[t]
               /\ records[t].state = "abandoned" => records'[t] = records[t]
    PROVE  \A n : n \in Purged => n \in Purged'
<1> SUFFICES ASSUME NEW n, n \in Purged PROVE n \in Purged'
  OBVIOUS
<1>1. PICK v \in Tokens : \/ records[v].state = "complete" /\ n \in Listed(v)
                          \/ records[v].state = "abandoned" /\ n \in records[v].completed
  BY PurgedMeans
<1>2. \/ records'[v].state = "complete" /\ n \in Listed(v)'
      \/ records'[v].state = "abandoned" /\ n \in records'[v].completed
  BY <1>1 DEF Listed
<1> DEFINE whole == UNION {Listed(t) : t \in {u \in Tokens : records[u].state = "complete"}}
           part == UNION {records[t].completed : t \in {u \in Tokens : records[u].state = "abandoned"}}
<1>3. Purged' = whole' \cup part'
  BY DEF Purged
<1>4. n \in whole' \/ n \in part'
  BY <1>2
<1> HIDE DEF whole, part
<1> QED
  BY <1>3, <1>4

LEMMA PreviewReaches ==
    ASSUME Inv, Orders, Reach, NEW t \in Tokens, Preview(t)
    PROVE  Reach'
<1>1. /\ records[t] = NoRecord /\ Unfinished = {} /\ op = Idle
      /\ records' = [records EXCEPT ![t] = [NoRecord EXCEPT !.state = "preview", !.items = Candidates]]
      /\ op' = [Idle EXCEPT !.pc = "tidy", !.token = t]
      /\ UNCHANGED <<files, note, sources>>
  BY DEF Preview, world
<1>2. /\ \A u \in Tokens \ {t} : records'[u] = records[u]
      /\ records[t].state = "none" /\ records'[t].state = "preview" /\ records'[t].items = Candidates
      /\ op'.pc = "tidy"
  BY <1>1 DEF Inv, Shape, NoRecord, Idle
<1>3. \A i : (Same(i)' <=> Same(i)) /\ (Paged(i)' <=> Paged(i))
  BY <1>1 DEF Same, Paged, Of
<1>4. Standing' /\ (\A id : ~Promised(id))
  BY <1>1, <1>2 DEF Standing, Unfinished, Promised
<1>5. PagesListed'
  <2>1. \A i \in Candidates : Paged(i)
    BY CandidatesAreThere DEF Reach
  <2> QED
    BY <1>2, <1>3, <2>1 DEF Reach, PagesListed
<1>6. Bare' /\ Emptied' /\ Deleting'
  BY <1>2 DEF Bare, Emptied, Deleting
<1>7. \A n : n \in Purged => n \in Purged'
  <2>1. \A u \in Tokens : records[u].state \in {"complete", "abandoned"} => records'[u] = records[u]
    BY <1>2
  <2> QED
    BY <2>1, PurgedGrows
<1>8. \A id : Leftover(id) => Leftover(id)'
  BY <1>1, <1>2, OffersLast
<1> QED
  BY <1>1, <1>4, <1>5, <1>6, <1>7, <1>8, ListReaches

LEMMA ConfirmReaches ==
    ASSUME Inv, Orders, Reach, NEW t \in Tokens, Confirm(t)
    PROVE  Reach'
<1>1. /\ \/ records[t].state = "preview" /\ records[t].items = Candidates
         \/ t \in Unfinished
      /\ Unfinished \subseteq {t} /\ op = Idle
      /\ records' = [records EXCEPT ![t].state = "applying"]
      /\ op' = [Idle EXCEPT !.pc = "recheck", !.token = t, !.resuming = (t \in Unfinished)]
      /\ UNCHANGED <<files, note, sources>>
  BY DEF Confirm, Save, world
<1>2. /\ \A u \in Tokens \ {t} : records'[u] = records[u]
      /\ records'[t].state = "applying" /\ \A u \in Tokens : records'[u].items = records[u].items
      /\ op'.pc = "recheck" /\ op'.token = t /\ op'.resuming = (t \in Unfinished)
  BY <1>1 DEF Inv, Shape, RecordFields, Idle
<1>3. \A i : (Same(i)' <=> Same(i)) /\ (Paged(i)' <=> Paged(i))
  BY <1>1 DEF Same, Paged, Of
<1>4. records[t].state \in {"preview", "applying", "failed"}
  BY <1>1 DEF Unfinished
<1>5. Standing'
  <2> SUFFICES ASSUME NEW u \in Unfinished', NEW i \in records[u].items PROVE Same(i)
    BY <1>2, <1>3 DEF Standing, Unfinished
  <2>1. CASE u \in Unfinished
    BY <2>1 DEF Reach, Standing
  <2>2. CASE u \notin Unfinished
    <3>1. u = t /\ i \in Candidates
      BY <1>1, <1>2, <2>2 DEF Unfinished
    <3> QED
      BY <3>1, CandidatesAreThere DEF Reach
  <2> QED
    BY <2>1, <2>2
<1>6. PagesListed'
  BY <1>2, <1>3 DEF Reach, PagesListed
<1>7. Deleting'
  <2> SUFFICES ASSUME ~op'.resuming, NEW n \in Notes, n \in Listed(t)' PROVE note[n].state \in {"none", "deleted"}
    BY <1>1, <1>2 DEF Deleting
  <2>1. records[t].items = Candidates
    BY <1>1, <1>2
  <2>2. PICK i \in Candidates : n = i.id
    BY <1>2, <2>1 DEF Listed
  <2> QED
    BY <2>2, CandidatesAreDeleted DEF Reach
<1>8. Bare' /\ Emptied'
  BY <1>2 DEF Bare, Emptied
<1>9. \A n : n \in Purged => n \in Purged'
  <2>1. \A u \in Tokens : /\ records[u].state = "complete" => records'[u] = records[u]
                          /\ records[u].state = "abandoned" => records'[u] = records[u]
    BY <1>2, <1>4
  <2> QED
    BY <2>1, PurgedGrows
<1>10. \A id : Leftover(id) => Leftover(id)'
  BY <1>1, <1>2, <1>4, OffersLast
<1>11. \A id : Promised(id) => Promised(id)'
  <2> SUFFICES ASSUME NEW id, NEW u \in Unfinished, id \in Listed(u) PROVE Promised(id)'
    BY DEF Promised
  <2>1. u = t /\ t \in Unfinished' /\ id \in Listed(t)'
    BY <1>1, <1>2 DEF Unfinished, Listed
  <2>2. ~Tentative(t)'
    BY <1>2, <2>1 DEF Tentative
  <2> QED
    BY <2>1, <2>2 DEF Promised
<1> QED
  BY <1>1, <1>5, <1>6, <1>7, <1>8, <1>9, <1>10, <1>11, ListReaches

\* Abandoning takes stock: what a list promised was removed, is there still, or
\* is offered again.
LEMMA AbandonReaches ==
    ASSUME Inv, Orders, Reach, NEW t \in Tokens, Abandon(t)
    PROVE  Reach'
<1> DEFINE held == {i.id : i \in {j \in records[t].items :
                       \/ j.id \in sources \cup {n \in Notes : note[n].state # "none"}
                       \/ Left(j).files # {}}}
<1>1. /\ t \in Unfinished /\ op = Idle
      /\ records' = [records EXCEPT ![t].state = "abandoned", ![t].remaining = held,
                                    ![t].completed = Listed(t) \ held]
      /\ UNCHANGED <<files, note, sources, op>>
  BY DEF Abandon, world
<1>2. /\ \A u \in Tokens \ {t} : records'[u] = records[u]
      /\ records'[t].state = "abandoned" /\ records'[t].items = records[t].items
      /\ records'[t].remaining = held /\ records'[t].completed = Listed(t) \ held
  <2> HIDE DEF held
  <2> QED  BY <1>1 DEF Inv, Shape, RecordFields
<1>3. \A i : (Same(i)' <=> Same(i)) /\ (Paged(i)' <=> Paged(i)) /\ Left(i)' = Left(i)
  BY <1>1 DEF Same, Paged, Left, Of
<1>4. Standing' /\ PagesListed'
  BY <1>2, <1>3 DEF Reach, Standing, PagesListed, Unfinished
<1>5. Bare' /\ Emptied' /\ Deleting'
  BY <1>1 DEF Bare, Emptied, Deleting, Idle
<1>6. \A n : n \in Purged => n \in Purged'
  <2>1. \A u \in Tokens : /\ records[u].state = "complete" => records'[u] = records[u]
                          /\ records[u].state = "abandoned" => records'[u] = records[u]
    BY <1>1, <1>2 DEF Unfinished
  <2> QED
    BY <2>1, PurgedGrows
<1>7. \A id : Leftover(id) => Leftover(id)'
  BY <1>1, <1>2, OffersLast DEF Unfinished
<1>8. ASSUME NEW id, Promised(id), ~Promised(id)'
      PROVE  \/ id \in Listed(t) \ held /\ records'[t].completed = Listed(t) \ held
             \/ id \in sources \/ (id \in Notes /\ note[id].state # "none") \/ Leftover(id)'
  <2>1. PICK u \in Unfinished : id \in Listed(u)
    BY <1>8 DEF Promised
  <2>2. u = t
    <3>1. CASE u # t
      <4>1. u \in Unfinished' /\ id \in Listed(u)' /\ ~Tentative(u)'
        BY <1>1, <1>2, <2>1, <3>1 DEF Unfinished, Listed, Tentative, Idle
      <4> QED
        BY <1>8, <4>1 DEF Promised
    <3> QED
      BY <3>1
  <2>3. CASE id \in held
    <3>1. PICK j \in records[t].items : /\ id = j.id
                                        /\ \/ j.id \in sources \cup {n \in Notes : note[n].state # "none"}
                                           \/ Left(j).files # {}
      BY <2>3
    <3>2. CASE Left(j).files # {}
      <4>1. Same(j)
        BY <1>1, <3>1 DEF Reach, Standing
      <4>2. Offered(t, j)'
        BY <1>2, <1>3, <2>3, <3>1, <3>2, <4>1 DEF Offered
      <4> QED
        BY <1>2, <3>1, <4>2 DEF Leftover
    <3> QED
      BY <3>1, <3>2
  <2> HIDE DEF held
  <2> QED
    BY <1>2, <2>1, <2>2, <2>3
<1>9. ASSUME NEW s \in Sources, s \in Listed(t) \ held PROVE Of(s) = {}
  <2>1. PICK j \in records[t].items : j.id = s
    BY <1>9 DEF Listed
  <2>2. Left(j).files = {}
    BY <1>9, <2>1
  <2>3. Own(j) /\ Same(j) /\ Paged(j)
    BY <1>1, <2>1 DEF Inv, ListsAreOwn, Reach, Standing, PagesListed
  <2> QED
    BY <2>1, <2>2, <2>3, LeftIsAll DEF Reach
<1>10. ASSUME NEW n, n \in Listed(t) \ held PROVE n \in Purged'
  <2> HIDE DEF held
  <2>1. n \in records'[t].completed /\ records'[t].state = "abandoned"
    BY <1>2, <1>10
  <2>2. n \in (UNION {records[u].completed : u \in {v \in Tokens : records[v].state = "abandoned"}})'
    BY <2>1
  <2> QED
    BY <2>2 DEF Purged
<1> HIDE DEF held
<1>11. \A n \in Notes : Promised(n) => n \in Purged' \/ Promised(n)' \/ Leftover(n)' \/ note[n].state # "none"
  <2>1. \A n \in Notes : n \notin sources
    BY PurgeConstants DEF Reach, Typed
  <2> QED
    BY <1>8, <1>10, <2>1
<1>12. \A s \in Sources : Promised(s) => s \in sources \/ Of(s) = {} \/ Promised(s)' \/ Leftover(s)'
  <2>1. \A s \in Sources : s \notin Notes
    BY PurgeConstants
  <2> QED
    BY <1>8, <1>9, <2>1
<1> QED
  BY <1>1, <1>4, <1>5, <1>6, <1>7, <1>11, <1>12, ListReaches

\* Between asking and the transaction, and at the end: what the record says next
\* is what came of the purge.
LEMMA FramingReaches ==
    ASSUME Inv, Orders, Reach,
           Tidy \/ Recheck \/ Complete \/ CompleteFails \/ SaveFailure \/ Crash
    PROVE  Reach'
<1>1. UNCHANGED <<files, note, sources>> /\ (op.pc # "idle" => op.token \in Tokens)
  BY DEF Tidy, Recheck, Complete, CompleteFails, SaveFailure, Crash, world, Inv, Shape
<1>2. \A i : (Same(i)' <=> Same(i)) /\ (Paged(i)' <=> Paged(i))
  BY <1>1 DEF Same, Paged, Of
<1>3. op' = Idle => Bare' /\ Emptied' /\ Deleting' /\ \A t \in Tokens : ~Tentative(t)'
  BY DEF Bare, Emptied, Deleting, Tentative, Idle
<1>4. CASE Tidy
  <2>1. /\ op' = Idle
        /\ \A t \in Tokens : \/ records'[t] = records[t]
                             \/ records[t].state = "preview" /\ records'[t].state = "removed" /\ records'[t].items = {}
    BY <1>4 DEF Tidy, NoRecord
  <2>2. Standing' /\ PagesListed'
    BY <1>2, <2>1 DEF Reach, Standing, PagesListed, Unfinished
  <2>3. \A n : n \in Purged => n \in Purged'
    <3>1. \A u \in Tokens : /\ records[u].state = "complete" => records'[u] = records[u]
                            /\ records[u].state = "abandoned" => records'[u] = records[u]
      BY <2>1
    <3> QED
      BY <3>1, PurgedGrows
  <2>4. \A id : Leftover(id) => Leftover(id)'
    BY <1>1, <2>1, OffersLast
  <2>5. \A id : Promised(id) => Promised(id)'
    BY <1>3, <2>1 DEF Promised, Unfinished, Listed
  <2> QED
    BY <1>1, <1>3, <2>1, <2>2, <2>3, <2>4, <2>5, ListReaches
<1>5. CASE Recheck
  <2>1. /\ UNCHANGED records /\ op.pc = "recheck" /\ op'.pc \in {"commit", "fail"}
        /\ op'.token = op.token /\ op'.committed = op.committed /\ op'.resuming = op.resuming
    BY <1>5 DEF Recheck, Fails, Inv, Shape, OpFields
  <2>2. Bare' /\ Emptied' /\ \A t \in Tokens : Tentative(t)' => Tentative(t)
    BY <2>1 DEF Bare, Emptied, Tentative
  <2>3. Deleting'
    BY <1>1, <2>1 DEF Reach, Deleting, Listed
  <2> QED
    BY <1>1, <2>1, <2>2, <2>3, OpReaches
<1>6. CASE Complete
  <2>1. /\ op.pc = "unlink" /\ op.left = {} /\ op.files = {} /\ op' = Idle
        /\ records' = [records EXCEPT ![op.token].state = "complete", ![op.token].completed = Listed(op.token)]
    BY <1>6 DEF Complete
  <2>2. /\ \A u \in Tokens \ {op.token} : records'[u] = records[u]
        /\ \A u \in Tokens : records'[u].items = records[u].items
        /\ records'[op.token].state = "complete" /\ records[op.token].state = "applying"
    BY <1>1, <2>1 DEF Inv, Shape, RecordFields, Orders, InHand, Held
  <2>3. Standing' /\ PagesListed'
    BY <1>2, <2>2 DEF Reach, Standing, PagesListed, Unfinished
  <2>4. \A n : n \in Purged => n \in Purged'
    <3>1. \A u \in Tokens : /\ records[u].state = "complete" => records'[u] = records[u]
                            /\ records[u].state = "abandoned" => records'[u] = records[u]
      BY <2>2
    <3> QED
      BY <3>1, PurgedGrows
  <2>5. \A id : Leftover(id) => Leftover(id)'
    BY <1>1, <2>2, OffersLast
  <2>6. \A n : n \in Listed(op.token) => n \in Purged'
    <3> DEFINE done == {u \in Tokens : records'[u].state = "complete"}
    <3>1. PICK t \in Tokens : t = op.token
      BY <1>1, <2>1
    <3>2. t \in done /\ Listed(t)' = Listed(t)
      BY <2>2, <3>1 DEF Listed
    <3>3. \A n \in Listed(t) : n \in UNION {Listed(u)' : u \in done}
      BY <3>2
    <3>4. \A n \in Listed(t) : n \in Purged'
      BY <3>3 DEF Purged
    <3> QED
      BY <3>1, <3>4
  <2>7. ASSUME NEW s \in Sources, s \in Listed(op.token) PROVE Of(s) = {}
    <3>1. PICK j \in records[op.token].items : j.id = s
      BY <2>7 DEF Listed
    <3>2. \A f \in j.files : \A g \in files : ~SamePath(f, g)
      BY <2>1, <3>1 DEF Reach, Emptied
    <3>3. Own(j) /\ Same(j) /\ Paged(j)
      BY <1>1, <2>1, <2>2, <3>1 DEF Inv, ListsAreOwn, Reach, Standing, PagesListed, Unfinished
    <3>4. Left(j).files = {}
      BY <3>2, <3>3 DEF Left, Own
    <3> QED
      BY <3>1, <3>3, <3>4, LeftIsAll DEF Reach
  <2>8. \A id : Promised(id) => Promised(id)' \/ id \in Listed(op.token)
    BY <1>3, <2>1, <2>2 DEF Promised, Unfinished, Listed
  <2> QED
    BY <1>1, <1>3, <2>1, <2>3, <2>4, <2>5, <2>6, <2>7, <2>8, ListReaches
<1>7. CASE CompleteFails
  <2>1. UNCHANGED records /\ op.pc = "unlink" /\ op'.pc = "fail" /\ op'.committed
    BY <1>7 DEF CompleteFails, Fails, Inv, Shape, OpFields, Orders, InHand
  <2>2. Bare' /\ Emptied' /\ Deleting' /\ \A t \in Tokens : ~Tentative(t)'
    BY <2>1 DEF Bare, Emptied, Deleting, Tentative
  <2> QED
    BY <1>1, <2>1, <2>2, OpReaches
<1>8. CASE SaveFailure
  <2>1. /\ op.pc = "fail" /\ op' = Idle
        /\ records' = [records EXCEPT ![op.token].state =
                          IF op.committed \/ op.resuming THEN "failed" ELSE "preview"]
    BY <1>8 DEF SaveFailure, Save
  <2>2. /\ \A u \in Tokens \ {op.token} : records'[u] = records[u]
        /\ \A u \in Tokens : records'[u].items = records[u].items
        /\ records[op.token].state = "applying"
        /\ records'[op.token].state \in {"failed", "preview"}
        /\ records'[op.token].state = "preview" => Tentative(op.token)
    BY <1>1, <2>1 DEF Inv, Shape, RecordFields, Orders, InHand, Held, Tentative
  <2>3. Standing' /\ PagesListed'
    BY <1>1, <1>2, <2>1, <2>2 DEF Reach, Standing, PagesListed, Unfinished
  <2>4. \A n : n \in Purged => n \in Purged'
    <3>1. \A u \in Tokens : /\ records[u].state = "complete" => records'[u] = records[u]
                            /\ records[u].state = "abandoned" => records'[u] = records[u]
      BY <2>2
    <3> QED
      BY <3>1, PurgedGrows
  <2>5. \A id : Leftover(id) => Leftover(id)'
    BY <1>1, <2>2, OffersLast
  <2>6. \A id : Promised(id) => Promised(id)'
    BY <1>3, <2>1, <2>2 DEF Promised, Unfinished, Listed
  <2> QED
    BY <1>1, <1>3, <2>1, <2>3, <2>4, <2>5, <2>6, ListReaches
<1>9. CASE Crash
  <2>1. UNCHANGED records /\ op' = Idle
    BY <1>9 DEF Crash
  <2> QED
    BY <1>1, <1>3, <2>1, OpReaches
<1> QED
  BY <1>4, <1>5, <1>6, <1>7, <1>8, <1>9

\* The transaction: what loses its row is promised by the list it stands on, or,
\* when the answer is lost, is as whole as it was.
LEMMA CommittingReaches ==
    ASSUME Inv, Orders, Reach, Commit \/ CommitFails
    PROVE  Reach'
<1>1. /\ UNCHANGED <<files, records>> /\ op.pc = "commit" /\ op.token \in Tokens
      /\ records[op.token].state = "applying"
  BY DEF Commit, CommitFails, RowsDeleted, world, Inv, Shape, Orders, InHand, Held
<1>2. \/ /\ note' = [n \in Notes |-> IF n \in Listed(op.token) THEN NoRow ELSE note[n]]
         /\ sources' = sources \ Listed(op.token)
      \/ CommitFails /\ UNCHANGED <<note, sources>>
  BY DEF Commit, CommitFails, RowsDeleted, world
<1>3. /\ \A n \in Notes : \/ note'[n] = note[n]
                          \/ n \in Listed(op.token) /\ note'[n].state = "none"
      /\ DOMAIN note' = DOMAIN note /\ \A n \in Notes : DOMAIN note'[n] = {"state", "ver", "gen"}
      /\ sources' \subseteq sources /\ sources \ sources' \subseteq Listed(op.token)
      /\ Commit => \A n \in Notes : n \in Listed(op.token) => note'[n].state = "none"
  BY <1>2 DEF NoRow, Commit, CommitFails, RowsDeleted, Reach, Typed
<1>4. /\ op'.token = op.token /\ op'.resuming = op.resuming
      /\ \/ Commit /\ op'.pc = "unlink" /\ op'.committed /\ op'.left = records[op.token].items
         \/ CommitFails /\ op'.pc = "fail" /\ op'.committed = op.committed
  BY DEF Commit, CommitFails, Fails, Inv, Shape, OpFields
<1>5. \A t \in Tokens : Tentative(t)' => Tentative(t)
  BY <1>1, <1>4 DEF Tentative
<1>6. /\ Standing' /\ PagesListed' /\ Purged' = Purged
      /\ \A id : Leftover(id) => Leftover(id)'
      /\ \A id : Promised(id) => Promised(id)'
  BY <1>1, <1>5, PromisesLast
<1>7. \A id : Of(id)' = Of(id) /\ Generations(id)' = Generations(id) /\ (Intact(id)' <=> Intact(id))
  BY <1>1 DEF Of, Generations, Intact, Has
<1>8. Typed' /\ Receipted'
  BY <1>1, <1>3, <1>7 DEF Reach, Typed, Receipted
<1>9. Bare' /\ Emptied' /\ Deleting'
  BY <1>1, <1>3, <1>4 DEF Bare, Emptied, Deleting, Listed
<1>10. ASSUME NEW id, id \in Listed(op.token), ~Promised(id)'
       PROVE  CommitFails /\ ~op.resuming
  <2>1. PICK t \in Tokens : t = op.token
    BY <1>1
  <2>2. t \in Unfinished' /\ id \in Listed(t)'
    BY <1>1, <1>10, <2>1 DEF Unfinished, Listed
  <2>3. Tentative(t)'
    BY <1>10, <2>2 DEF Promised
  <2> QED
    BY <1>4, <2>3 DEF Tentative
<1>11. NotesInReach'
  <2> SUFFICES ASSUME NEW n \in Notes, ~Promised(n)', ~Leftover(n)' PROVE Known(n)'
    BY DEF NotesInReach
  <2>1. CASE note'[n] = note[n]
    BY <1>6, <1>7, <2>1 DEF Reach, NotesInReach, Known
  <2>2. CASE n \in Listed(op.token)
    <3>1. note[n].state \in {"none", "deleted"}
      BY <1>1, <1>10, <2>2 DEF Reach, Deleting
    <3>2. note[n].state = "none" => Generations(n) # {} \/ n \in Purged
      BY <1>6 DEF Reach, NotesInReach, Known
    <3> QED
      BY <1>6, <1>7, <3>1, <3>2 DEF Reach, Receipted, Known
  <2> QED
    BY <1>3, <2>1, <2>2
<1>12. SourcesInReach'
  <2> SUFFICES ASSUME NEW s \in Sources, s \notin sources', ~Promised(s)', ~Leftover(s)'
               PROVE  Of(s) = {} \/ Intact(s)
    BY <1>7 DEF SourcesInReach
  <2>1. CASE s \in sources
    BY <2>1 DEF Inv, RowMeansBundle
  <2>2. CASE s \notin sources
    BY <1>6, <2>2 DEF Reach, SourcesInReach
  <2> QED
    BY <2>1, <2>2
<1> QED
  BY <1>6, <1>8, <1>9, <1>11, <1>12 DEF Reach

\* A file goes only from what the list promises, and whoever is not listed keeps
\* what there is.
LEMMA UnlinkReaches ==
    ASSUME Inv, Orders, Reach, UnlinkFile
    PROVE  Reach'
<1> DEFINE there == {g \in files : SamePath(op.checked, g)}
<1>1. /\ op.pc = "unlink" /\ op.token \in Tokens /\ op.checked # NoFile
      /\ UNCHANGED <<records, note, sources>> /\ files' = files \ there
      /\ op' = [op EXCEPT !.files = @ \ {op.checked}, !.checked = NoFile]
  BY DEF UnlinkFile, Inv, Shape
<1>2. /\ op'.pc = "unlink" /\ op'.token = op.token /\ op'.committed = op.committed
      /\ op'.left = op.left /\ op'.files = op.files \ {op.checked}
  BY <1>1 DEF Inv, Shape, OpFields
<1>3. /\ op.committed /\ records[op.token].state = "applying"
      /\ Names(op.token, op.checked) /\ op.checked \in op.files
  BY <1>1 DEF Orders, InHand, Held
<1>4. op.checked[2] \in Listed(op.token)
  BY <1>1, <1>3 DEF Names, Listed, Inv, ListsAreOwn, Own
<1>5. \A id : id # op.checked[2] => Of(id)' = Of(id)
  BY <1>1 DEF Of, SamePath
<1>6. \A id : Of(id)' \subseteq Of(id)
  BY <1>1 DEF Of
<1>7. \A i : (Same(i) => Same(i)') /\ (Paged(i) => Paged(i)')
  BY <1>6 DEF Same, Paged
<1>8. Standing' /\ PagesListed'
  BY <1>1, <1>7 DEF Reach, Standing, PagesListed, Unfinished
<1>9. \A t \in Tokens : ~Tentative(t)'
  BY <1>2 DEF Tentative
<1>10. \A id : Promised(id) => Promised(id)'
  BY <1>1, <1>9 DEF Promised, Unfinished, Listed
<1>11. \A id : id = op.checked[2] => Promised(id)'
  <2>1. PICK t \in Tokens : t = op.token
    BY <1>1
  <2>2. t \in Unfinished' /\ op.checked[2] \in Listed(t)
    BY <1>1, <1>3, <1>4, <2>1 DEF Unfinished
  <2>3. Listed(t)' = Listed(t)
    BY <1>1 DEF Listed
  <2> QED
    BY <1>9, <2>2, <2>3 DEF Promised
<1>12. \A id : id # op.checked[2] /\ Leftover(id) => Leftover(id)'
  <2> SUFFICES ASSUME NEW id, id # op.checked[2], NEW t \in Tokens, NEW k \in records[t].items,
                      k.id = id, Offered(t, k)
               PROVE  Leftover(id)'
    BY DEF Leftover
  <2>1. Own(k) /\ Of(k.id)' = Of(k.id)
    BY <1>5 DEF Inv, ListsAreOwn
  <2>2. Offered(t, k)'
    BY <1>1, <2>1, ItemsLookHome DEF Offered
  <2> QED
    BY <1>1, <2>2 DEF Leftover
<1>13. \A id : id # op.checked[2] => Generations(id)' = Generations(id) /\ (Intact(id)' <=> Intact(id))
  BY <1>5, IdsLookHome
<1>14. Purged' = Purged
  BY <1>1 DEF Purged, Listed
<1>15. Typed'
  BY <1>1 DEF Reach, Typed
<1>16. Bare'
  BY <1>1, <1>2 DEF Reach, Bare, Listed
<1>17. Receipted'
  <2> SUFFICES ASSUME NEW n \in Notes, note[n].state = "deleted" PROVE Generations(n)' # {}
    BY <1>1 DEF Receipted
  <2>1. n # op.checked[2]
    BY <1>1, <1>4 DEF Reach, Bare
  <2> QED
    BY <1>13, <2>1 DEF Reach, Receipted
<1>18. Emptied'
  <2> SUFFICES ASSUME NEW i \in records[op.token].items \ op.left, NEW f \in i.files \ (op.files \ {op.checked}),
                      NEW g \in files', SamePath(f, g)
               PROVE  FALSE
    BY <1>1, <1>2 DEF Emptied
  <2>1. CASE f = op.checked
    BY <1>1, <2>1
  <2>2. CASE f \notin op.files
    BY <1>1, <2>2 DEF Reach, Emptied
  <2> QED
    BY <2>1, <2>2
<1>19. Deleting'
  BY <1>2 DEF Deleting
<1>20. NotesInReach'
  BY <1>1, <1>10, <1>11, <1>12, <1>13, <1>14 DEF Reach, NotesInReach, Known
<1>21. SourcesInReach'
  BY <1>1, <1>5, <1>10, <1>11, <1>12, <1>13 DEF Reach, SourcesInReach
<1> QED
  BY <1>8, <1>15, <1>16, <1>17, <1>18, <1>19, <1>20, <1>21 DEF Reach

\* The steps between two files.
LEMMA UnlinkingReaches ==
    ASSUME Inv, Orders, Reach, NextItem \/ CheckFile \/ UnlinkFails
    PROVE  Reach'
<1>1. UNCHANGED <<files, records, note, sources>> /\ op.pc = "unlink" /\ op.token \in Tokens /\ op.committed
  BY DEF NextItem, CheckFile, UnlinkFails, world, Inv, Shape, Orders, InHand
<1>2. op'.token = op.token /\ op'.committed /\ op'.pc \in {"unlink", "fail"}
  BY <1>1 DEF NextItem, CheckFile, UnlinkFails, Fails, Inv, Shape, OpFields
<1>3. Bare' /\ Deleting' /\ \A t \in Tokens : ~Tentative(t)'
  BY <1>1, <1>2 DEF Reach, Bare, Deleting, Tentative, Listed
<1>4. Emptied'
  <2>1. CASE NextItem
    <3>1. PICK i \in op.left : op' = [op EXCEPT !.left = @ \ {i}, !.files = i.files]
      BY <2>1 DEF NextItem
    <3>2. op'.left = op.left \ {i} /\ op'.files = i.files /\ op.files = {}
      BY <2>1, <3>1 DEF Inv, Shape, OpFields, NextItem
    <3> QED
      BY <1>1, <1>2, <3>2 DEF Reach, Emptied
  <2>2. CASE CheckFile
    <3>1. PICK f \in op.files : \/ op' = [op EXCEPT !.checked = f]
                                \/ op' = [op EXCEPT !.pc = "fail"]
                                \/ ~(\E g \in files : SamePath(f, g)) /\ op' = [op EXCEPT !.files = @ \ {f}]
      BY <2>2 DEF CheckFile, Fails
    <3>2. /\ op'.left = op.left
          /\ \/ op'.pc = "fail"
             \/ op'.files = op.files
             \/ ~(\E g \in files : SamePath(f, g)) /\ op'.files = op.files \ {f}
      BY <3>1 DEF Inv, Shape, OpFields
    <3> QED
      BY <1>1, <1>2, <3>2 DEF Reach, Emptied
  <2>3. CASE UnlinkFails
    <3>1. op'.pc = "fail"
      BY <2>3 DEF UnlinkFails, Fails, Inv, Shape, OpFields
    <3> QED
      BY <3>1 DEF Emptied
  <2> QED
    BY <2>1, <2>2, <2>3
<1> QED
  BY <1>1, <1>3, <1>4, OpReaches

\* A step between purges that leaves every file of another identity alone, and
\* every page, keeps what the lists say.
LEMMA ElsewhereReaches ==
    ASSUME Inv, Reach, UNCHANGED <<records, op>>, op = Idle, NEW n \in Notes, n \notin Pending,
           \A id : id # n => Of(id)' = Of(id),
           \A g \in files' \ files : g[2] = n /\ g[1] \in {"receipt", "observed"}
    PROVE  /\ Standing' /\ PagesListed' /\ Bare' /\ Emptied' /\ Deleting' /\ Purged' = Purged
           /\ \A id : Promised(id) => Promised(id)'
           /\ \A id : id # n => (Leftover(id) => Leftover(id)')
<1>1. \A t \in Tokens : \A i \in records[t].items : Own(i)
  BY DEF Inv, ListsAreOwn
<1>2. \A k : Own(k) /\ k.id # n => (Same(k)' <=> Same(k)) /\ (Paged(k)' <=> Paged(k)) /\ Left(k)' = Left(k)
  BY ItemsLookHome
<1>3. Standing'
  <2> SUFFICES ASSUME NEW t \in Unfinished, NEW i \in records[t].items PROVE Same(i)'
    BY DEF Standing, Unfinished
  <2>1. i.id # n
    BY DEF Pending, Listed
  <2>2. Own(i) /\ Same(i)
    BY <1>1 DEF Reach, Standing, Unfinished
  <2> QED
    BY <1>2, <2>1, <2>2
<1>4. PagesListed'
  <2> SUFFICES ASSUME NEW t \in Tokens, NEW i \in records[t].items PROVE Paged(i)'
    BY DEF PagesListed
  <2>1. Paged(i)
    BY DEF Reach, PagesListed
  <2> QED
    BY <2>1 DEF Paged, Of
<1>5. Bare' /\ Emptied' /\ Deleting'
  BY DEF Bare, Emptied, Deleting, Idle
<1>6. Purged' = Purged
  BY DEF Purged, Listed
<1>7. \A id : Promised(id) => Promised(id)'
  BY DEF Promised, Unfinished, Listed, Tentative
<1>8. ASSUME NEW id, id # n, NEW t \in Tokens, NEW k \in records[t].items, k.id = id, Offered(t, k)
      PROVE  Leftover(id)'
  <2>1. Offered(t, k)'
    BY <1>1, <1>2, <1>8 DEF Offered
  <2> QED
    BY <1>8, <2>1 DEF Leftover
<1> QED
  BY <1>3, <1>4, <1>5, <1>6, <1>7, <1>8 DEF Leftover

\* What a note's row says after the reconciler or the recovery has been there.
LEMMA RowAfter ==
    ASSUME Reach, NEW n \in Notes, Returns(n) \/ Misses(n) \/ RecoverRow(n) \/ Adopt(n)
    PROVE  /\ DOMAIN note' = DOMAIN note /\ DOMAIN note'[n] = {"state", "ver", "gen"}
           /\ \A m \in Notes \ {n} : note'[m] = note[m]
           /\ note'[n].state \in {"ok", "missing", "deleted"}
           /\ note'[n].state = "deleted" => Generations(n)' # {}
<1>1. n \in DOMAIN note /\ DOMAIN note[n] = {"state", "ver", "gen"}
  BY DEF Reach, Typed
<1>2. CASE Returns(n) \/ Adopt(n)
  <2>1. note' = [note EXCEPT ![n] = [state |-> "ok", ver |-> clock', gen |-> clock']]
    BY <1>2 DEF Returns, Adopt
  <2>2. DOMAIN note' = DOMAIN note /\ note'[n] = [state |-> "ok", ver |-> clock', gen |-> clock']
        /\ \A m \in Notes \ {n} : note'[m] = note[m]
    BY <1>1, <2>1
  <2> QED
    BY <2>2
<1>3. CASE Misses(n)
  <2>1. PICK state \in {"missing", "deleted"} : note' = [note EXCEPT ![n].state = state, ![n].ver = clock']
    BY <1>3 DEF Misses
  <2>2. /\ DOMAIN note' = DOMAIN note /\ \A m \in Notes \ {n} : note'[m] = note[m]
        /\ DOMAIN note'[n] = DOMAIN note[n] /\ note'[n].state = state
    <3> DEFINE mid == [note EXCEPT ![n].state = state]
    <3>1. /\ DOMAIN mid = DOMAIN note /\ \A m \in Notes \ {n} : mid[m] = note[m]
          /\ DOMAIN mid[n] = DOMAIN note[n] /\ mid[n].state = state
      BY <1>1
    <3>2. note' = [mid EXCEPT ![n].ver = clock']
      BY <2>1
    <3> HIDE DEF mid
    <3> QED
      BY <1>1, <3>1, <3>2
  <2>3. DOMAIN note'[n] = {"state", "ver", "gen"} /\ note'[n].state = state
    BY <1>1, <2>2
  <2>4. state = "deleted" => <<"receipt", n, note[n].gen>> \in Of(n)'
    BY <1>3, <2>3 DEF Misses, Of
  <2>5. state = "deleted" => Generations(n)' # {}
    BY <2>4 DEF Generations
  <2> QED
    BY <2>2, <2>3, <2>5
<1>4. CASE RecoverRow(n)
  <2>1. /\ Generations(n)' # {}
        /\ \/ note' = [note EXCEPT ![n] = [state |-> "deleted", ver |-> clock', gen |-> Newest(n)]]
           \/ \E g : note' = [note EXCEPT ![n] = [state |-> "missing", ver |-> clock', gen |-> g]]
    BY <1>4 DEF RecoverRow, Generations, Of
  <2>2. CASE note' = [note EXCEPT ![n] = [state |-> "deleted", ver |-> clock', gen |-> Newest(n)]]
    BY <1>1, <2>1, <2>2
  <2>3. ASSUME NEW g, note' = [note EXCEPT ![n] = [state |-> "missing", ver |-> clock', gen |-> g]]
        PROVE  /\ DOMAIN note' = DOMAIN note /\ DOMAIN note'[n] = {"state", "ver", "gen"}
               /\ \A m \in Notes \ {n} : note'[m] = note[m]
               /\ note'[n].state = "missing"
    BY <1>1, <2>3
  <2> QED
    BY <2>1, <2>2, <2>3
<1> QED
  BY <1>2, <1>3, <1>4

\* The reconciler and the recovery give a note its row again, and change the
\* files of a note only that no unfinished purge lists.
LEMMA StoreReaches ==
    ASSUME Inv, Orders, Reach, NEW n \in Notes, Returns(n) \/ Misses(n) \/ RecoverRow(n) \/ Adopt(n)
    PROVE  Reach'
<1>1. UNCHANGED <<records, op, sources>> /\ op = Idle
  BY DEF Returns, Misses, RecoverRow, Adopt, rest
<1>2. \/ UNCHANGED files
      \/ n \notin Pending /\ files' = (files \ Observed(n)) \cup {<<"observed", n, clock'>>}
      \/ n \notin Pending /\ files' = files \cup {<<"receipt", n, note[n].gen>>}
  BY DEF Returns, Misses, RecoverRow, Adopt
<1>3. /\ \A id : id # n => Of(id)' = Of(id)
      /\ \A g \in files' \ files : g[2] = n /\ g[1] \in {"receipt", "observed"}
  BY <1>2 DEF Of, Observed
<1>4. /\ Standing' /\ PagesListed' /\ Bare' /\ Emptied' /\ Deleting' /\ Purged' = Purged
      /\ \A id : Promised(id) => Promised(id)'
      /\ \A id : id # n => (Leftover(id) => Leftover(id)')
  <2>1. CASE UNCHANGED files
    <3>1. \A t \in Tokens : Tentative(t)' => Tentative(t)
      BY <1>1 DEF Tentative
    <3>2. Bare' /\ Emptied' /\ Deleting'
      BY <1>1 DEF Bare, Emptied, Deleting, Idle
    <3> QED
      BY <1>1, <2>1, <3>1, <3>2, PromisesLast
  <2>2. CASE n \notin Pending
    BY <1>1, <1>3, <2>2, ElsewhereReaches
  <2> QED
    BY <1>2, <2>1, <2>2
<1>5. /\ DOMAIN note' = DOMAIN note /\ DOMAIN note'[n] = {"state", "ver", "gen"}
      /\ \A m \in Notes \ {n} : note'[m] = note[m]
      /\ note'[n].state \in {"ok", "missing", "deleted"}
      /\ note'[n].state = "deleted" => Generations(n)' # {}
  BY RowAfter
<1>6. \A id : id # n => Generations(id)' = Generations(id) /\ (Intact(id)' <=> Intact(id))
  BY <1>3, IdsLookHome
<1>7. Typed'
  BY <1>1, <1>3, <1>5 DEF Reach, Typed
<1>8. Receipted'
  BY <1>5, <1>6 DEF Reach, Receipted
<1>9. NotesInReach'
  BY <1>4, <1>5, <1>6 DEF Reach, NotesInReach, Known
<1>10. SourcesInReach'
  <2>1. \A s \in Sources : s # n
    BY PurgeConstants
  <2> QED
    BY <1>1, <1>3, <1>4, <1>6, <2>1 DEF Reach, SourcesInReach
<1> QED
  BY <1>4, <1>7, <1>8, <1>9, <1>10 DEF Reach

\* The recovery of sources gives rows and takes none.
LEMMA RecoveryReaches ==
    ASSUME Inv, Orders, Reach, RecoverSources
    PROVE  Reach'
<1>1. UNCHANGED <<records, op, files>> /\ op = Idle /\ sources' = sources \cup Recoverable
  BY DEF RecoverSources, rest
<1>2. PICK back \in SUBSET Notes : note' = [n \in Notes |-> IF n \in back
                                     THEN [state |-> "ok", ver |-> clock', gen |-> clock'] ELSE note[n]]
  <2>1. {n \in vault : note[n].state = "none" /\ Cites[n] \subseteq Recoverable} \in SUBSET Notes
    BY DEF Orders, Filed
  <2> QED
    BY <2>1 DEF RecoverSources
<1>3. /\ DOMAIN note' = Notes /\ \A n \in Notes : DOMAIN note'[n] = {"state", "ver", "gen"}
      /\ \A n \in Notes : note'[n] = note[n] \/ note'[n].state = "ok"
  BY <1>2 DEF Reach, Typed
<1>4. Bare' /\ Emptied' /\ Deleting' /\ \A t \in Tokens : Tentative(t)' => Tentative(t)
  BY <1>1 DEF Bare, Emptied, Deleting, Tentative, Idle
<1>5. /\ Standing' /\ PagesListed' /\ Purged' = Purged
      /\ \A id : Leftover(id) => Leftover(id)'
      /\ \A id : Promised(id) => Promised(id)'
  BY <1>1, <1>4, PromisesLast
<1>6. \A id : Of(id)' = Of(id) /\ Generations(id)' = Generations(id) /\ (Intact(id)' <=> Intact(id))
  BY <1>1 DEF Of, Generations, Intact, Has
<1>7. sources' \subseteq Sources
  BY <1>1 DEF Reach, Typed, Recoverable
<1>8. Typed' /\ Receipted'
  BY <1>1, <1>3, <1>6, <1>7 DEF Reach, Typed, Receipted
<1>9. NotesInReach'
  BY <1>3, <1>5, <1>6 DEF Reach, NotesInReach, Known
<1>10. SourcesInReach'
  BY <1>1, <1>5, <1>6 DEF Reach, SourcesInReach
<1> QED
  BY <1>4, <1>5, <1>8, <1>9, <1>10 DEF Reach

\* A device that edits a page leaves a page to be listed; one that deletes it
\* leaves what else lies there to be offered.
LEMMA PageReaches ==
    ASSUME Inv, Orders, Reach, NEW s \in Sources, DeviceEditsPage(s)
    PROVE  Reach'
<1> DEFINE page == {f \in Of(s) : f[1] = "page"}
<1>1. /\ UNCHANGED <<records, op, note, sources>> /\ page # {}
      /\ \/ files' = (files \ page) \cup {<<"page", s, clock'>>} /\ clock' = clock + 1
         \/ files' = files \ page
  BY DEF DeviceEditsPage, rest, Fresh, Has, Of
<1>2. PICK old \in files : old \in page /\ old[1] = "page" /\ old[2] = s /\ old[3] \in 1..clock
  BY <1>1 DEF Of, Orders, Filed
<1>3. clock' = clock + 1 => clock' # 1
  BY <1>2 DEF Orders, Filed
<1>4. \A id : id # s => Of(id)' = Of(id)
  BY <1>1 DEF Of
<1>5. /\ \A g : g[1] # "page" => (g \in Of(s)' <=> g \in Of(s))
      /\ \A g : g \in Of(s)' /\ g[1] = "page" => g = <<"page", s, clock'>> /\ clock' = clock + 1
  BY <1>1 DEF Of
<1>6. ASSUME NEW i, Own(i) PROVE (Same(i) => Same(i)') /\ (Paged(i) => Paged(i)')
  <2>1. CASE i.id # s
    BY <1>4, <1>6, <2>1, ItemsLookHome
  <2>2. CASE i.id = s
    <3>1. Same(i) => Same(i)'
      BY <1>5, <2>2 DEF Same
    <3>2. ASSUME Paged(i), NEW g \in Of(s)', g[1] = "page"
          PROVE  /\ \E f \in i.files : SamePath(f, g)
                 /\ g[3] # 1
      <4>1. g = <<"page", s, clock'>> /\ clock' # 1
        BY <1>3, <1>5, <3>2
      <4>2. PICK f \in i.files : SamePath(f, old)
        BY <1>2, <2>2, <3>2 DEF Paged, Of
      <4> QED
        BY <1>2, <4>1, <4>2 DEF SamePath
    <3> QED
      BY <2>2, <3>1, <3>2 DEF Paged
  <2> QED
    BY <2>1, <2>2
<1>7. \A t \in Tokens : \A i \in records[t].items : Own(i)
  BY DEF Inv, ListsAreOwn
<1>8. Standing' /\ PagesListed'
  BY <1>1, <1>6, <1>7 DEF Reach, Standing, PagesListed, Unfinished
<1>9. \A id : Promised(id) => Promised(id)'
  BY <1>1 DEF Promised, Unfinished, Listed, Tentative
<1>10. Purged' = Purged
  BY <1>1 DEF Purged, Listed
<1>11. Typed'
  BY <1>1 DEF Reach, Typed
<1>12. \A id : id # s => Generations(id)' = Generations(id) /\ (Intact(id)' <=> Intact(id))
  BY <1>4, IdsLookHome
<1>13. Intact(s) => Intact(s)'
  BY <1>1 DEF Intact, Has, Of
<1>14. \A n \in Notes : n # s
  BY PurgeConstants
<1>15. Receipted'
  BY <1>1, <1>12, <1>14 DEF Reach, Receipted
<1>16. Bare'
  BY <1>1 DEF Reach, Bare, Listed
<1>17. Deleting'
  BY <1>1 DEF Reach, Deleting, Listed
<1>18. Emptied'
  <2> SUFFICES ASSUME op.pc = "unlink", NEW i \in records[op.token].items \ op.left,
                      NEW f \in i.files \ op.files, NEW g \in files', SamePath(f, g)
               PROVE  FALSE
    BY <1>1 DEF Emptied
  <2>1. \A h \in files : ~SamePath(f, h)
    BY DEF Reach, Emptied
  <2>2. g = <<"page", s, clock'>>
    BY <1>1, <2>1
  <2> QED
    BY <1>2, <2>1, <2>2 DEF SamePath
<1>19. ASSUME NEW id, NEW t \in Tokens, NEW k \in records[t].items, k.id = id, Offered(t, k),
              ~Leftover(id)'
       PROVE  id = s /\ Of(s)' = {}
  <2>1. Own(k) /\ Same(k)' /\ Paged(k)'
    BY <1>6, <1>7, <1>19 DEF Offered, Reach, PagesListed
  <2>2. Left(k).files' = {}
    <3>1. ~Offered(t, k)'
      BY <1>1, <1>19 DEF Leftover
    <3>2. Left(k)'.files = {}
      BY <1>1, <1>19, <2>1, <3>1 DEF Offered
    <3> QED
      BY <3>2
  <2>3. id = s
    BY <1>4, <1>19, <2>1, <2>2, ItemsLookHome DEF Offered
  <2>4. Of(s)' = {}
    <3> SUFFICES ASSUME NEW g \in Of(s)' PROVE FALSE
      OBVIOUS
    <3>1. g[1] \in {"manifest", "data", "page"} /\ g \in files'
      BY <1>11, <1>14 DEF Typed, Of
    <3>2. PICK f \in k.files : SamePath(f, g)
      BY <1>19, <2>1, <2>3, <3>1 DEF Same, Paged
    <3>3. f \in Left(k).files'
      BY <2>1, <3>1, <3>2 DEF Left, Own
    <3> QED
      BY <2>2, <3>3
  <2> QED
    BY <2>3, <2>4
<1>20. NotesInReach'
  BY <1>1, <1>9, <1>10, <1>12, <1>14, <1>19 DEF Reach, NotesInReach, Known, Leftover
<1>21. SourcesInReach'
  <2> SUFFICES ASSUME NEW c \in Sources, c \notin sources, Of(c)' # {}, ~Intact(c)', ~Promised(c)', ~Leftover(c)'
               PROVE  FALSE
    BY <1>1 DEF SourcesInReach
  <2>1. ~Promised(c) /\ ~Intact(c)
    BY <1>9, <1>12, <1>13
  <2>2. Of(c) # {}
    BY <1>2, <1>4 DEF Of
  <2>3. Leftover(c)
    BY <2>1, <2>2 DEF Reach, SourcesInReach
  <2> QED
    BY <1>19, <2>3 DEF Leftover
<1> QED
  BY <1>8, <1>11, <1>15, <1>16, <1>17, <1>18, <1>20, <1>21 DEF Reach

\* What ages, and the notes that devices bring and take, are nowhere in it.
LEMMA NothingReaches ==
    ASSUME Reach, UNCHANGED <<files, records, note, sources, op>>
    PROVE  Reach'
<1>1. \A t \in Tokens : Tentative(t)' => Tentative(t)
  BY DEF Tentative
<1>2. Bare' /\ Emptied' /\ Deleting'
  BY DEF Reach, Bare, Emptied, Deleting, Listed
<1> QED
  BY <1>1, <1>2, OpReaches

LEMMA ReachHolds == Spec => [](Inv /\ Orders /\ Reach)
<1>1. Init => Inv /\ Orders /\ Reach
  BY InitEstablishes, InitOrders, InitReaches
<1>2. Inv /\ Orders /\ Reach /\ [Next]_vars => Reach'
  <2> SUFFICES ASSUME Inv, Orders, Reach, [Next]_vars PROVE Reach'
    OBVIOUS
  <2>1. CASE UNCHANGED vars
    BY <2>1, NothingReaches DEF vars
  <2>2. CASE \E t \in Tokens : Preview(t) \/ Confirm(t) \/ Abandon(t)
    BY <2>2, PreviewReaches, ConfirmReaches, AbandonReaches
  <2>3. CASE Purging
    BY <2>3, FramingReaches, CommittingReaches, UnlinkReaches, UnlinkingReaches DEF Purging
  <2>4. CASE RecoverSources
    BY <2>4, RecoveryReaches
  <2>5. CASE \E n \in Notes : Returns(n) \/ Misses(n) \/ RecoverRow(n) \/ Adopt(n)
    BY <2>5, StoreReaches
  <2>6. CASE \E n \in Notes : Ages(n) \/ DeviceReturns(n) \/ DeviceDeletes(n)
    BY <2>6, NothingReaches DEF Ages, DeviceReturns, DeviceDeletes, rest
  <2>7. CASE \E s \in Sources : DeviceEditsPage(s)
    BY <2>7, PageReaches
  <2> QED
    BY <2>1, <2>2, <2>3, <2>4, <2>5, <2>6, <2>7 DEF Next
<1> QED
  BY <1>1, <1>2, PurgesInductive, OrdersHold, PTL DEF Spec

\* What a list still offers is a candidate of the next preview, if nobody has
\* changed or used it since.
LEMMA OfferedIsCandidate ==
    ASSUME Inv, Reach, NEW id, Free(id), Leftover(id),
           \A f \in Of(id) : f[1] = "page" => f[3] = 1
    PROVE  \E i \in Candidates : i.id = id
<1>1. PICK t \in Tokens : \E k \in records[t].items : k.id = id /\ Offered(t, k)
  BY DEF Leftover
<1>2. PICK k \in records[t].items : k.id = id /\ Offered(t, k)
  BY <1>1
<1>3. Own(k) /\ Same(k) /\ Paged(k) /\ records[t].state = "abandoned" /\ k.id \in records[t].remaining
  BY <1>2 DEF Inv, ListsAreOwn, Reach, PagesListed, Offered
<1>4. Left(k).id = id /\ Left(k).files = {f \in k.files : \E g \in files : SamePath(f, g)}
  BY <1>2, <1>3 DEF Left, Own
<1>5. Unchanged(Left(k))
  <2> SUFFICES ASSUME NEW g \in Of(id)
               PROVE  /\ \A f \in k.files : SamePath(f, g) => g = f
                      /\ g[1] \in {"receipt", "manifest", "data"} => \E f \in Left(k).files : SamePath(f, g)
    BY <1>4 DEF Unchanged
  <2>1. \A f \in k.files : SamePath(f, g) => g = f
    BY <1>2, <1>3 DEF Same, Paged
  <2>2. g[1] \in {"receipt", "manifest", "data"} => \E f \in k.files : SamePath(f, g)
    BY <1>2, <1>3 DEF Same
  <2> QED
    BY <1>4, <2>1, <2>2 DEF Of
<1>6. Left(k) \in Leftovers
  <2> DEFINE kept(u) == {j \in records[u].items : j.id \in records[u].remaining}
             all == UNION {kept(u) : u \in {v \in Tokens : records[v].state = "abandoned"}}
  <2>1. k \in kept(t)
    BY <1>3
  <2>2. k \in all
    BY <1>3, <2>1
  <2>3. Left(k).files # {} /\ Free(Left(k).id)
    BY <1>2, <1>4 DEF Offered
  <2>4. \A i : i \in Leftovers <=> (\E j \in all : i = Left(j)) /\ i.files # {} /\ Free(i.id) /\ Unchanged(i)
    BY DEF Leftovers
  <2> HIDE DEF all
  <2> QED
    BY <1>5, <2>2, <2>3, <2>4
<1>7. \E i \in Residuals : i.id = id
  <2>1. (CHOOSE i \in Leftovers : i.id = id).id = id
    BY <1>4, <1>6
  <2> QED
    BY <1>4, <1>6, <2>1 DEF Residuals
<1> QED
  BY <1>7 DEF Candidates

\* What an interrupted purge left of a source is never out of reach, for any
\* notes, sources, lists and devices: abandoning takes stock by what still lies
\* there (purge.py, abandon), so that what is left is offered again; what is
\* whole is recovered.
THEOREM NothingIsStranded == Spec => []NothingStranded
<1>1. Inv /\ Reach => NothingStranded
  <2> SUFFICES ASSUME Inv, Reach, op = Idle, Unfinished = {}, NEW s \in Sources \ sources,
                      Of(s) # {}, \A f \in Of(s) : f[1] = "page" => f[3] = 1, Free(s),
                      ~ \E i \in Candidates : i.id = s
               PROVE  /\ Intact(s)
                      /\ \/ note[Opening[s]].state = "deleted"
                         \/ Generations(Opening[s]) # {} \/ Opening[s] \in Purged
                         \/ \E i \in Candidates : i.id = Opening[s]
    BY DEF NothingStranded
  <2> DEFINE n == Opening[s]
  <2>1. \A id : ~Promised(id)
    BY DEF Promised
  <2>2. Intact(s)
    BY <2>1, OfferedIsCandidate DEF Reach, SourcesInReach
  <2>3. n \in Notes /\ n \notin vault /\ note[n].state \in {"none", "deleted"}
    BY PurgeConstants DEF Free
  <2>4. note[n].state = "none" => Free(n) /\ \A f \in Of(n) : f[1] # "page"
    BY <2>3, PurgeConstants DEF Free, Reach, Typed, Of
  <2>5. Leftover(n) /\ note[n].state = "none" => \E i \in Candidates : i.id = n
    BY <2>4, OfferedIsCandidate
  <2>6. Known(n) \/ Leftover(n)
    BY <2>1, <2>3 DEF Reach, NotesInReach
  <2> QED
    BY <2>2, <2>3, <2>5, <2>6 DEF Known
<1> QED
  BY <1>1, ReachHolds, PTL
=============================================================================
