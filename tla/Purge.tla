------------------------------- MODULE Purge -------------------------------
(***************************************************************************)
(* purge.py: the retention purge of deleted notes and of the sources that  *)
(* nobody uses any more.  A preview lists them with the fingerprint of     *)
(* each row and the hash of each file; confirming that list deletes the    *)
(* rows in one transaction and then the files one by one; what was         *)
(* interrupted is resumed or abandoned.  A purge holds the maintenance     *)
(* gate, so no other part of the store moves while it works, but devices   *)
(* do, and the store may die between any two steps.  Between purges the    *)
(* reconciler and the recovery mirror again what they find.                *)
(*                                                                         *)
(* A file is <<kind, id, version>>: the recovery receipts of a deleted     *)
(* note, one per removal, its later observation, and of a source its       *)
(* manifest, its data (revisions and claim) and its generated page, which  *)
(* lies in the vault.                                                      *)
(*                                                                         *)
(* Left out: artifacts and dossiers, filing journals, empty directories,   *)
(* unreadable records, a change of the retention setting, the list of      *)
(* problems, ingest while a purge is unfinished, a deleted row whose       *)
(* removal Git no longer shows.                                            *)
(***************************************************************************)
EXTENDS Naturals, FiniteSets

CONSTANTS
    Notes, Sources,
    Opening,      \* the note a source was ingested with (manifest.note_id)
    Cites,        \* the sources a note's frontmatter names
    MaxTokens,    \* previews
    MaxVersions,  \* changes of a row or a page
    MaxDevices,   \* writes by devices
    MaxFaults     \* failures and crashes

ASSUME PurgeConstants ==
    /\ Notes \cap Sources = {}
    /\ Opening \in [Sources -> Notes]
    /\ Cites \in [Notes -> SUBSET Sources]
    /\ {MaxTokens, MaxVersions, MaxDevices, MaxFaults} \subseteq Nat

VARIABLES
    vault,    \* the notes whose file is in the vault
    note,     \* rows of the notes
    sources,  \* the sources that have a row
    aged,     \* deleted notes whose retention is over
    files,    \* what lies on disk, but for the notes themselves
    records,  \* purges/<token>.json
    op,       \* the purge under way
    clock, devices, faults,
    gone,     \* history: the files a purge has unlinked
    late      \* history: notes and pages a device changed when it was too late to see

vars == <<vault, note, sources, aged, files, records, op, clock, devices, faults, gone, late>>

Ids == Notes \cup Sources
Tokens == 1..MaxTokens
Versions == 1..MaxVersions
Kinds == {"receipt", "observed", "manifest", "data", "page"}
File == Kinds \X Ids \X Versions
Row == [state : {"none", "ok", "missing", "deleted"}, ver : 0..MaxVersions, gen : 0..MaxVersions]
Item == [id : Ids, row : 0..MaxVersions, files : SUBSET File]
NoFile == <<>>

Idle == [pc |-> "idle", token |-> 0, resuming |-> FALSE, committed |-> FALSE,
         left |-> {}, files |-> {}, checked |-> NoFile]
NoRow == [state |-> "none", ver |-> 0, gen |-> 0]
NoRecord == [state |-> "none", items |-> {}, completed |-> {}, remaining |-> {}]

TypeOK ==
    /\ vault \subseteq Notes /\ sources \subseteq Sources /\ aged \subseteq Notes
    /\ note \in [Notes -> Row]
    /\ files \subseteq File /\ gone \subseteq File /\ late \subseteq Ids
    /\ \A t \in Tokens :
          /\ records[t].state \in {"none", "removed", "preview", "applying", "failed", "complete", "abandoned"}
          /\ records[t].items \subseteq Item
          /\ records[t].completed \cup records[t].remaining \subseteq {i.id : i \in records[t].items}
    /\ op.pc \in {"idle", "tidy", "recheck", "commit", "unlink", "fail"}
    /\ op.pc # "idle" => op.token \in Tokens
    /\ op.left \subseteq Item /\ op.files \subseteq File /\ op.checked \in File \cup {NoFile}
    /\ clock \in Versions /\ devices \in 0..MaxDevices /\ faults \in 0..MaxFaults

Of(id) == {f \in files : f[2] = id}
Has(kind, id) == \E f \in files : f[1] = kind /\ f[2] = id
Generations(n) == {f[3] : f \in {g \in Of(n) : g[1] = "receipt"}}
Newest(n) == CHOOSE g \in Generations(n) : \A h \in Generations(n) : h <= g
Observed(n) == {f \in Of(n) : f[1] = "observed"}

\* A receipt is named after its removal; every other path has one file.
SamePath(f, g) == f[1] = g[1] /\ f[2] = g[2] /\ (f[1] = "receipt" => f[3] = g[3])

Unfinished == {t \in Tokens : records[t].state \in {"applying", "failed"}}
Listed(t) == {i.id : i \in records[t].items}
\* pending_ids
Pending == UNION {Listed(t) : t \in Unfinished}

\* Any note in the vault, and any row that is not deleted, protects what it cites.
Citing == vault \cup {n \in Notes : note[n].state \in {"ok", "missing"}}
InUse(s) == \E n \in Citing : s \in Cites[n]

\* Notes that a finished purge or an abandoned one has removed.
Purged ==
    (UNION {Listed(t) : t \in {u \in Tokens : records[u].state = "complete"}})
      \cup (UNION {records[t].completed : t \in {u \in Tokens : records[u].state = "abandoned"}})

\* Notes deleted at the start and live ones alike; every source complete.
Init ==
    /\ vault \in SUBSET Notes
    /\ note = [n \in Notes |-> [state |-> IF n \in vault THEN "ok" ELSE "deleted", ver |-> 1, gen |-> 1]]
    /\ sources = Sources /\ aged = Notes \ vault
    /\ files = ({"receipt"} \X (Notes \ vault) \X {1}) \cup ({"manifest", "data", "page"} \X Sources \X {1})
    /\ records = [t \in Tokens |-> NoRecord]
    /\ op = Idle
    /\ clock = 1 /\ devices = 0 /\ faults = 0
    /\ gone = {} /\ late = {}

-----------------------------------------------------------------------------
(* candidates *)

NoteItems ==
    {[id |-> n, row |-> note[n].ver, files |-> Of(n)] :
        n \in {m \in aged \ vault : note[m].state = "deleted"
                                      /\ (Generations(m) # {} => Newest(m) = note[m].gen)}}

Orphaned(s) ==
    /\ ~InUse(s) /\ Opening[s] \notin vault
    /\ \/ /\ Has("manifest", s)
          /\ \/ note[Opening[s]].state = "deleted"
             \/ note[Opening[s]].state = "none" /\ Opening[s] \in Purged
       \/ ~Has("manifest", s) /\ ~Has("data", s) /\ note[Opening[s]].state = "deleted"

SourceItems == {[id |-> s, row |-> 1, files |-> Of(s)] : s \in {r \in sources : Orphaned(r)}}

\* _verify_files: what is listed has the listed bytes, and the bundle and the
\* receipts hold nothing that is not listed.
Unchanged(item) ==
    \A g \in Of(item.id) :
        /\ \A f \in item.files : SamePath(f, g) => g = f
        /\ g[1] \in {"receipt", "manifest", "data"} => \E f \in item.files : SamePath(f, g)

\* What an abandoned purge has left of an item and nobody has changed or used since.
Left(item) == [item EXCEPT !.row = 0, !.files = {f \in @ : \E g \in files : SamePath(f, g)}]
Free(id) ==
    IF id \in Notes
      THEN note[id].state = "none" /\ id \notin vault
      ELSE id \notin sources /\ ~InUse(id) /\ Opening[id] \notin vault
             /\ note[Opening[id]].state \in {"none", "deleted"}
Leftovers ==
    {i \in {Left(j) : j \in UNION {{k \in records[t].items : k.id \in records[t].remaining} :
                                      t \in {u \in Tokens : records[u].state = "abandoned"}}} :
        i.files # {} /\ Free(i.id) /\ Unchanged(i)}
Residuals == {CHOOSE i \in Leftovers : i.id = id : id \in {j.id : j \in Leftovers}}

Candidates == NoteItems \cup SourceItems \cup Residuals

-----------------------------------------------------------------------------
(* preview, confirm, abandon *)

Fault == faults < MaxFaults /\ faults' = faults + 1
Save(t, state) == records' = [records EXCEPT ![t].state = state]
world == <<vault, note, sources, aged, files, clock, devices>>
past == <<gone, late>>

\* An unfinished purge is returned instead.  The old previews go afterwards.
Preview(t) ==
    /\ op = Idle /\ Unfinished = {}
    /\ records[t] = NoRecord /\ \A u \in Tokens : u < t => records[u] # NoRecord
    /\ records' = [records EXCEPT ![t] = [NoRecord EXCEPT !.state = "preview", !.items = Candidates]]
    /\ op' = [Idle EXCEPT !.pc = "tidy", !.token = t]
    /\ UNCHANGED <<world, faults, past>>

\* A token is used once: a removed preview leaves its name behind.
Tidy ==
    /\ op.pc = "tidy"
    /\ records' = [t \in Tokens |-> IF t # op.token /\ records[t].state = "preview"
                                      THEN [NoRecord EXCEPT !.state = "removed"] ELSE records[t]]
    /\ op' = Idle
    /\ UNCHANGED <<world, faults, past>>

\* _verify_resume
Resumable(t) ==
    \A i \in records[t].items :
        /\ i.id \in Notes => /\ i.id \notin vault /\ note[i.id].state \in {"none", "deleted"}
                             /\ note[i.id].state = "deleted" => note[i.id].ver = i.row
        /\ i.id \in Sources => /\ ~InUse(i.id) /\ Opening[i.id] \notin vault
                               /\ note[Opening[i.id]].state \in {"none", "deleted"}
                               /\ i.id \in sources => i.row = 1
        /\ Unchanged(i)

\* The saved list must still be the list, or a resumed one still be safe; the
\* record says applying before anything is removed.
Confirm(t) ==
    /\ op = Idle /\ Unfinished \subseteq {t}
    /\ \/ records[t].state = "preview" /\ records[t].items = Candidates
       \/ t \in Unfinished /\ Resumable(t)
    /\ op' = [Idle EXCEPT !.pc = "recheck", !.token = t, !.resuming = (t \in Unfinished)]
    /\ Save(t, "applying")
    /\ UNCHANGED <<world, faults, past>>

Fails == op' = [op EXCEPT !.pc = "fail"]

SafeUnchecked == TRUE

\* Nothing listed is back in the vault or cited there.
Safe ==
    \A i \in records[op.token].items :
        /\ i.id \in Notes => i.id \notin vault
        /\ i.id \in Sources => Opening[i.id] \notin vault /\ \A n \in vault : i.id \notin Cites[n]

Recheck ==
    /\ op.pc = "recheck"
    /\ IF Safe THEN op' = [op EXCEPT !.pc = "commit"] ELSE Fails
    /\ UNCHANGED <<world, faults, records, past>>

RowsDeleted ==
    /\ note' = [n \in Notes |-> IF n \in Listed(op.token) THEN NoRow ELSE note[n]]
    /\ sources' = sources \ Listed(op.token)
    /\ UNCHANGED <<vault, aged, files, clock, devices>>

CommitUnlinksFirst ==
    /\ op.pc = "commit"
    /\ op' = [op EXCEPT !.pc = "unlink", !.committed = TRUE, !.left = records[op.token].items]
    /\ UNCHANGED <<world, records, faults, past>>

Commit ==
    /\ op.pc = "commit"
    /\ RowsDeleted
    /\ op' = [op EXCEPT !.pc = "unlink", !.committed = TRUE, !.left = records[op.token].items]
    /\ UNCHANGED <<records, faults, past>>

\* The transaction is rolled back, or its commit is done and the answer lost.
CommitFails ==
    /\ op.pc = "commit"
    /\ Fault
    /\ Fails
    /\ RowsDeleted \/ UNCHANGED world
    /\ UNCHANGED <<records, past>>

\* Notes come first in the code; which order matters to nothing here.
NextItem ==
    /\ op.pc = "unlink" /\ op.files = {}
    /\ \E i \in op.left : op' = [op EXCEPT !.left = @ \ {i}, !.files = i.files]
    /\ UNCHANGED <<world, faults, records, past>>

\* The order of an item's files: sorted paths, then what was appended.
Rank(kind) == CASE kind \in {"receipt", "manifest"} -> 1 [] kind \in {"observed", "data"} -> 2 [] OTHER -> 3

CheckFile ==
    /\ op.pc = "unlink" /\ op.checked = NoFile
    /\ \E f \in op.files :
        /\ \A g \in op.files : Rank(f[1]) <= Rank(g[1])
        /\ \/ f \in files /\ op' = [op EXCEPT !.checked = f]
           \/ (\E g \in files : SamePath(f, g)) /\ f \notin files /\ Fails
           \/ ~(\E g \in files : SamePath(f, g)) /\ op' = [op EXCEPT !.files = @ \ {f}]
    /\ UNCHANGED <<world, faults, records, past>>

\* The hash was compared a moment ago; the unlink takes what is there now.
UnlinkFile ==
    /\ op.pc = "unlink" /\ op.checked # NoFile
    /\ LET there == {g \in files : SamePath(op.checked, g)}
       IN  /\ there # {}
           /\ files' = files \ there
           /\ gone' = gone \cup there
           /\ op' = [op EXCEPT !.files = @ \ {op.checked}, !.checked = NoFile]
    /\ UNCHANGED <<vault, note, sources, aged, clock, devices, faults, records, late>>

\* The unlink fails, or a device was first.
UnlinkFails ==
    /\ op.pc = "unlink" /\ op.checked # NoFile
    /\ \/ ~(\E g \in files : SamePath(op.checked, g)) /\ UNCHANGED faults
       \/ (\E g \in files : SamePath(op.checked, g)) /\ Fault
    /\ Fails
    /\ UNCHANGED <<world, records, past>>

Complete ==
    /\ op.pc = "unlink" /\ op.left = {} /\ op.files = {}
    /\ records' = [records EXCEPT ![op.token].state = "complete", ![op.token].completed = Listed(op.token)]
    /\ op' = Idle
    /\ UNCHANGED <<world, faults, past>>

CompleteFails ==
    /\ op.pc = "unlink" /\ op.left = {} /\ op.files = {}
    /\ Fault
    /\ Fails
    /\ UNCHANGED <<world, records, past>>

SaveFailureUnnamed ==
    /\ op.pc = "fail"
    /\ Save(op.token, IF op.committed THEN "committed" ELSE "preview")
    /\ op' = Idle
    /\ UNCHANGED <<world, faults, past>>

SaveFailureAsPreview ==
    /\ op.pc = "fail"
    /\ Save(op.token, IF op.resuming THEN "failed" ELSE "preview")
    /\ op' = Idle
    /\ UNCHANGED <<world, faults, past>>

\* If this cannot be saved either, the record says applying, as after a crash.
SaveFailure ==
    /\ op.pc = "fail"
    /\ Save(op.token, IF op.committed \/ op.resuming THEN "failed" ELSE "preview")
    /\ op' = Idle
    /\ UNCHANGED <<world, faults, past>>

AbandonByRows(t) ==
    /\ op = Idle /\ t \in Unfinished
    /\ LET held == {i.id : i \in {j \in records[t].items :
                       j.id \in sources \cup {n \in Notes : note[n].state # "none"}}}
       IN  records' = [records EXCEPT ![t].state = "abandoned",
                                      ![t].remaining = held, ![t].completed = Listed(t) \ held]
    /\ UNCHANGED <<world, faults, op, past>>

\* Nothing is retried: what still has a row or a listed file remains.
Abandon(t) ==
    /\ op = Idle /\ t \in Unfinished
    /\ LET held == {i.id : i \in {j \in records[t].items :
                       \/ j.id \in sources \cup {n \in Notes : note[n].state # "none"}
                       \/ Left(j).files # {}}}
       IN  records' = [records EXCEPT ![t].state = "abandoned",
                                      ![t].remaining = held, ![t].completed = Listed(t) \ held]
    /\ UNCHANGED <<world, faults, op, past>>

Crash ==
    /\ op # Idle
    /\ Fault
    /\ op' = Idle
    /\ UNCHANGED <<world, records, past>>

-----------------------------------------------------------------------------
(* The rest of the store between purges, and devices at any time *)

Fresh == clock < MaxVersions /\ clock' = clock + 1
rest == <<records, op, faults>>

\* A pass finds the file back.
Returns(n) ==
    /\ op = Idle /\ n \notin Pending /\ n \in vault
    /\ note[n].state \in {"missing", "deleted"}
    /\ Fresh
    /\ note' = [note EXCEPT ![n] = [state |-> "ok", ver |-> clock', gen |-> clock']]
    /\ files' = IF Generations(n) = {} THEN files
                  ELSE (files \ Observed(n)) \cup {<<"observed", n, clock'>>}
    /\ aged' = aged \ {n}
    /\ UNCHANGED <<vault, sources, devices, rest, past>>

\* A pass misses the file, without or with evidence of its removal in Git.
Misses(n) ==
    /\ op = Idle /\ n \notin Pending /\ n \notin vault
    /\ note[n].state \in {"ok", "missing"}
    /\ Fresh
    /\ \E state \in {"missing", "deleted"} \ {note[n].state} :
          note' = [note EXCEPT ![n].state = state, ![n].ver = clock']
    /\ files' = IF note'[n].state = "deleted" THEN files \cup {<<"receipt", n, note[n].gen>>} ELSE files
    /\ aged' = aged \ {n}
    /\ UNCHANGED <<vault, sources, devices, rest, past>>

\* recover_rows: an identity without a row comes back from its newest receipt,
\* or from what was observed of it later.
RecoverRow(n) ==
    /\ op = Idle /\ n \notin Pending
    /\ note[n].state = "none" /\ Generations(n) # {}
    /\ Fresh
    /\ LET later == {f[3] : f \in {g \in Observed(n) : g[3] > Newest(n)}}
       IN  note' = [note EXCEPT ![n] =
              IF later = {} THEN [state |-> "deleted", ver |-> clock', gen |-> Newest(n)]
              ELSE [state |-> "missing", ver |-> clock', gen |-> CHOOSE g \in later : TRUE]]
    /\ UNCHANGED <<vault, sources, aged, files, devices, rest, past>>

\* adopt_note: a file whose identity no row knows.  One that names sources is
\* refused, and recover_rows comes first where it may.
Adopt(n) ==
    /\ op = Idle /\ n \in vault
    /\ note[n].state = "none" /\ Cites[n] = {}
    /\ Generations(n) = {} \/ n \in Pending
    /\ Fresh
    /\ note' = [note EXCEPT ![n] = [state |-> "ok", ver |-> clock', gen |-> clock']]
    /\ aged' = aged \ {n}
    /\ UNCHANGED <<vault, sources, files, devices, rest, past>>

\* Sources whose manifest recover_sources reads.
Recoverable == {s \in Sources \ Pending : Has("manifest", s)}

\* A manifest whose revisions do not verify stops the recovery.
RecoverSources ==
    /\ op = Idle
    /\ \A s \in Recoverable : Has("data", s)
    /\ sources' = sources \cup Recoverable
    /\ LET back == {n \in vault : note[n].state = "none" /\ Cites[n] \subseteq Recoverable}
       IN  /\ sources' # sources \/ back # {}
           /\ IF back = {} THEN UNCHANGED clock ELSE Fresh
           /\ note' = [n \in Notes |-> IF n \in back THEN [state |-> "ok", ver |-> clock', gen |-> clock']
                                         ELSE note[n]]
           /\ aged' = aged \ back
    /\ UNCHANGED <<vault, files, devices, rest, past>>

Ages(n) ==
    /\ n \notin aged /\ note[n].state = "deleted"
    /\ aged' = aged \cup {n}
    /\ UNCHANGED <<vault, note, sources, files, clock, devices, rest, past>>

Device == devices < MaxDevices /\ devices' = devices + 1
Intact(s) == Has("manifest", s) /\ Has("data", s)

\* Too late is after the last look at the vault, or when a bundle is already broken.
TooLate(n) ==
    \E s \in Cites[n] :
        \/ ~Intact(s)
        \/ op.pc \in {"commit", "unlink"} /\ s \in Listed(op.token)

DeviceReturns(n) ==
    /\ Device
    /\ n \notin vault /\ vault' = vault \cup {n}
    /\ late' = IF TooLate(n) THEN late \cup {n} ELSE late
    /\ UNCHANGED <<note, sources, aged, files, clock, rest, gone>>

DeviceDeletes(n) ==
    /\ Device
    /\ n \in vault /\ vault' = vault \ {n}
    /\ late' = late \ {n}
    /\ UNCHANGED <<note, sources, aged, files, clock, rest, gone>>

\* A device edits the generated page of a source, or deletes it.
DeviceEditsPage(s) ==
    /\ Device
    /\ Has("page", s)
    /\ LET page == {f \in Of(s) : f[1] = "page"}
       IN  \/ Fresh /\ files' = (files \ page) \cup {<<"page", s, clock'>>}
           \/ UNCHANGED clock /\ files' = files \ page
    /\ late' = IF \E f \in File : op.checked = f /\ f[1] = "page" /\ f[2] = s
                 THEN late \cup {s} ELSE late
    /\ UNCHANGED <<vault, note, sources, aged, rest, gone>>

-----------------------------------------------------------------------------
Purging ==
    \/ Tidy \/ Recheck \/ Commit \/ CommitFails \/ NextItem \/ CheckFile \/ UnlinkFile \/ UnlinkFails
    \/ Complete \/ CompleteFails \/ SaveFailure \/ Crash

Next ==
    \/ \E t \in Tokens : Preview(t) \/ Confirm(t) \/ Abandon(t)
    \/ Purging \/ RecoverSources
    \/ \E n \in Notes : Returns(n) \/ Misses(n) \/ RecoverRow(n) \/ Adopt(n) \/ Ages(n)
                          \/ DeviceReturns(n) \/ DeviceDeletes(n)
    \/ \E s \in Sources : DeviceEditsPage(s)

Spec == Init /\ [][Next]_vars

-----------------------------------------------------------------------------
\* A source that a note in the vault cites keeps its manifest and its data,
\* whatever was previewed, interrupted and resumed before the note came back;
\* excused is only a note that came back after the last look, or too late.
KeepsWhatIsUsed == \A n \in vault \ late : \A s \in Cites[n] : Intact(s)

\* Every file a purge has unlinked stands, with the bytes it had, in a list that
\* somebody confirmed and that is kept as unfinished, finished or abandoned
\* evidence (purge.py:3-4), unless a device wrote between the hash and the unlink.
Authorised ==
    \A f \in gone :
        \/ f[2] \in late
        \/ \E t \in Tokens :
              /\ records[t].state \in {"applying", "failed", "complete", "abandoned"}
              /\ \E i \in records[t].items : f \in i.files

\* The mirror and the disk tell one story (purge.py:930-931): a source with a row
\* has its manifest and its data, at every step, after every crash, abandon and
\* recovery.
RowMeansBundle == \A s \in sources : Intact(s)

\* What an interrupted purge left of a source is never out of reach: once nothing
\* is unfinished, it is offered again, or it is whole, so that recovery gives it
\* its row back, and its opening note is known to be deleted or purged, or will
\* be; excused is a page a device has changed, which the purge must not touch.
NothingStranded ==
    op = Idle /\ Unfinished = {} =>
        \A s \in Sources \ sources :
            \/ Of(s) = {} \/ \E f \in Of(s) : f[1] = "page" /\ f[3] # 1
            \/ ~Free(s)
            \/ \E i \in Candidates : i.id = s
            \/ /\ Intact(s)
               /\ \/ note[Opening[s]].state = "deleted"
                  \/ Generations(Opening[s]) # {} \/ Opening[s] \in Purged
                  \/ \E i \in Candidates : i.id = Opening[s]
=============================================================================
