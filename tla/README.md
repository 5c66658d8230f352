# Coppermind: a verification project

TLA+ modules of Coppermind's store, its API's key check, its Git helper and its sync supervisor, the TLC
configurations that check them and TLAPS proofs of what matters most. Every definition is translated from
the source; `PROJECT.json` maps each one to the lines it stands for.

    cd tla
    tlc -workers 2 -config MCNoteWrites.cfg MCNoteWrites
    tlapm NoteWritesProofs.tla

## 1. The system

Coppermind keeps a person's notes as Markdown files in a vault that Obsidian Sync
replicates to their devices. One process, the **store**, is the only *service*
that writes the vault. Devices write it too, at any time and without any lock.
PostgreSQL holds one row per note, a mirror that can be rebuilt from the files.

| part | state | operations | talks to | modules |
|---|---|---|---|---|
| maintenance gate (`maintenance.py`) | `holders`, `owner`, `waiting`, a condition's queue | `shared()`, `exclusive()` | every writer, the purge | `MaintenanceGate`, `StoreLocks` |
| note writes (`notes.py`) | note files, note rows, per-note locks, identity index | create, replace, patch, move, rename, locate and repair | devices through the files, the reconciler through the rows | `NoteWrites` |
| reconciler, adoption (`reconciler.py`, `notes.py`) | what a pass has seen, what earlier passes remembered | a cheap pass per interval, a full rehash per day | devices, note writes, filing after each pass | `Reconciler` |
| source ingest (`sources.py`, `projections.py`, `recovery.py`) | claims, revision directories, manifests, pages, rows | ingest, replay, revise, clean up, recover | note writes, search | `Ingest` |
| filing (`filing.py`) | a journal per note, source manifests | review, file, publish | sources, note writes, dossiers | `Filing` |
| note history, restore (`note_history.py`), Git helper (`services/git`) | a repository, receipts of deleted notes | snapshot, refresh, seed, preview, restore | reconciler | `NoteHistory` |
| purge (`purge.py`) | a record per preview | preview, confirm, resume, abandon | everything, under the exclusive hold | `Purge` |
| artifacts (`artifacts.py`) | archive, browsable copies, records, rows | create, revise, sweep, retire, recover; migrate attachments | note writes, dropbox, Git's history | `Artifacts`, `Attachments` |
| enrichment jobs (`context_service.py`, `association_corrections.py`) | jobs, approvals, associations, corrections as JSON files | queue, run, approve, reject, retry, correct | note writes, model provider | `Enrichment` |
| connections (`context_service.py`, `context_config.py`) | configuration, credentials, discoveries, tests, schema | save, discover, test, assign, set up | provider, control state | `Connections` |
| note lifecycle (`note_lifecycle.py`) | review receipts, confirmation records, follow-ups | complete, finalize, follow, check and resolve calendars | jobs, filing, dossiers | `Reviews`, `Confirmations` |
| dropbox, calendar (`dropbox.py`, `calendar_*.py`) | items, receipts, archived originals, catalog, its mirror | scan, process, import, retry, dismiss; upgrade to one calendar | context service, artifacts | `Calendars`, `OneCalendar` |
| entities (`entities.py`) | the dossiers' catalog and their pages | refresh, change, merge, split, purge | reconciler, filing, purge, the owner's edits | `Dossiers`, `Identities` |
| search index (`indexer.py`) | entries, unreadable marks | write with a note or page, catch up, rebuild | every writer's transaction | `SearchIndex` |
| field index (`field_index.py`) and the listing that filters by it | generations of stored values, a receipt, a request | rows' trigger, refresh behind a barrier, pages bound to the schema | every row's transaction, the schema | `FieldIndex` |
| control state (`statefiles.py`, `control.py`, `keys.py`) | revisioned JSON files under `flock` | read, write if revision, bootstrap | store, admin, API | `ControlFiles` |
| API keys (`api/auth.py`) | a cache of the key records, of verified secrets | authenticate | the store's key records | `Access` |
| Obsidian Sync supervisor (`supervisor.mjs`) | a child process, a connection file, a restart timer | connect, disconnect, pause, resume, restart | the sync client | `SyncSupervisor` |
| API and admin services, routes, database models | none, sessions, derived rows | validate and forward | the store's internal API | not modelled |

What is hard here:

- **No common lock.** A device may write between any two system calls of the store.
- **Awaits.** The store is one asyncio process: a request reads, awaits, and writes
  what it read before the await. Locks are per note, per source, per subsystem, and
  nest with the gate.
- **Two stores of truth.** The file is written first and the row committed last, so a
  failure in between leaves the row behind its file.
- **Many small files.** An ingest, a filing, an approval, an import span several files
  with no transaction over them; a restart may come between any two.
- **A walk that is no snapshot.** A pass stats and reads files for seconds while they move.
- **Derived text that people edit.** A page the store generates is also where its owner
  corrects it, and the two must be told apart.
- **Others' clocks.** Key records age in a cache, a provider answers after the question
  has changed, Git records a deletion long after it happened.

What makes each part correct: nobody's bytes are lost; what was acknowledged is kept;
a row, a manifest, a link, an index entry says what is on disk, or comes to; a decision a
person has made is not undone by a program that read earlier; what is destroyed was
confirmed; everything begun ends. `PROJECT.json` lists the hazards at their lines, with
the properties that watch them.

## 2. The modules

| module | models | extends / uses |
|---|---|---|
| `ReadersWriter` | what the gate promises, abstractly | |
| `MaintenanceGate` | the gate as coded | refines `ReadersWriter` |
| `StoreLocks` | which handler takes which lock inside which | composes with `MaintenanceGate` |
| `NoteWrites` | the write protocol over files and rows | |
| `Reconciler` | the pass, adoption, writers, devices | |
| `Purge` | the retention purge and what the store does between purges | |
| `Ingest` | one external identity: claim, bundle, page, note, rows, recovery | |
| `Filing` | review, filing and publication beside ingest | extends `Ingest` |
| `Enrichment` | jobs, approvals, corrections of one note | |
| `Reviews` | completion of a review over the jobs, purge of their records | extends `Enrichment` |
| `Confirmations` | confirmation records, their follow-up by filing and calendars | |
| `Connections` | connections, credentials, tests, assignment, set-up | |
| `NoteHistory` | Git helper, deletion receipts, restore | |
| `Artifacts`, `Attachments` | artifacts and their copies; the migration of attachments | |
| `SearchIndex` | entries against writes, filing, catch-up, rebuild | |
| `FieldIndex` | the typed field index and filtered listings | |
| `Dossiers`, `Identities` | a dossier's page; who is who | |
| `ControlFiles`, `Access` | control files and bootstrap; the API's key cache | |
| `Calendars`, `OneCalendar` | intake and import; the upgrade of former calendars | |
| `SyncSupervisor` | the process that keeps the sync client running | |
| `*Proofs` | theorems of the module they are named after | TLAPS |
| `Services` | one instance each of `Access`, `FieldIndex`, `ControlFiles`, `Connections`, `Identities`, `Dossiers`, `Artifacts`, and what they promise | |
| `ServicesProofs` | their theorems | TLAPS |
| `MC*` | values and symmetry for TLC, compositions | |

A definition whose name is not the code's and which no other definition uses
(`RecheckBlind`, `LinkClobbers`, `RestoreLocksFirst`, ...) is a *mutant*: the definition
that follows it, changed the way a plausible bug would change it. `PROJECT.json`
pairs each property with the mutant that breaks it.

Most modules hold *history variables* that record what the code cannot be blamed for, or
what it is known to do and does not repair; a property names those it excuses. Each is
explained below, so that what a property does not say can be read.

`MCFiling` composes ingest, recovery, review and filing; `MCReviews` jobs, reviews and
purge. `MCParts` and `MCServices` hold components that share no state: one instance of
each, and a behaviour is a behaviour of the one `part` names. The others are "off": they
have one initial state and no step, so their fairness asks nothing, and the number of
states is the sum and not the product.

### MaintenanceGate

`holders`, `owner` and `waiting` are the fields of the class; `pc` is the
`asyncio.Condition`'s queue: who is asleep in `wait_for`, and who has been notified and
will test its predicate again. The condition's own lock is never held across a
suspension, so each body under it is one action. `CancelShared` and `CancelExclusive`
are the `CancelledError` that leaves `wait_for`. `MaxDepth` bounds nesting: the
code nests four deep at most (a rebuild, the pass in it, the pass under its lock, the
dossiers). Depth two is what the re-entrance test can tell from one; `StoreLocks` runs
the real nesting.

### StoreLocks

A handler is only its with-blocks, written as a sequence: `Hold(lock, body)` enters,
runs the body, leaves. An `asyncio.Lock` is its FIFO of tasks. An exception
(`Fail`) leaves every block the task is in. All notes are one note and all sources one
source, so that every two handlers that could meet do. The lock inside the identity
index is left out: nothing is awaited under it except the listing thread.
Cancellation of a waiting task is in `MaintenanceGate` and not repeated here.
Handlers are those that nest at least two locks, or hold one a nested handler needs.
`Lifecycle` is `ContextConfig.lifecycle_enabled`.

### NoteWrites

`files` is the vault: per path, the identity a file carries and a version; an ETag is
the file itself, for it hashes all bytes. `rows` are the committed rows. An operation
is a request; its `pc` moves from one await to the next, and within the uninterrupted
stretch between the last check and the rename only devices may act (`Turn`). `lock` is
`_locks`, `index` the identity index with its staleness, `Repair` the conditional row
update of a read that found the note elsewhere. Failures: `CreateRejected`, `UndoLink`,
`CommitFails`, `Interrupted`, `Crash`. A path stands for all its spellings by case.

`disturbed[o]` is set when a device changed one of o's paths after o's last check;
`strayed` holds the notes whose row a device, a failed commit or a crash may have put out
of step with the file (the accepted state of `notes.py:15-19`, which reconciliation
repairs), those a file without identity was taken for (`Anonymous`: `_bytes_at` accepts
it), and those whose file a move of another note took along (`Carried`: a move links
whatever lies at its path by then). An operation on a strayed note is `Doubtful`: what it
takes for its own file may be another's, so its writes disturb whoever is at work there
(`Spread`, `Near`) and the notes that claim the place stray too (`Misled`, `Claimed`).
`doubled`, a subset of `strayed`, are those a device or a crash may have given two names.
A note or an operation that is in none of these is promised everything.

In `MCNoteWrites` a behaviour is either requests one at a time against devices, or
requests against each other where the devices have written all they will; the second
half replaces, moves and renames only, for a patch is conditional like a replacement.

### Reconciler

A pass walks path by path: `List`, `Stat`, `Read`, each at a moment of its own; every
path is in a folder of its own, so that the order of visits is free. A version is
the bytes, the size and the mtime together; a row keeps the version hashed and the
version stat'ed apart, which is how it can vouch for bytes it never described. `locked`
content stands for every file that cannot be read: a mode, a symlink loop, not a
regular file. `settled` is the quiet period. Adoption is `adopt_note`
in four steps: the check before its first await, the last look at the file, the rename over
whatever is there by then, and the stat with the row's commit. Writers of the store wait from
the look to the stat, where the code does not await; devices do not. A writer is reduced to the moment its row's time is taken, its file
operations and its commit; `early` says that the time was taken before this pass began,
which is what `updated_at <= scan_started` compares. `late`, `touched`, `meddled`, `disturbed`
and `overtaken` record what happened during the pass; a note is `disturbed` by a device, or by the
writer of another note that takes back a name under which the note's file lies by then.

What the properties excuse: `Overlooked` is a file the pass may legitimately pass over,
although it names a note. A file that cannot be read at another note's recorded path is
taken for that note; a cheap pass trusts a stat, so it passes over a file whose stat is the
one another note's row vouches for, or the one remembered of a file that named nobody.
With one version per stat these need two notes and a swap of their files, which small
instances do not reach; the proofs do. `AtHome` is a note whose own readable file stood at its
recorded path during the pass, `Discernible` one a pass can tell from strangers.
`AdoptionLosesNothing` excuses a file `meddled` with: adoption compares and renames in two
system calls (`notes.py:1481`, `:1485`) and takes the stat in a third, and what a device
writes between the first two is renamed over. What it writes, moves or copies there before
the last look is seen, however long ago the walk was.
`Converges` excuses a file nobody can open and no row claims (`Undecided`): it counts as
deferred in every pass (`reconciler.py:854`), and no note is then called missing, against
the comment at `reconciler.py:987`.

Left out: excluded folders and patterns, receipts of deletions from Git history (they
are in `NoteHistory`), recorded rejections, notices, notes of an unfinished purge, work
after the pass.

### Purge

`records` are the files `purges/<token>.json` and `op` is the call under way: `tidy`
(the new preview is saved, the older ones are not yet removed), `recheck`, `commit` (the last
look at the vault is over), `unlink` (item by item, file by file; `checked` is the file
whose digest was compared and which is not yet unlinked) and `fail` (the `except` block).
A purge holds the gate, so the actions of the rest of the store require `op = Idle`;
devices and crashes do not. A file is `<<kind, id, version>>`: a note's receipts, one per
removal, and its later observation; a source's manifest, its data (revisions and claim)
and its generated page. A row is its state, a version that stands for the fingerprint
of all its columns, and the content it describes (`gen`), which a receipt must agree with.

Between purges: `Returns` and `Misses` are the reconciler's two findings, `RecoverRow`
and `RecoverSources` give rows back from what is on disk, `Adopt` takes a file nobody
knows. All but `Adopt` leave alone what an unfinished purge lists (`pending_ids`).

Faults: the transaction fails, or its commit is done and the answer lost (`CommitFails`);
an unlink fails; the last save fails; the store dies anywhere. `gone` is the history of
unlinked files. `late` are the notes and pages a device wrote when nobody looks any
more: after the last look at the vault, or between a digest and its unlink.

A commit whose outcome is unknown puts the record back to `preview` although the
rows may be gone (`purge.py:996`); that list cannot be abandoned then, and is refused
while the rows are missing. `RowMeansBundle` and `NothingStranded` show that nothing comes
of it: recovery gives the rows back, and a new preview lists them again.

Left out: artifacts and dossiers, filing journals, empty directories, unreadable records
and their quarantine, a change of the retention setting, the list of problems, ingest
while a purge is unfinished, a deleted row whose removal Git no longer shows. The walk of
`disk_references` over the vault is one step, so a file a device moves during it is seen at one of
its two places; in the code it may be missed at both, or seen twice.

### SyncSupervisor

`supervisor.mjs` is one Node process, so an action is what happens between two awaits.
`child`, `timer`, `paused`, `conn` and `syncing` are its variables `child`,
`restartTimer`, `status.paused`, `connection` and `status.syncing`. `ctl` is the control
that owns `controlBusy` and how far it is; beside it run the timer's `startSync`, the
exit events and the shutdown. `queue` is the chain of promises `writeQueue`: each
`publishStatus` appends whoever awaits it, and the head goes on when its write is done,
so writers of the status resume in the order in which they asked. `client` are the
processes: `dead` is a process whose exit event has not been delivered. `file` is
`connection.json`, `settings` the version of `settings.yaml`, `config` the version the
client's own configuration agrees with.

`stopChild` is a wait for the process it signalled (`wait`) that ends with its exit
event or with `StopTimesOut`, which kills it and waits no longer. A failed write of the
status ends what awaited it: for a report it makes the report unavailable, in
`reconcileConfig` it is a failed apply, in `startSync` a dropped start, in
`handleChildExit` an unhandled rejection, which ends the process (`Crash`).

History variables. `startSync` tests before it awaits a status write and not again
(`Starting` is a start between the two). `crossed`: a start passed its test (`Passes`) while
another one was there, the timer's and the control's; two clients can then run, of which the
supervisor knows one. `strayed`: a pause, a disconnect, the temporary pause of
`reconcileConfig` or a shutdown took back the leave to start (`TakesBack`) while a start was
there, which spawns all the same. A start that finds a client is in neither. `torn`, a change of the connection that could not be saved;
`failed`, whether the last `reconcileConfig` threw before or after it stopped the client.

Left out: credentials, the fields of the status that only describe, the growing delay of
restarts, `GET /status`, the simulator, a connection file that cannot be read.

### Ingest and Filing

One external identity; other identities appear as `Foreign` files. `claim`, `dirs`, `man`
and `page` are the files in the order in which `sources.py` writes them, `note` the opening
note, `row` the committed rows; `att` is the attempt that holds the identity's lock and
`rec` what a recovery has read. `Request` becomes a first ingest, a replay or a revision by
what it finds. `journal` is a note's filing receipt, `review` the revision a review
approved, `fil` the filing under way. Where either goes on without an await, the other
does not come between (`IngestRuns`, `FilingRuns`). A file created in place
(`create_exclusive_bytes`) may be left short by a crash: claim, artifacts and manifest are
then `Torn`; a page cut in its frontmatter is nobody's (`Foreign`), one cut later reads as a
page somebody edited (`Short`).

`hurt` names what the code does not mend, and each property says which of it it excuses:

- `crash`: a crash between claim, bundle, manifest and note leaves an identity that is
  claimed and refused, or a source without its note;
- `debris`, `stranded`: `rmtree(ignore_errors=True)` or the unlink of the claim fails in
  the cleanup of a failed attempt;
- `note`, `foreign`: a device deleted or copied the opening note, or was at a page;
- `late`: the cleanup of a failed first ingest unlinks its page by name, even when a device
  has replaced it; and the window between check and rename in `_replace_projection`;
- `overtaken`: recovery writes the revision it read although a revision was committed since
  (no property needs this excuse now: rows lag and never lead);
- `unrecorded`: a device's review is recorded by the reconciler with the revision current
  at its pass, not the one the person saw;
- `short`: the process died in `_copy` (`filing.py:106-111`, `DiesCopying`) and the page at
  the month's path is cut: every retry finds other bytes there than its own and gives up, and
  the note never files again;
- `outgrown`: filing failed between the copy (`filing.py:376`) and the save of the
  manifest, and a new revision came before the retry (`Supersede`): the copy differs from
  what is to be filed, with the same end.

`FailPage`: an error after the manifest leaves the former page behind until the next replay.

Left out: text of pages, extraction of parts, rejections, folder templates, several notes
in one filing pass, notices.

### Enrichment and Reviews

`jobs`, `assoc`, `fix` and `receipt` are files; `worker` and `hand` are what a restart
loses. A person's operation holds the context lock (`hand`); the worker works on copies
without it. `sent` counts requests to the provider since a person last asked. A job's `done`
is the decisions made of its suggestions; `pending` is an approval on disk that is not yet
recorded. `review` is how far a completion is, `receipt` what it resumes from. `Forget`
removes what the context keeps of a note that is purged.

`associations.json` is one file for all notes: `assoc` is this note's entry, `others` says
whether it still has another note's. A correction reads the whole file, awaits the write of
its note, and writes the whole file back (`hand.map`); the other note may be purged in
between (`ForgetOther`), for the write waits at the gate. `Dated` are the suggestions, job
by job, that change the note's day.

`strange` holds the excuses: `picked` and `judged`, jobs dismissed by a completed review
while the worker or an approval has them in memory (they come back as stale); `returns`, a
job purged while the worker had it in memory, which it saves again; `remapped`, another
note purged while a correction waited at the gate with all associations in memory, which it
writes back; `meddled`, a note, its evidence or its suggestions
changed by others during a review. Known and modelled:

- a crash between the completion of a receipt and the dismissal leaves suggested jobs;
- two selected suggestions that both change the note's day leave a review that cannot be
  completed by repeating it (`ReviewCompletes` is of the others, `DatesOnce`; the second job has two
  such suggestions, so such a review is among those the run goes through);
- an unfinished review cannot be abandoned after an outside edit.

Left out: pausing and disabling, prompts, the parsing of answers, usage figures. The one-time
migration of event identities (`context_service.py:1418-1454`) also writes back whole maps
it read before its awaits; it is not in this model. Requests are bounded by `MaxRequests`.

### Confirmations

A note's confirmed record, its contribution to dossiers and its follow-up. What is written
under the context lock is one step, unless the store dies between two files. `raced` says
that evidence already checked was never compared with a record written afterwards
(`generation` is the evidence of the last check): the change is told at the next
change or restart only.

### Connections

One model per connection; keys are numbers, 0 is none. `tabs` are Admin's forms with the
revision they saw; a refused revision is `Fails`. `lock` is an operation under the context
lock, with what it has read: set-up reads the schema's body and its revision one after the
other (`context_service.py:346`, `:369`), so a change between the two is overwritten, against
`statefiles.py:9`; `Kept` excuses it (`on`). `torn` are connections whose change crashed between the
credentials and the configuration: the key is new and its version old, against
`context_config.py:52`. `answered` is the history of what was tested with which key.

### NoteHistory

Git is `tree`, the number of `commits` and the newest `removal`; the helper commits what it
has staged twice running. A pass asks Git about a note it misses, keeps a receipt, and
calls the note deleted; `seen` is the version the passes saw last and is what a restore must not
go behind. Known: when two copies of one note go in one commit their receipts can conflict
and the pass fails (`note_history.py:331-341`); a device that returns the file while it is
restored under another name leaves two copies, which the next pass reports.

Left out: restores of filing copies, the quiet period, exclusions, `vanished_receipt`.

### Artifacts and Attachments

`archive` is the manifests, `copies` the browsable files, `records` and `rows` what is
derived; `work` holds the artifact lock, `sweeper` visits, `rebuild` is what a recovery
verified before it got the lock. Rows of artifacts created in between are deleted by it
and come back with the next one. A name freed and used again, two artifacts at one name
through a device, and the moment between a check and its write are the excuses `shared`,
`cleanup`, `late`; `shared` also where the cleanup of a failed create finds at its place what
another artifact was given, a case only the proof attempt showed. A create that fails after its archive is complete leaves no row, and `_find_replay`
looks at rows: a retry before the next recovery makes a second artifact of the same bytes,
although the docstring at `artifacts.py:667` says never; nothing is lost by it, and no property
forbids it.

`since` is a request's time, taken before its first await; Git dates by the second, so the commit
under way may count as older or not (`Since`). It becomes the revision's `at`, which the sweep
compares with the commit that removed the copy. `early` are the artifacts whose copy was put
where Git had recorded a removal since the request began, `undated` those whose copy was put back
without a new date: moved home by the sweep, or brought by a revision that failed before its
manifest. `taken` is whose copy was taken away, and after which commit. The answer of Git and the
date of the removal are read in one step. The search for a moved copy passes over files that are
older than the revision (`info.st_ctime < placed`); which ones are is not kept, so `Search` may
pass over any.

`Attachments` migrates files named after sources into artifacts, rewrites the notes that embed
them, and unlinks them. Storing an artifact is one step. `overtaken`: a note edited between
the read of its text (`artifacts.py:1693`) and `get_note` (`:1715`) is written over with the
text read first, though the docstring speaks of an ordinary conditional replace. `missed`:
a note that could not be read, or links an old file after its turn, keeps a link to a file
that is gone. `Moved` holds where a batch has room for more than the files no source names,
which fill it first and for ever (`artifacts.py:1601`). An older revision's file registered
after a newer one becomes the current revision.

Left out: extraction of text, tags, links added by path.

### SearchIndex

`entries` and `marks` (unreadable files) against `files`, `pages`, the note's row and a
source's manifest; `jobs` are catch-ups and rebuilds with what they have read. `strays`: a
page's entry written by a rebuild or catch-up that read the page before filing moved it
keeps the old path, for `catch_up` never repairs the path of a source's entry. Artifacts'
entries are left out.

### FieldIndex

One filtered field, declared as text or as a list, and one clause; `others` is the rest of
the schema, which only decides whether definitions have changed. `active` is the active
generation: the definitions it was built for and a stored value per note. `txn` is a
transaction that writes a row, with what the trigger stored into the generation it saw.
`job` is the refresh: it compares definitions, takes the table's barrier (`Barred`: no row is
written until the generation is committed), fills, reads the schema again and commits;
`receipt` and `request` are its two files, read and written outside the transaction.
`listing` is a client's filtered listing, page after page, its cursor bound to the schema's
revision. `taken` is the last request a refresh began with; `steady` the notes that met
the filter all the while, `matched` those that met it at some page: history.

Left out: date columns, the snapshot for the admin page, the wording of refusals, notes
whose row is not `ok`, several clauses.

### Dossiers and Identities

`Dossiers` has one dossier: the catalog's facts, the page generated from them, the owner's
edits of it, one note. `owner` is the history of what was written and removed; `torn` a page
the catalog may not know as its own after a crash; `unheard` why an edit was not heard:
`torn`, an edit of such a page before the catalog is saved again, or `overtaken`, the finding
below. A page that was read is looked at once more (`LookAgain`, `entities.py:380`) and then replaced
(`Place`, `:382`), two calls: what a device writes between them is written over, which
`Unheard` takes out of `owner`, that edit and no other. A page cut short by a crash while it is
created (`:376`) is left out: its delimiter is missing and the next refresh reports a problem (`:303`). `torn` was first forgotten by the next refresh; the proof attempt showed that a refresh
with nothing to write saves nothing until its end, and a second crash in it leaves the catalog as
ignorant as the first did. Known: a former version of the page put back by a device withdraws facts added since; a
mention withdrawn by the owner returns with the note's next version.

`Identities` has the catalog's people, each with addresses, a redirect, facts in the owner's
words. `held` is a preview and the revision it names. `revived`: purging a dossier that
others were merged into makes those redirects dossiers again, with the addresses and facts
they had (`entities.py:958`; `docs/dossiers.md` has merged identities remain redirects), so
two dossiers may own an address afterwards; whom such a dossier is merged into or split into
later has what it had, and is revived too (the proof attempt found this too).

Left out: claims, renames, the purge's scrubbing of pages, rows, the migration of contacts.

### ControlFiles and Access

`ControlFiles`: processes that read a file, and replace it under `flock` if its revision still
is the one read; the bootstrap that mints a first key and tells its credential (`reveal`); a
crash of any of them. One bootstrap at a time: two at once can leave the credential of the
key that lost. `Access`: requests that read cached records, verify slowly, and decide against
the records in force then; `Ttl` is the cache's five minutes, `Patience` the client's thirty
seconds, scaled. Hashing, scopes, and Admin's claim and sessions are left out.

### Calendars and OneCalendar

`Calendars`: an export dropped into the folder, its item in the intake, its receipt in the
archive, the catalog file and its mirror in the database; the worker, and an owner who uploads,
delivers again, retries and dismisses; two locks. `damaged`: an original that fails its check
stays pending and blocks what is behind it at every tick (`context_service.py:1463`). `late`:
a failure dismissed between the check and the start of a retry is reopened
(`context_service.py:699`, against `docs/calendar-enrichment.md`).

`OneCalendar` is the upgrade from several calendars to one and of the notes from former
event identities, interrupted anywhere. `skipped`: a note the migration cannot write keeps its
former identity; `returned`: somebody has written one since. An event field is mapped.

Left out: the merge of events and its conflicts, the parser's subprocess, unreadable and
oversized files, kinds of drops but calendar, artifact and unsupported; the provenance of
damaged originals.

## 3. What the runs show

| run | question | bounds | size |
|---|---|---|---|
| `notes` | one note against devices, and two requests against each other, with failures and crashes: what was acknowledged is on disk, rows follow, one name, nothing lost unread | 1 note, 2 paths, 2 requests, 2 device events | 1.1 million states |
| `notes_moves` | two notes exchanging two paths; every request answered | 2 notes, 2 paths, creates and moves | 298 thousand |
| `reconcile_devices` | what a pass may conclude while devices work | 2 notes, 2 paths, 2 device events | 338 thousand |
| `reconcile_writers` | a pass against the store's own writer; convergence | 1 note, 1 write, 1 device event, 1 failure | 457 thousand |
| `sync` | one client, obedience, the client comes back | 2 clients at once, 3 controls, 2 unexpected exits, 1 settings change, 2 faults | 934 thousand |
| `filing` | what was acknowledged is kept, a claim resolves, only approved revisions are published, pages stand, an approved note is filed | 2 contents, 2 sources, 2 revisions, 3 requests, 2 reviews, 1 accident | 1.2 million |
| `enrichment` | requests within the limit, changes traceable, purged is forgotten, decisions stand, jobs end, reviews complete | 2 jobs, 2 suggestions (one job with one that changes the day, one with two), limit 2, 1 edit or purge of another note, 1 accident, 1 refusal, 2 requests | 1.4 million |
| `parts` | gate and locks, note history, search index, confirmations, calendars and the two migrations | below | 425 thousand |
| `services` | purge, artifacts, dossiers, identities, control files, connections, key cache, field index | below | 3.3 million |
| `locks_circle` | no circle of waits with the lifecycle on: **violated** | any handler, any request, a purge | seconds |
| `sync_apply` | a failed apply leaves sync stopped: **violated** | as `sync`, smaller | seconds |
| `dossier_overtaken` | the next pass imports a device's edit: **violated** | 2 versions of the note, 2 edits | seconds |

The instances inside `parts` and `services` have their constants in `MCParts.tla` and `MCServices.cfg`:

| instance | bounds | what they let happen |
|---|---|---|
| handlers | any background handler or request, any request, a purge; lifecycle off | every pair of handlers around a queued purge |
| gate | 3 tasks, nesting 2, cancelled as they please | every pair of wake-ups races; the theorems cover any number |
| `NoteHistory` | 2 places, 2 versions, 3 device writes, 4 commits, 1 fault | delete, return, delete again; a copy; a commit in between |
| `SearchIndex` | 2 places, 2 jobs at once, 1 write, 1 ingest, 1 fault | catch-up beside rebuild, write, filing; also passed with larger ones (2.1 million states) |
| `Confirmations` | 1 edit, 1 change of the calendars, 1 resolution, 1 fault | each between any two steps of a check; also passed to 941 thousand states |
| `Calendars` | 1 export, dropped once, 3 requests, 1 fault | drop, failure, dismissal and retry at once; 2 exports passed by themselves |
| `OneCalendar` | 2 notes, 2 receipts, 2 former identities that become one, 1 edit, 2 faults | a crash in the repair of a crash; two events merged |
| `Attachments` | 3 files (two of one artifact, one of none), 2 notes, a batch of 2, 1 edit, 1 fault | a batch that is too small, a note that embeds both, a page |
| `Purge` | 3 notes, 1 source, 2 previews, 3 versions, 1 device write, 2 faults; also passed with 4 versions | a failure of the resumption of a failure |
| `Artifacts` | 2 artifacts, 2 places, 2 contents, 2 revisions, 2 requests, 2 device writes, 1 fault, 2 commits | a name freed and used again, seen by Git or not |
| `Dossiers` | 2 versions of the note, 2 edits, 1 change, 1 fault | an edit before and after a refresh and its crash; 2 faults passed alone |
| `Identities` | 3 dossiers, 2 addresses, 1 fact of the owner's, 5 requests, 1 note | make, merge, split, retire, purge in any order; 6 requests passed alone |
| `ControlFiles` | 2 processes, 3 requests, 1 crash | two tabs, or a tab and a notice, and the bootstrap |
| `Access` | 2 requests at once, 3 in all, 5 ticks | records expire during a verification; a slow store |
| `FieldIndex` | 2 notes, pages of 1, 1 write or device change, 1 change of the schema, 1 request, 1 listing, 1 fault | a write or a schema change between any two steps of a refresh, or between two pages |
| `Connections` | 1 connection, 1 key, 2 tabs, 6 requests, 1 crash | a change between any two of show, discover, test, assign; 2 keys passed alone |

Why these bounds are enough for the other questions:

- *Tasks.* A circle needs as many tasks as locks it passes through: with a purge, which only
  adds a wait at the gate, two others close each circle of gate and one lock, and two locks are
  never nested in opposite orders by the handlers listed. Three handlers beside the purge
  have not been run.
- *Notes and paths.* The hazards are between a note's row and its file, two notes and
  one path, or one note and two paths.
- *Device events.* A device's harm needs one event before and one after something the
  store did (delete and put a stranger; move there and back).
- *Versions.* Eight are enough that a fresh one always exists (three in `Purge`, where a note
  goes, returns and goes again).
- *MaxTries* is 2 for the code's 5: "again" and "for the last time" both happen.
- *AdoptionsPerPass* is 1 for the code's limit, so that the limit is reached.
- *MaxClients* is 2: a second client on the vault is what must not be. *MaxExits* bounds
  unexpected ends: without it a client that dies at once would grow the queue for ever.
- *Sources and revisions.* A second source for the identity is made when the first attempt
  has failed; the second revision is the one that comes between copy and manifest. Three names
  under `_Pending` are more than stand at once.
- *Jobs and suggestions.* Two jobs of one note compete for its bytes; two suggestions let one be
  approved and one rejected. *Limit* 2 has a first, a last and no more attempts.
- *MaxFaults* and *MaxAccidents* are 1 where convergence is the question: an unbounded
  series of failures converges nowhere.

`CHECK_DEADLOCK FALSE` where the system may stop: handlers end in `StoreLocks`; in
`NoteWrites` no note may be left that a client could ask about; elsewhere nobody is obliged
to ask for, or to change, anything more once the bounded requests and edits are used.

Symmetry is used in runs without liveness only; versions are never symmetric, since
fresh ones are chosen.

### Fairness

- `StoreLocks`: weak fairness of each task's next step: the event loop runs every task that
  is ready, and a with-block ends; the locks are FIFO in the model as in asyncio. Nobody is
  obliged to enter or to be cancelled. (`MaintenanceGate` by itself is checked for safety.)
- `NoteWrites`: strong fairness of each request's progress. A request waits for an
  `asyncio.Lock` or a PostgreSQL row lock, both FIFO, and the event loop's ready queue
  is FIFO: whoever could go on again and again does. No failure is obliged to happen.
- `Reconciler`: weak fairness of the pass and of a writer that has begun; quiet periods
  end; a full pass is taken again and again (the daily rehash). Devices and clients are
  bounded, so convergence is asserted of a system that has become quiet.
- `SyncSupervisor`: weak fairness of the event loop's ready continuations, of the timer
  and of the 15 second interval. Commands end, for they are killed after a minute, and
  `stopChild` ends after two seconds. Nothing is assumed of people, of settings, of
  failures, or of clients.
- `Filing`: weak fairness of an attempt's, a recovery's and a filing's next step; filing is
  tried after every pass, recovery where rows lag. Clients and reviewers are not obliged.
- `Reviews`: the worker, an operation that began and a review that began go on; a person
  repeats a review that was interrupted, which its receipt asks for (`AskAgain`).
- `NoteHistory`: the helper scans, passes follow each other, a restore that began goes on.
- `SearchIndex`: passes follow each other, each with its catch-up; transactions, reads
  and a filing that began end. `Confirmations`: filing, the check of every tick and a
  resolution that began go on.
- `Calendars`: the worker's tick with its scan, intake and import; a dismissal that began.
  `OneCalendar`: the service starts and its worker runs. `Attachments`: a sweep comes with
  every pass.
- The properties of `Purge`, `Artifacts`, `Dossiers`, `Identities`, `ControlFiles`,
  `Access`, `Connections` and `FieldIndex` are safety properties and need none.

### Findings

Each is a run that TLC must find violated; the texts are in `PROJECT.json`.

1. **`locks_circle`** With the lifecycle on, filing holds the gate and waits for the
   context lock, an approval holds the context lock and waits at the gate behind a
   queued purge, the purge waits for filing. The store's writers hang until a restart.
2. **`sync_apply`** A client that ignores `SIGTERM` is killed after two seconds, but its
   exit is not awaited. It then counts as a crash, and the restart brings the client up
   while its configuration is being changed, against the comment at `supervisor.mjs:281`.
3. **`dossier_overtaken`** The owner rewrites a line of a dossier's page while a refresh is
   about to take that line off because its note is gone. The write is held back, but the
   next pass no longer counts the line's fact among those that can be edited, and writes the
   page over: the owner's words are lost, against the comment at `entities.py:381`.

Other disagreements between code and comment that are in the models have no run of their own:
a property excuses each by its cause and by nothing wider, and fails where the excuse is dropped.

- Filing copies a page to its month in place (`filing.py:111`). A crash in the copy leaves it
  short, and every retry finds the path occupied by other bytes than its own: the reviewed note
  stays unfiled until somebody removes the file, although
  `docs/decisions/002-review-and-organization.md:33` has partial failures "remain visible and
  retryable" (`short` in `FilingConverges`).
- A review may select two suggestions that change the note's day. The first makes the rest of the
  job stale (`context_service.py:1349`), the second is refused (`:1160`), and the review can neither
  be completed nor replaced, although by `docs/note-workflow.md:53` it "can be resumed"
  (`DatesOnce` in `ReviewCompletes`).
- A correction reads the associations of all notes, waits at the gate while another note is
  purged, and writes them back, that note's included (`association_corrections.py:101-116`), against
  the comment at `entities.py:970` (`remapped` in `Forgotten`).
- An artifact's `stored_at` is the beginning of its request and is compared with Git's dates in
  whole seconds, so the removal of an earlier file of that name may count as the owner's
  deletion, although by `docs/data-and-settings.md:101` a deletion committed before never does
  (`Early` in `RetiredWasRemoved`); and a copy moved back, or left by a revision that failed, keeps
  the old date, so that a deletion recorded before it stood there may retire it, against the
  docstring at `artifacts.py:1284` (`Undated`).

Section 2 has the others, module by module. From the first modules: `_repair_location` compares the old path only, so a note that moves
there and back meanwhile gets a row with a stale path (`strayed` in `NoteWrites`); a
writer takes `updated_at` before its transaction, so a pass may overwrite a row committed
after the walk (`overtaken` in `Reconciler`); `startSync` spawns on a guard tested before
an await (`strayed` in `SyncSupervisor`), and two such starts spawn two clients (`crossed`); a file without identity at a note's old path
may have its own stat recorded while the moved file settles, and cheap passes then hold
the row there, although the comment at `reconciler.py:1108` says a stranger never
captures the note (`Captured` in `Reconciler`); one unreadable file nobody's row names keeps
every deleted note from being reported missing (`Undecided` in `Reconciler`).

Behaviour that is documented as accepted is excused in the properties, not reported:
a row behind its file after a failed commit (`notes.py:15-19`), a walk that is not a
snapshot (`reconciler.py:23-26` and the tests of reconciliation), two live names left
alone (`notes.py:136-145`).

## 4. What is proved

For every value of the constants, in TLAPS. No set of notes, paths, operations, clients,
jobs or sources is bounded, and neither is a counter, unless a named assumption says so:

| assumption | says |
|---|---|
| `TasksAssumption`, `DepthAssumption` | tasks are finitely many, `None` is none of them; nesting has a positive bound |
| `NoteWrites` `NamesAssumption`, `NoneAssumption`, `BoundsAssumption` | the "none" values differ from the others; `MaxTries` is positive |
| `Reconciler` `NamesAssumption`, `BoundsAssumption` | the same; identities and paths are finitely many (a pass counts names) |
| `IngestAssumption`, `ValuesAssumption`, `FilingAssumption` | bounds are numbers; "none", torn and foreign files differ from what is stored |
| `EnrichmentAssumption` | the same; a job may send at least one request |
| `SupervisorConstants`, `PurgeConstants` | bounds are numbers; notes and sources differ, each source has an opening note |
| `AccessConstants`, `ControlConstants` | bounds, the cache's lifetime and the patience are numbers; `None` is no time, answer, clerk or change |
| `FieldConstants` | notes are numbered from 1, a page holds at least one, `None` is no note and no count |
| `IdentityConstants` | people and addresses are numbered from 1, `None` is no person, dossier or preview |
| `DossierConstants` | the note has a version, bounds are numbers, `None` is no version and no text of a page |
| `ArchiveConstants` | bounds are numbers, `None` is no bytes and no artifact, what a person writes is none of the bytes uploaded |

`Connections` needs none. TLC evaluates each on the instances of section 3. An inductive
invariant was first checked by TLC on those instances, as a state invariant beside the properties; several of the conjuncts
below, and some of the excuses, come from a counterexample that only larger or unbounded
sets allow.

**The gate** (`MaintenanceGateProofs`).

- `GateCounts`: types, and `waiting` is exactly the number of waiting purges. The two go
  together: only the count shows that decrementing stays in Nat. The lemmas
  `WaitersGain`, `WaitersLose` and `WaitersKeep` say how the set of waiters changes.
- `PurgeIsAlone`, `NobodyIsForgotten`, `ReentranceIsFree`: one inductive invariant,
  `InsideInv`. None is inductive alone: that a sleeper's predicate is false needs the
  count (a cancelled purge may be the last waiting), and that a task inside never
  sleeps needs exclusion.
- `PurgeIsFirst`: no step lets an outsider in while a purge waits.
- `GateImplementsReadersWriter`: initial states and steps of the gate are initial states,
  steps or stutters of `ReadersWriter`, under `InsideInv`.

**Note writes** (`NoteWritesProofs`).

- `WritesAreTyped`, `LocksAreDisciplined` (a note's lock is held exactly by the
  operation between its check and its answer: mutual exclusion, no leak on any refusal,
  failure or crash), `ChangesLoseNothing` (a replace, patch, move or rename removes no
  bytes but those its caller named or it has created).
- The inductive invariant is `IInv`: types, lock discipline, and for each operation
  `Asks` (its request fits its step), `Works` (it has found a path, it has a draft, a
  link is only taken back by a relocation) and `Checked` (what it checked is still so
  until its write, unless disturbed). `Checked` is what loses nothing; it survives other
  requests because of `Turn` and of the lock, and devices because they set `disturbed`.
  One lemma per action, and `OthersStaySound` for everyone else.
- `AcknowledgementsAreOnDisk`, `RowsFollowFiles`, `LiveRowsHaveTheirOwnPaths`,
  `NotesHaveOneName`: what is acknowledged is on disk where the answer says, a row's path
  holds the file whose hash it mirrors, two live rows never share a path, a note keeps one
  name. They rest on `JInv`, over `IInv`: whose file lies where. The request's bytes
  carry its note's identity (`Signed`, `Marked`), it works where the row says (`Placed`), a
  create is alone with its identity (`Alone`), between link and unlink either name is the
  only one without the other (`Named`), a row describes its file until the next commit
  (`Mirrored`). `Takes` and `Exclusive` say why nobody else's request removes such a file:
  it would have to be of the same note, and then it would hold the same lock.

**The reconciler** (`ReconcilerProofs`).

- `ReconcilerTypes`, `MissingIsObserved` (`PresentNeverMissing`), `RowsStayHome`
  (`CopyNeverTakesTheRow`), `QuietPassesAreTrue` (`QuietPassTellsTheTruth`),
  `AdoptionsLoseNothing`, `PassesNeverMislead` (`PassNeverMisleads`).
- A walk is no snapshot, so the invariant `Inv` says what each thing a pass has gathered is
  still worth: an observation, a held note and a candidate for adoption are as they were
  read wherever nobody has touched the path since (`Observed`, `Held`, `Strangers`), the
  mirror fetched is what the rows said but for late writers (`Mirrored`), what is being
  written is known (`Writing`), and every path the walk is done with and nobody touched has
  been taken into account (`HeardAll`). The last is what makes "missing" an observation
  and not an omission. Three of the action properties then follow from what is chosen
  (`ChosenIsOne`), what it becomes (`TargetIs`) and which columns are written
  (`ColumnsAreWritten`, `ApplyDoes`).
- The proof attempt refuted earlier forms of three properties: `Overlooked` (section 2) is the
  excuse they were missing.
- `AdoptionsLoseNothing` needs what is known of the bytes (`Bytes`): files of one version are
  copies of each other (`SameBytes`), whatever has a candidate's bytes can be read (`Legible`),
  and the file being adopted is, since the last look at it, what was seen or what was written
  there, and names the note it is adopted as, or none (`Adopting`).
- `PassesNeverMislead` needs another invariant, `Kept`, because store writers touch files
  during the pass and some of them fail. It says that a file which matches the row of an
  unexcused note has stood there since the pass began (`Steadfast`: what was replaced has a
  version nobody can bring back, what was moved names its own note, and a device would have
  disturbed the note), and that a file once seen to name a missing note still does (`Lingers`).
  They rest on a writer having its note to itself (`Turns`), on versions saying whose bytes
  they are (`Told`), and on observed paths not being up for adoption (`Apart`). So the pass
  either holds a right row, or has observed the very file it describes, or passes it over.
- That proof, too, corrected its property, which had been checked with one note only and was too
  strong for several: `_move_file` unlinks whatever lies at the old name, which may by then be
  another note's file that a device put there, and then that note is excused like one a device
  disturbed; a path that two live rows claim may be passed over (`Overlooked`). And it was too
  weak in what "right" means: a row now has to be right about an unparsed file as well, and
  `ok` only of a readable, parsed one.

**Ingest and filing** (`FilingProofs`).

- `AcknowledgedSourcesStay` (`AcknowledgedIsKept`), `RowsFollowManifests`: a revision told to a
  client keeps its bytes and its place, and rows never lead, although recovery writes what
  it read earlier. Invariant `Inv`: types; a first ingest is of a source nobody else knows, so
  that its cleanup can take nothing from anyone (`Pristine`); which revision is in hand and
  where (`Shown`, `Coming`, `Asked`); rows, notes and a recovery speak of sources with a
  manifest (`Known`); a filing carries a page it has read (`Carrying`).
- `PublishedSourcesWereApproved`: with `Reviewed`, a note that says reviewed has a record that
  says what was met, unless that record could not be made.
- `ClaimsResolve`: with `Later` and `Accounted`, what every identifier has left behind at
  each step of the attempt under way, as long as no accident came that no cleanup reaches (`Ours`).
- `PagesAlwaysStand` (`PagesStand`). `Leads` says who has the page of a source in hand: a manifest
  that is not debris names one (`PagesLead`), an attempt holds one from its placing to its naming and
  takes it back only once the manifest is gone (`AttemptLeads`), and a filing names the page in the
  month before it drops the one it read, and rewrites the link after both, so that a link leads to the
  manifest's page, to the month or to where the page once came from (`FilingLeads`, the paths
  `froms` of the journal). All this only while nothing is `foreign`; `Noted`, that whoever works
  for a source already linked works for one with a note, holds whatever happens.
- `FilingTypes`. The guards `FilingRuns` and `IngestRuns` (no other step of the store between
  a read and a write without an await) are needed in all of them.

**Jobs, approvals, reviews** (`ReviewsProofs`).

- `RequestsAreLimited` (`WithinLimit`), `ChangesAreTraced` (`Traceable`), `NotesAreForgotten`
  (`Forgotten`), `DecisionsAreKept` (`DecisionsStand`), `ReviewsTypes`.
- One invariant, `ReviewInv`, of two halves. `Books`: what the worker and an approval
  hold in memory was read before others wrote the disk; `Behind` and `Held` say how far
  the two may then be apart, and `Billed` that what was sent is among the recorded attempts
  wherever the job is read from. `Papers`: an approval on disk says what it writes, an
  association is recorded before its approval leaves the disk and taken off only
  after the note has lost it (`Citing`), a review leaves what the note carries (`Marking`), a
  purged note has nothing (`Gone`). `NotesAreForgotten` needs, beside it, `OtherInv`: from
  the purge of another note on, neither the file nor a correction that has read the file
  knows that note, unless one had read it before. `DecisionsAreKept` shows exactly which saves may
  overtake a completed review: those `strange` names.

**The supervisor** (`SyncSupervisorProofs`).

- `OneClientAlways`: a running client is the one the supervisor knows, unless two starts
  crossed. The inductive part (`Known`) needs that a start on its way finds no known client
  and that there is one such start at most, in the queue of status writes or in the
  control (`Alone`); `WhoPasses` says who may add one, `SpawnAddsTheOnlyOne` what it does.
- `AskedIsObeyed` (`Obeyed`): between two controls what people asked for last holds in
  memory, in the file and of the process. `Said` follows `paused` and the connection through
  `reconcileConfig`'s temporary pause, `Leave` says that a start on its way may still start,
  `Quiet` whom a pause has still to stop. `Turns`,
  that the control waits at most once in the queue of status writes and only where it
  awaits one, is what the argument turns on: a failed write that met a control elsewhere would
  end it without restoring `paused`.
- `SupervisorTypes`.

**The purge** (`PurgeProofs`), three invariants, each over the ones before.

- `Inv` for `MirrorAndDiskAgree` (`RowMeansBundle`): what the purge may still unlink belongs
  to sources without a row (`OnlyRowless`), it begins its transaction with nothing in
  hand (`EmptyHanded`), and a list names under an identity only its own files
  (`ListsAreOwn`), which must survive the leftovers of abandoned lists (`CandidatesAreOwn`).
- `Orders` for `PurgesAreAuthorised` (`Authorised`) and `CitedSourcesStay`
  (`KeepsWhatIsUsed`): files are filed under one path each, what is in hand is on the list of
  a record that is being applied (`InHand`), each unlinked file is `Vouched` for by a list
  that was confirmed and is more than `Tentative`, or excused (`Signed`), and nothing on the
  list is cited once the purge has looked for the last time (`Uncited`).
- `Reach` for `NothingIsStranded` (`NothingStranded`): a list that has begun still says what
  lies there, pages apart (`Standing`, `PagesListed`); while files go, notes on the list have no
  row and items that had their turn are empty (`Bare`, `Emptied`); so that every note and
  source is known, or promised by an unfinished list, or left over for the next preview
  (`NotesInReach`, `SourcesInReach`).

**The smaller services** (`ServicesProofs`). Each by itself; they share no state.

- `Access`: `RevokedKeysStayOut` (`RevokedStaysOut`). A read of the records that began before
  the revocation ends within `Patience` (`Loading`), records that admit were read before it
  or hold no longer than that and `Ttl` (`Holding`), and a verification holds no longer than
  the records it was made from (`Verifying`): so nothing needs to be told to the API.
- `FieldIndex`: `FieldIndexHolds` (`FieldIndexServes`). A transaction that has not seen the new
  trigger ends before the barrier lets the rebuild read (`Triggered`), and a rebuild has what
  the rows say wherever it has been (`Building`); what one page after another has taken is
  what lies before the cursor (`Covered`), as long as what matched all along stays so
  (`Steady`), and each page names as many as it read and found (`Counted`).
- `ControlFiles`: the lemma `ControlFilesStand`, first half of `ChangesAlwaysStand`
  (`ChangesStand`). What a process prepared
  applies its change to the content of the revision it read (`Prepared`), for a revision names one
  content; only the holder of the lock is between its check and its write (`Holds`). The bootstrap
  makes a default key only where there was none, and has told its credential before it
  records the key (`Minting`, `KeysWork`). Proving it refuted the model's `Boots`, which kept a
  second bootstrap away after the default key had been revoked; it now speaks of live keys.
- `Connections`: `TestedBeforeUseHolds`, the other half. A version
  of a connection stands for one credential, so a test recorded under the current version was
  answered for the credential in use (`TestsAreOf`), and so was the one a tab still waits for
  (`AskedWith`), unless a save was cut short (`torn`); nothing changes the configuration
  between an assignment's checks and its write (`Assigning`), or a set-up's (`SettingUp`).
- `Identities`: `PeopleStandAlways`. Redirects end at a dossier because no set of them is
  closed (`Redirected`), so a chain that never ended would visit one twice; an owner's fact is said
  by one dossier, an address is of one (`Once`, `OneEach`), and a preview that is current shows
  the catalog as it is (`Previewed`).
- `Dossiers`: `CorrectionsAlwaysStand`, which with the former is `CorrectionsStand`. The invariant
  `DossierInv` keeps a `Book` for the page, the catalog and the owner: the page is what the catalog
  knows as its own and what the owner has done to it since, all of which the next reading hears
  (`Follows`); a page that is gone left nothing unheard (`Alone`); the catalog has nothing of the
  owner's but what the owner said (`Sound`), and a text about to be written still shows what is
  still confirmed (`Planned`), so that a page which happens to equal it hides no edit. While an
  operation is under way the book is kept for the catalog in memory, and for the one on disk as
  well (`Working`, `Later`), for a crash may make either of them the last word.
- `Artifacts`: `ArtifactsAlwaysStand` (`ArtifactsStand`). Whoever holds the lock has in hand what is
  on disk (`InHand`), what is about to be replaced or removed is no edit of a person's (`Guarded`),
  a copy brought home leaves another place (`GoesHome`); and what Git says of a live artifact's
  place is evidence (`Evident`): a copy that Git has and the disk has not was taken since Git looked
  (`Seen`), one that Git calls gone was taken since the store put it there, or is `early` or
  `undated` (`Evidenced`), and a request under way knows which removals came after it began
  (`Proper`).

A convention of the modules proved about: the operand of `UNION` and `SUBSET` is in
parentheses wherever a `\cup` follows, for TLAPS reads them more loosely than TLC.

**Only model-checked:**

- every liveness property (TLAPS proves no fairness or ENABLED argument here): `Converges`,
  `EveryRequestAnswered`, `EveryHandlerEnds`, `ComesBack`, `FilingConverges`, `JobsEnd`,
  `ReviewCompletes`, `IndexConverges`, and those inside `ImportsAndUpgradesStand` and
  `HistoryAndConfirmationsHold`;
- the safety halves of `ImportsAndUpgradesStand` and `HistoryAndConfirmationsHold`: no proof has
  been attempted;
- the order of locks in `StoreLocks`.

Induction over data and RECURSIVE operators are out of the prover's reach; no module
needs them (chains of redirects in `Identities` are a recursive function on the natural numbers,
about which the lemmas say what one more step does).

## 5. What is not modelled

Listed with reasons in `PROJECT.json`, `components`, and at the end of each section of 2. In
short: text (YAML, frontmatter round trips, naming, wording, prompts, extraction), pure I/O and
routing (internal API, public API, admin pages), external programs (Git, the sync client,
model providers, the calendar parser), declarations (database models, migrations,
settings), and the queries of the search.

## 6. Plan

Done: the modules of section 2, with theorems for the gate, note writes, the reconciler,
ingest and filing, jobs and reviews, the supervisor, the purge and the seven smaller services:
every state invariant of the runs, twelve action or temporal properties and the gate's refinement.

The twelve runs are used up by compositions; what comes next is mostly proof. Proofs are in
eight modules; another component's go into `ServicesProofs`, as a section of their own, once it
is divided: TLAPS reads the whole module for every leaf, and it is the slowest of them already.

1. `StoreLocks`: `NoCircularWait` from a lock order as a theorem over any set of handlers
   that respect it.
2. Abstract specifications: an external identity is ingested once (`Ingest`); what was listed is
   gone or untouched and nothing else is (`Purge`).
3. Pure algorithms as functions: free names (`unique_stem`), cursor paging, adoption's
   changes, merging of calendar events.
