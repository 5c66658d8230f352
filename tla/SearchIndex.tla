----------------------------- MODULE SearchIndex -----------------------------
(***************************************************************************)
(* The search index (indexer.py): the entries and the marks of files that  *)
(* could not be read, the writes that carry an entry along in their own    *)
(* transaction, catch_up after a pass or an ingest, and the rebuild.  One  *)
(* note that cites one source; only what is reviewed and filed may have an *)
(* entry (eligibility.py).                                                 *)
(*                                                                         *)
(* `Workers' run catch_up and rebuild side by side.  Around them run the   *)
(* devices, store writes, passes of the reconciler, ingests of revisions   *)
(* and filing, as far as the index sees them.  All paths are paths of the  *)
(* note's month; that a note outside waits to be filed is left out.        *)
(***************************************************************************)
EXTENDS Naturals, Sequences, FiniteSets

CONSTANTS Places,           \* numbers, in the order files are listed
          Workers,          \* who indexes: the first after each pass, others on request
          MaxWrites, MaxRequests, MaxFaults, None

VARIABLES files,    \* what each place holds with the note's identity, and its stat
          row,      \* the notes row
          write,    \* a store write that has its file and not its row yet
          pages,    \* the source's generated pages
          source,   \* its row, its approved revision, the page its manifest names
          filing,   \* the filing of the note under way
          entries, marks,
          jobs,     \* what each worker does and has read
          strays,   \* history: a page's entry was written after its page had gone elsewhere
          leave     \* what may still happen

vars == <<files, row, write, pages, source, filing, entries, marks, jobs, strays, leave>>
mirror == <<files, row, write, pages, source, filing>>
index == <<entries, marks>>

Kinds == {"note", "source"}
Idle == [pc |-> "idle", stale |-> {}, known |-> None, looked |-> None, ready |-> {}, failed |-> {},
         passing |-> {}, todo |-> <<>>]
NotFiling == [pc |-> "idle", to |-> None, from |-> None, rev |-> None, page |-> None]
Text(n, is) == [n |-> n, is |-> is]
File(t, s) == [text |-> t, stat |-> s]
Page(r, ok, s) == [rev |-> r, ok |-> ok, stat |-> s]
First == CHOOSE p \in Places : \A q \in Places : p <= q

Start(pc) ==
  /\ files = [p \in Places |-> IF p = First THEN File(Text(0, "reviewed"), 0) ELSE None]
  /\ row = [text |-> Text(0, "reviewed"), place |-> First, state |-> "ok", reviewed |-> TRUE, filed |-> TRUE]
  /\ write = None /\ filing = NotFiling
  /\ pages = [p \in Places |-> IF p = First THEN Page(1, TRUE, 0) ELSE None]
  /\ source = [rev |-> 1, approved |-> 1, home |-> First]
  /\ entries = [k \in Kinds |-> None] /\ marks = [k \in Kinds |-> None]
  /\ jobs = [w \in Workers |-> [Idle EXCEPT !.pc = pc]]
  /\ strays = FALSE
  /\ leave = [writes |-> MaxWrites, requests |-> MaxRequests, faults |-> MaxFaults]
Init == Start("idle")

May(what) == leave[what] > 0 /\ leave' = [leave EXCEPT ![what] = @ - 1]

-----------------------------------------------------------------------------
(* What may be found, and the one way an entry is written *)

Published(r) == r.reviewed /\ r.filed /\ r.state # "missing"
Eligible(k, r) == Published(r) /\ (k = "source" => source.approved = source.rev)
Entry(v, path) == [v |-> v, path |-> path]

Upsert(e, k, entry, r) == [e EXCEPT ![k] = IF Eligible(k, r) THEN entry ELSE None]
Write(k, entry, r) == /\ entries' = Upsert(entries, k, entry, r)
                      /\ marks' = [marks EXCEPT ![k] = None]
Drop(k) == entries' = [entries EXCEPT ![k] = None] /\ UNCHANGED marks
FollowPath(place) ==
  /\ entries' = IF entries["note"] = None THEN entries ELSE [entries EXCEPT !["note"].path = place]
  /\ UNCHANGED marks

-----------------------------------------------------------------------------
(* The note: store writes, devices, and the passes that follow them *)

Now == MaxWrites - leave.writes + 1
Fresh(is) == Text(Now, is)
Touched(t) == File(t, Now)
Is(p, t) == files[p] # None /\ files[p].text = t
RowOf(t, p) == [text |-> t, place |-> p, state |-> "ok", reviewed |-> t.is = "reviewed",
                filed |-> row.filed /\ t.is = "reviewed"]

StoreWrites(is) ==
  /\ write = None /\ row.state = "ok" /\ Is(row.place, row.text) /\ May("writes")
  /\ write' = [text |-> Fresh(is), place |-> row.place]
  /\ files' = [files EXCEPT ![row.place] = Touched(Fresh(is))]
  /\ UNCHANGED <<row, pages, source, filing, index, jobs, strays>>

StoreCommits ==
  /\ write # None /\ write' = None
  /\ row' = RowOf(write.text, write.place)
  /\ Write("note", Entry(write.text.n, write.place), row')
  /\ UNCHANGED <<files, pages, source, filing, jobs, strays, leave>>

StoreFails ==
  /\ write # None /\ write' = None /\ May("faults")
  /\ UNCHANGED <<files, row, pages, source, filing, index, jobs, strays>>

Device(f) == /\ May("writes") /\ files' = f
             /\ UNCHANGED <<row, write, pages, source, filing, index, jobs, strays>>
DeviceWrites ==
  \E p \in Places : files[p] # None /\
    \/ \E is \in {"reviewed", "draft", "broken"} : Device([files EXCEPT ![p] = Touched(Fresh(is))])
    \/ Device([files EXCEPT ![p] = None])
    \/ \E q \in Places : files[q] = None /\ Device([files EXCEPT ![p] = None, ![q] = Touched(files[p].text)])
DeviceReturns(p) == files[p] = None /\ Device([files EXCEPT ![p] = Touched(row.text)])

(* _follow_in_index, with the row: read whole it is indexed, gone it is dropped, and what
   cannot be parsed keeps its text at the path where it is now *)
Follow ==
  /\ write = None
  /\ IF \A p \in Places : files[p] = None
     THEN row.state # "missing" /\ row' = [row EXCEPT !.state = "missing"] /\ Drop("note")
     ELSE \E p \in Places :
            /\ files[p] # None /\ (files[row.place] # None => p = row.place)
            /\ IF files[p].text.is = "broken"
               THEN /\ row' = [row EXCEPT !.text = files[p].text, !.place = p, !.state = "unparsed"]
                    /\ FollowPath(p)
               ELSE /\ row' = RowOf(files[p].text, p)
                    /\ Write("note", Entry(files[p].text.n, p), row')
            /\ row' # row
  /\ UNCHANGED <<files, write, pages, source, filing, jobs, strays, leave>>

-----------------------------------------------------------------------------
(* The source: a new revision overwrites its page; filing carries the page on and
   publishes what was approved when it began *)

Asked == MaxRequests - leave.requests + 1
HasPage(p, r) == pages[p] # None /\ pages[p].rev = r /\ pages[p].ok

Ingest ==
  /\ filing.pc = "idle" /\ May("requests")
  /\ source' = [source EXCEPT !.rev = @ + 1]
  /\ pages' = [pages EXCEPT ![source.home] = Page(source.rev + 1, FALSE, Asked)]
  /\ UNCHANGED <<files, row, write, filing, index, jobs, strays>>

FilingBegins(to) ==
  /\ filing.pc = "idle" /\ row.state = "ok" /\ row.reviewed /\ May("requests")
  /\ pages[source.home] # None /\ (to # source.home => pages[to] = None)
  /\ row' = [row EXCEPT !.filed = FALSE]
  /\ Drop("source")
  /\ filing' = [pc |-> "copy", to |-> to, from |-> source.home, rev |-> source.rev, page |-> pages[source.home]]
  /\ UNCHANGED <<files, write, pages, source, jobs, strays>>

FilingCopies ==
  /\ filing.pc = "copy"
  /\ pages' = [pages EXCEPT ![filing.to] = Page(filing.page.rev, TRUE, Asked)]
  /\ filing' = [filing EXCEPT !.pc = "name"]
  /\ UNCHANGED <<files, row, write, source, index, jobs, strays, leave>>

(* The manifest names the new page, then the old one goes *)
FilingNames ==
  /\ filing.pc = "name"
  /\ source' = [source EXCEPT !.home = filing.to]
  /\ filing' = [filing EXCEPT !.pc = IF source.home = filing.to THEN "publish" ELSE "unlink"]
  /\ UNCHANGED <<files, row, write, pages, index, jobs, strays, leave>>

FilingUnlinks ==
  /\ filing.pc = "unlink"
  /\ pages' = [pages EXCEPT ![filing.from] = None]
  /\ filing' = [filing EXCEPT !.pc = "publish"]
  /\ UNCHANGED <<files, row, write, source, index, jobs, strays, leave>>

Publish ==
  /\ filing.pc = "publish" /\ filing' = NotFiling
  /\ IF row.reviewed /\ row.state = "ok" /\ Is(row.place, row.text)
     THEN /\ row' = [row EXCEPT !.filed = TRUE]
          /\ source' = [source EXCEPT !.approved = filing.rev]
     ELSE UNCHANGED <<row, source>>
  /\ UNCHANGED <<files, write, pages, index, jobs, strays, leave>>

-----------------------------------------------------------------------------
(* catch_up *)

At(w, pc) == jobs[w].pc = pc
Go(w, job) == jobs' = [jobs EXCEPT ![w] = job]

CatchUp(w) ==
  /\ At(w, "idle") /\ Go(w, [Idle EXCEPT !.pc = "clear"])
  /\ IF w = 1 THEN UNCHANGED leave ELSE May("requests")
  /\ UNCHANGED <<mirror, index, strays>>

(* Entries of what may no longer be found go; a note's entry takes the row's path *)
Clear(w) ==
  /\ At(w, "clear") /\ Go(w, [jobs[w] EXCEPT !.pc = "select"])
  /\ entries' = [k \in Kinds |->
       IF entries[k] = None \/ ~Eligible(k, row) \/ (k = "source" /\ entries[k].v # source.rev) THEN None
       ELSE IF k = "note" THEN Entry(entries[k].v, row.place) ELSE entries[k]]
  /\ UNCHANGED <<mirror, marks, strays, leave>>

Version(k) == IF k = "note" THEN row.text.n ELSE source.rev
StaleIfMissing(k) == Eligible(k, row) /\ (k = "note" => row.state = "ok") /\ entries[k] = None
Stale(k) == /\ Eligible(k, row) /\ (k = "note" => row.state = "ok")
            /\ entries[k] = None \/ entries[k].v # Version(k)
Candidate(k) == [k |-> k, v |-> Version(k), path |-> IF k = "note" THEN row.place ELSE None]

Select(w) ==
  /\ At(w, "select")
  /\ LET stale == {Candidate(k) : k \in {k \in Kinds : Stale(k)}}
     IN Go(w, [jobs[w] EXCEPT !.pc = "look", !.stale = stale, !.known = marks,
                              !.todo = SelectSeq(<<"note", "source">>, LAMBDA k : Stale(k))])
  /\ UNCHANGED <<mirror, index, strays, leave>>

This(w) == CHOOSE c \in jobs[w].stale : c.k = Head(jobs[w].todo)
PathOf(c) == IF c.k = "note" THEN c.path ELSE source.home
Stat(k, path) == <<path, IF k = "note" THEN files[path] ELSE pages[path]>>

(* The file's stat before its bytes; one that failed before and has not changed is passed over *)
Look(w) ==
  /\ At(w, "look") /\ jobs[w].todo # <<>>
  /\ LET c == This(w)
         mark == [v |-> c.v, path |-> PathOf(c), seen |-> Stat(c.k, PathOf(c))]
     IN Go(w, IF jobs[w].known[c.k] = mark
              THEN [jobs[w] EXCEPT !.todo = Tail(@)]
              ELSE [jobs[w] EXCEPT !.pc = "read", !.looked = mark])
  /\ UNCHANGED <<mirror, index, strays, leave>>

Readable(c, path) ==
  IF c.k = "note" THEN files[path] # None /\ files[path].text.n = c.v /\ files[path].text.is # "broken"
  ELSE HasPage(path, c.v)

Read(w) ==
  /\ At(w, "read")
  /\ LET c == This(w)
         job == [jobs[w] EXCEPT !.pc = "look", !.todo = Tail(@), !.looked = None]
         read == [k |-> c.k, mark |-> jobs[w].looked]
     IN Go(w, IF Readable(c, jobs[w].looked.path) THEN [job EXCEPT !.ready = @ \cup {read}]
              ELSE [job EXCEPT !.failed = @ \cup {read}])
  /\ UNCHANGED <<mirror, index, strays, leave>>

(* A fault of the moment is no mark *)
ReadFails(w) ==
  /\ At(w, "read") /\ May("faults")
  /\ Go(w, [jobs[w] EXCEPT !.pc = "look", !.todo = Tail(@), !.looked = None,
                           !.passing = @ \cup {Head(jobs[w].todo)}])
  /\ UNCHANGED <<mirror, index, strays>>

(* What a store write has indexed, or the row has left, gets no mark *)
MarkFits(f) ==
  /\ IF f.k = "note" THEN row.place = f.mark.path /\ row.text.n = f.mark.v /\ Published(row)
     ELSE source.rev = f.mark.v
  /\ entries[f.k] = None \/ entries[f.k].v # f.mark.v

WriteBack(w) ==
  /\ At(w, "look") /\ jobs[w].todo = <<>> /\ Go(w, Idle)
  /\ LET j == jobs[w]
         good == {r \in j.ready : r.k = "note" => row.text.n = r.mark.v}
         written == {r.k : r \in good}
         candidates == {c.k : c \in j.stale} \ j.passing
         bad == {f \in j.failed : MarkFits(f)}
     IN /\ entries' = [k \in Kinds |->
             IF k \in written
             THEN LET r == CHOOSE r \in good : r.k = k
                  IN Upsert(entries, k, Entry(r.mark.v, r.mark.path), row)[k]
             ELSE entries[k]]
        /\ marks' = [k \in Kinds |->
             IF k \in written THEN None
             ELSE IF \E f \in bad : f.k = k THEN (CHOOSE f \in bad : f.k = k).mark
             ELSE IF j.known[k] # None /\ k \notin candidates THEN None
             ELSE marks[k]]
        /\ strays' = (strays \/ \E r \in good : r.k = "source" /\ r.mark.path # source.home)
  /\ UNCHANGED <<mirror, leave>>

(* The transaction fails, or the store restarts *)
JobFails(w) ==
  /\ ~At(w, "idle") /\ May("faults") /\ Go(w, Idle)
  /\ UNCHANGED <<mirror, index, strays>>

-----------------------------------------------------------------------------
(* rebuild: forget the marks, walk the files, replace the entries, catch up *)

Rebuild(w) ==
  /\ At(w, "idle") /\ w # 1 /\ May("requests")
  /\ marks' = [k \in Kinds |-> None]
  /\ Go(w, [Idle EXCEPT !.pc = "walk", !.looked = row.place,
                        !.stale = IF Published(row) THEN {"note"} ELSE {},
                        !.todo = [i \in 1..2 * Cardinality(Places) |->
                                    IF i <= Cardinality(Places) THEN <<"note", i>>
                                    ELSE <<"source", i - Cardinality(Places)>>]])
  /\ UNCHANGED <<mirror, entries, strays>>

(* The note's own path is preferred, of two pages the first one *)
Found(k, e, was, live) ==
  IF k = "note" THEN IF was # {} /\ (\E r \in was : r.mark.path = live) THEN was ELSE {e}
  ELSE IF was # {} THEN was ELSE {e}
Walk(w) ==
  /\ At(w, "walk") /\ jobs[w].todo # <<>>
  /\ LET k == Head(jobs[w].todo)[1]
         p == Head(jobs[w].todo)[2]
         was == {r \in jobs[w].ready : r.k = k}
         counts == IF k = "note" THEN jobs[w].stale # {} /\ files[p] # None /\ files[p].text.is = "reviewed"
                   ELSE pages[p] # None /\ pages[p].ok
         v == IF k = "note" THEN files[p].text.n ELSE pages[p].rev
         e == [k |-> k, mark |-> Entry(v, p)]
     IN Go(w, [jobs[w] EXCEPT !.todo = Tail(@),
                              !.ready = IF counts THEN (@ \ was) \cup Found(k, e, was, jobs[w].looked) ELSE @])
  /\ UNCHANGED <<mirror, index, strays, leave>>

Replace(w) ==
  /\ At(w, "walk") /\ jobs[w].todo = <<>> /\ Go(w, [Idle EXCEPT !.pc = "clear"])
  /\ LET read(k) == {r \in jobs[w].ready : r.k = k}
         kept(k) == k = "note" /\ read(k) = {} /\ row.state = "unparsed" /\ Published(row)
     IN /\ entries' = [k \in Kinds |->
             IF read(k) # {} THEN Upsert(entries, k, (CHOOSE r \in read(k) : TRUE).mark, row)[k]
             ELSE IF kept(k) THEN entries[k] ELSE None]
        /\ marks' = [k \in Kinds |-> IF read(k) # {} THEN None ELSE marks[k]]
        /\ strays' = (strays \/ \E r \in read("source") : r.mark.path # source.home)
  /\ UNCHANGED <<mirror, leave>>

Work(w) == Clear(w) \/ Select(w) \/ Look(w) \/ Read(w) \/ WriteBack(w) \/ Walk(w) \/ Replace(w)
Files == FilingCopies \/ FilingNames \/ FilingUnlinks \/ Publish
Next ==
  \/ \E w \in Workers : Work(w) \/ CatchUp(w) \/ Rebuild(w) \/ ReadFails(w) \/ JobFails(w)
  \/ \E is \in {"reviewed", "draft"} : StoreWrites(is)
  \/ StoreCommits \/ StoreFails \/ DeviceWrites \/ Follow
  \/ \E p \in Places : DeviceReturns(p) \/ FilingBegins(p)
  \/ Ingest \/ Files

Spec == Init /\ [][Next]_vars

(* Passes follow each other; every transaction, read and filing that began goes on *)
Fairness == /\ WF_vars(Follow) /\ WF_vars(StoreCommits) /\ WF_vars(Files) /\ WF_vars(CatchUp(1))
            /\ \A w \in Workers : WF_vars(Work(w))
FairSpec == Spec /\ Fairness

-----------------------------------------------------------------------------
TypeOK ==
  /\ row.place \in Places /\ row.state \in {"ok", "missing", "unparsed"}
  /\ \A k \in Kinds : entries[k] # None => entries[k].path \in Places
  /\ source.home \in Places /\ source.approved <= source.rev

(* Nothing is found whose bytes nobody reviewed *)
Level(k) ==
  IF ~Eligible(k, row) THEN entries[k] = None
  ELSE IF k = "note" THEN
    IF row.state = "ok" THEN entries[k] = Entry(row.text.n, row.place)
    ELSE entries[k] # None => entries[k].path = row.place
  ELSE HasPage(source.home, source.rev)
         => entries[k] # None /\ entries[k].v = source.rev /\ (strays \/ entries[k].path = source.home)

(* Whatever writes, passes, rebuilds, filings and failures there have been, the index comes
   to hold the current text of what is published at its current path, and nothing else. *)
IndexConverges == <>[](Level("note") /\ Level("source"))
=============================================================================
