------------------------------ MODULE FieldIndex ------------------------------
(***************************************************************************)
(* The typed field index (field_index.py) and the listing that filters by  *)
(* it (list_notes): generations of stored values that a trigger keeps in   *)
(* step with the mirror, the rebuild behind a barrier of the notes table,  *)
(* its receipt and its requests, and pages bound to the schema revision.   *)
(*                                                                         *)
(* One filtered field and one clause; what else the schema declares is     *)
(* `others'.  Every row is `ok': notes in other states are listed unread.  *)
(***************************************************************************)
EXTENDS Naturals, FiniteSets

CONSTANTS Notes,            \* numbers, in the order of the identities
          Limit,            \* notes on a page
          MaxWrites, MaxChanges, MaxRequests, MaxLists, MaxFaults, None

VARIABLES schema,    \* the schema document: revision, the field's kind, the other keys
          mirror,    \* committed rows: the field's value in each note's frontmatter
          present,   \* the notes whose file is there
          txn,       \* a transaction that writes a row, with what its trigger stored
          active,    \* the active generation: the definitions and the stored values
          receipt,   \* field-index-job.json: the last job's state and target
          request,   \* field-index-request: a token, 0 once acknowledged
          job,       \* the refresh under way
          listing,   \* a client's filtered listing, page after page
          taken,     \* history: the last token a refresh began with
          leave      \* what may still happen
vars == <<schema, mirror, present, txn, active, receipt, request, job, listing, taken, leave>>

Kinds    == {"string", "list"}
Values   == {"absent", "word", "listed"}      \* the word the clause asks for, alone or in a list

(* coppermind_index_fields: what is stored of a value under the declared kind *)
Indexed(kind, v) == CASE kind = "string" /\ v = "listed" -> "invalid"     \* expected text
                      [] kind = "list" /\ v = "word" -> "listed"          \* wrapped: one account
                      [] OTHER -> v
Matching(stored) == stored \in {"word", "listed"}
Truly(n) == Matching(Indexed(schema.kind, mirror[n]))

definitions == [kind |-> schema.kind, others |-> schema.others]
May(what) == leave[what] > 0 /\ leave' = [leave EXCEPT ![what] = @ - 1]

NoJob == [pc |-> "idle", keys |-> None, request |-> 0, forced |-> FALSE, stored |-> None]
NoList == [pc |-> "idle", kind |-> "string", rev |-> 0, after |-> 0, from |-> 0, got |-> {}, found |-> {},
           end |-> FALSE, listed |-> {}, matched |-> {}, steady |-> {}]

Start(pc) ==
  /\ schema = [rev |-> 1, kind |-> "string", others |-> 0]
  /\ mirror = [n \in Notes |-> IF n = 1 THEN "listed" ELSE "word"] /\ present = Notes
  /\ txn = None /\ active = None
  /\ receipt = None /\ request = 0 /\ taken = 0
  /\ job = [NoJob EXCEPT !.pc = pc] /\ listing = NoList
  /\ leave = [writes |-> MaxWrites, changes |-> MaxChanges, requests |-> MaxRequests,
              lists |-> MaxLists, faults |-> MaxFaults]
Init == Start("idle")

-----------------------------------------------------------------------------
(* The schema, the rows and the files, as the index sees them *)

(* A person saves the schema: the field gets another kind, another key changes, or
   only guidance does *)
Saved(kind, others) == [rev |-> schema.rev + 1, kind |-> kind, others |-> others]
ChangeSchema ==
  /\ May("changes")
  /\ \/ \E k \in Kinds : schema' = Saved(k, schema.others)
     \/ schema' = Saved(schema.kind, schema.others + 1)
  /\ UNCHANGED <<mirror, present, txn, active, receipt, request, job, listing, taken>>

(* The barrier, LOCK TABLE notes IN SHARE MODE, until the generation is committed *)
Barred == job.pc \in {"fill", "check", "commit"}

(* coppermind_refresh_note_fields: in the row's own transaction, for the active generation *)
WriteRow(n, v) ==
  /\ txn = None /\ ~Barred /\ v # mirror[n] /\ May("writes")
  /\ txn' = [n |-> n, v |-> v, into |-> active # None,
             stored |-> IF active = None THEN None ELSE Indexed(active.keys.kind, v)]
  /\ UNCHANGED <<schema, mirror, present, active, receipt, request, job, listing, taken>>

Unsteady(n) == [listing EXCEPT !.steady = @ \ {n}]
CommitRow ==
  /\ txn # None /\ txn' = None
  /\ mirror' = [mirror EXCEPT ![txn.n] = txn.v]
  /\ active' = IF txn.into THEN [active EXCEPT !.stored[txn.n] = txn.stored] ELSE active
  /\ listing' = Unsteady(txn.n)
  /\ UNCHANGED <<schema, present, receipt, request, job, taken, leave>>

FailRow ==
  /\ txn # None /\ txn' = None
  /\ UNCHANGED <<schema, mirror, present, active, receipt, request, job, listing, taken, leave>>

(* A device takes a note's file away, or brings it back, before the mirror follows *)
Device(n) ==
  /\ May("writes")
  /\ present' = IF n \in present THEN present \ {n} ELSE present \cup {n}
  /\ listing' = Unsteady(n)
  /\ UNCHANGED <<schema, mirror, txn, active, receipt, request, job, taken>>

-----------------------------------------------------------------------------
(* The refresh: one at a time, begun every ten seconds *)

Receipt(state, keys) == [state |-> state, of |-> keys]
Forced == request # 0 \/ (receipt # None /\ receipt.state \in {"queued", "running"})
GivenUp == receipt = Receipt("failed", definitions)

request_rebuild ==
  /\ May("requests")
  /\ request' = MaxRequests - leave.requests + 1
  /\ receipt' = IF job.pc = "idle" THEN Receipt("queued", definitions) ELSE receipt
  /\ UNCHANGED <<schema, mirror, present, txn, active, job, listing, taken>>

Begin ==
  /\ job.pc = "idle" /\ (Forced \/ ~GivenUp)
  /\ job' = [NoJob EXCEPT !.pc = "look", !.keys = definitions, !.request = request, !.forced = Forced]
  /\ taken' = IF request = 0 THEN taken ELSE request
  /\ UNCHANGED <<schema, mirror, present, txn, active, receipt, request, listing, leave>>

Look ==
  /\ job.pc = "look"
  /\ IF active # None /\ active.keys = job.keys /\ ~job.forced
     THEN receipt' = Receipt("succeeded", job.keys) /\ job' = NoJob
     ELSE job' = [job EXCEPT !.pc = "lock"] /\ UNCHANGED receipt
  /\ UNCHANGED <<schema, mirror, present, txn, active, request, listing, taken, leave>>

(* The barrier waits for the transactions that have written rows *)
LockAtOnce ==
  /\ job.pc = "lock"
  /\ job' = [job EXCEPT !.pc = "fill"] /\ receipt' = Receipt("running", job.keys)
  /\ UNCHANGED <<schema, mirror, present, txn, active, request, listing, taken, leave>>

Lock ==
  /\ job.pc = "lock" /\ txn = None
  /\ job' = [job EXCEPT !.pc = "fill"] /\ receipt' = Receipt("running", job.keys)
  /\ UNCHANGED <<schema, mirror, present, txn, active, request, listing, taken, leave>>

Fill ==
  /\ job.pc = "fill"
  /\ job' = [job EXCEPT !.pc = "check", !.stored = [n \in Notes |-> Indexed(job.keys.kind, mirror[n])]]
  /\ UNCHANGED <<schema, mirror, present, txn, active, receipt, request, listing, taken, leave>>

AcknowledgeAny == request' = 0
acknowledge_request == request' = IF request = job.request THEN 0 ELSE request
Failed == receipt' = Receipt("failed", job.keys) /\ acknowledge_request /\ job' = NoJob

Check ==
  /\ job.pc = "check"
  /\ IF definitions = job.keys
     THEN job' = [job EXCEPT !.pc = "commit"] /\ UNCHANGED <<receipt, request>>
     ELSE Failed
  /\ UNCHANGED <<schema, mirror, present, txn, active, listing, taken, leave>>

Built == [keys |-> job.keys, stored |-> job.stored]
Commit ==
  /\ job.pc = "commit"
  /\ active' = Built /\ job' = [job EXCEPT !.pc = "settle"]
  /\ UNCHANGED <<schema, mirror, present, txn, receipt, request, listing, taken, leave>>

Settle ==
  /\ job.pc = "settle"
  /\ receipt' = Receipt("succeeded", job.keys) /\ acknowledge_request /\ job' = NoJob
  /\ UNCHANGED <<schema, mirror, present, txn, active, listing, taken, leave>>

(* A statement or the receipt fails; the barrier is not had in time; the answer to the
   commit is lost; and perhaps the receipt cannot be written either *)
FailJob ==
  /\ job.pc \notin {"idle", "off"}
  /\ \/ May("faults") /\ \/ UNCHANGED active
                         \/ job.pc = "commit" /\ active' = Built
     \/ job.pc = "lock" /\ txn # None /\ UNCHANGED <<leave, active>>
  /\ Failed \/ (job' = NoJob /\ leave' # leave /\ UNCHANGED <<receipt, request>>)
  /\ UNCHANGED <<schema, mirror, present, txn, listing, taken>>

-----------------------------------------------------------------------------
(* list_notes with a filter: one client asks for page after page *)

Refused == listing' = NoList          \* 409, 422 or 503: the client starts again

FirstPage ==
  /\ listing.pc \in {"idle", "done"} /\ May("lists")
  /\ listing' = [NoList EXCEPT !.pc = "select", !.kind = schema.kind, !.rev = schema.rev,
                               !.steady = {n \in present : Truly(n)}]
  /\ UNCHANGED <<schema, mirror, present, txn, active, receipt, request, job, taken>>

(* _decode_note_cursor: the cursor's context is the query's under the revision read now *)
NextPage ==
  /\ listing.pc = "paged"
  /\ IF schema.rev = listing.rev
     THEN listing' = [listing EXCEPT !.pc = "select", !.after = listing.from, !.got = {}]
     ELSE Refused
  /\ UNCHANGED <<schema, mirror, present, txn, active, receipt, request, job, taken, leave>>

(* The k smallest notes of S *)
Before(S, n) == {m \in S : m < n}
Earliest(S, k) == {n \in S : Cardinality(Before(S, n)) < k}
Last(S) == CHOOSE n \in S : \A m \in S : m <= n

(* conditions and the rows that meet them, in one snapshot; the clause must be valid
   under the schema read now, and its field indexed the way it is declared now *)
AnyGeneration == active # None
Ready == active # None /\ active.keys.kind = schema.kind

Select ==
  /\ listing.pc = "select"
  /\ IF listing.kind # schema.kind \/ ~Ready THEN Refused
     ELSE LET needed == Limit + 1 - Cardinality(listing.got)
              rest   == {n \in Notes : n > listing.after /\ Matching(active.stored[n])}
              some   == Earliest(rest, needed)
              end    == Cardinality(rest) < needed
          IN listing' = [listing EXCEPT !.pc = "read", !.found = some, !.end = end,
                           !.after = IF end THEN @ ELSE Last(some),
                           !.matched = @ \cup {n \in Notes : Truly(n)}]
  /\ UNCHANGED <<schema, mirror, present, txn, active, receipt, request, job, taken, leave>>

(* _read_current: a candidate whose file is gone is left out *)
Read ==
  /\ listing.pc = "read"
  /\ LET got == listing.got \cup (listing.found \cap present)
         on  == Cardinality(got) < Limit + 1 /\ ~listing.end
     IN listing' = [listing EXCEPT !.pc = IF on THEN "select" ELSE "answer", !.got = got, !.found = {}]
  /\ UNCHANGED <<schema, mirror, present, txn, active, receipt, request, job, taken, leave>>

CursorPastTheExtra(page, got) == Last(got)
Cursor(page, got) == Last(page)

Answer ==
  /\ listing.pc = "answer"
  /\ IF schema.rev # listing.rev THEN Refused
     ELSE LET page == Earliest(listing.got, Limit)
              more == Cardinality(listing.got) > Limit
          IN listing' = [listing EXCEPT !.pc = IF more THEN "paged" ELSE "done",
                           !.listed = @ \cup page, !.from = IF more THEN Cursor(page, listing.got) ELSE @]
  /\ UNCHANGED <<schema, mirror, present, txn, active, receipt, request, job, taken, leave>>

-----------------------------------------------------------------------------
(* The process dies: transactions are rolled back, the files stay *)
Crash ==
  /\ May("faults")
  /\ job' = NoJob /\ txn' = None /\ listing' = NoList
  /\ \/ UNCHANGED active
     \/ job.pc = "commit" /\ active' = Built
  /\ UNCHANGED <<schema, mirror, present, receipt, request, taken>>

Refreshing == Begin \/ Look \/ Lock \/ Fill \/ Check \/ Commit \/ Settle
EndRow == CommitRow \/ FailRow
Next ==
  \/ ChangeSchema \/ request_rebuild \/ Refreshing \/ FailJob \/ EndRow \/ Crash
  \/ \E n \in Notes : Device(n) \/ \E v \in Values : WriteRow(n, v)
  \/ FirstPage \/ NextPage \/ Select \/ Read \/ Answer
Spec == Init /\ [][Next]_vars
-----------------------------------------------------------------------------
(* Properties *)

(* The active generation holds, under its own definitions, what every committed row says:
   a rebuild misses no write beside it, and the trigger none after it. *)
IndexFollows ==
  active # None => \A n \in Notes : active.stored[n] = Indexed(active.keys.kind, mirror[n])

(* A listing read to its end names every note that met the filter all along, and no
   page names one that did not: never a misleading answer from an index that was
   built for other definitions (docs/api.md, Filters). *)
ListsAreTrue ==
  /\ listing.listed \subseteq listing.matched
  /\ listing.pc = "done" => listing.steady \subseteq listing.listed

(* A request to rebuild is acknowledged only by a refresh that began after it. *)
RequestsAreTaken == request = 0 => taken = MaxRequests - leave.requests

(* The receipt says that a job succeeded only of definitions that are indexed now, so
   that the next refresh, and the admin's page, may go by it. *)
ReceiptIsTrue ==
  receipt # None =>
    (receipt.state = "succeeded" => active # None /\ active.keys = receipt.of)
=============================================================================
