---------------------------- MODULE Confirmations ----------------------------
(***************************************************************************)
(* What a completed review leaves behind (note_lifecycle.py): the          *)
(* confirmed record of a note in finalized.json, its contribution in       *)
(* dossiers.json, and the follow-up that says its calendar context has     *)
(* changed since.  Filing finalizes and follows, a person resolves, and    *)
(* check_calendars compares every record with its note and the calendars.  *)
(* One note; what the writers write under the context lock is one step,    *)
(* unless the store dies between two files.                                *)
(***************************************************************************)
EXTENDS Naturals

CONSTANTS MaxEdits, MaxEvidence, MaxResolves, MaxFaults, None

VARIABLES note,       \* its version, and whether it is there, reviewed
          evidence,   \* the version of the calendars
          finalized, dossier, followup,
          generation, \* the evidence of the last check, None after a start
          filing,     \* finalize or follow under way
          check,      \* check_calendars under way
          resolve,    \* the evidence a resolution has compared with
          last,       \* history: the confirmation written last, and whether a check has
                      \* found the note unreviewed or gone since
          raced,      \* history: evidence that has been checked was not compared with the record
          leave

vars == <<note, evidence, finalized, dossier, followup, generation, filing, check, resolve,
          last, raced, leave>>
world == <<note, evidence>>
records == <<finalized, dossier, followup>>

NotFiling == [pc |-> "idle", n |-> None, cal |-> None]
NoCheck == [pc |-> "idle", gen |-> None, base |-> None, record |-> None, told |-> None]

Start(pc) ==
  /\ note = [n |-> 0, reviewed |-> TRUE] /\ evidence = 0
  /\ finalized = None /\ dossier = None /\ followup = None /\ generation = None
  /\ filing = [NotFiling EXCEPT !.pc = pc] /\ check = [NoCheck EXCEPT !.pc = pc] /\ resolve = None
  /\ last = None /\ raced = FALSE
  /\ leave = [edits |-> MaxEdits, resolves |-> MaxResolves, faults |-> MaxFaults]
Init == Start("idle")

May(what) == leave[what] > 0 /\ leave' = [leave EXCEPT ![what] = @ - 1]
Confirmed(r) == r # None /\ r.state = "confirmed"
Contribution(r) == IF Confirmed(r) THEN r.n ELSE None

(* finalized.json, then dossiers.json; the store may die between *)
Save(r) == finalized' = r /\ dossier' = Contribution(r)
Confirms(r) == last' = [n |-> r.n, cal |-> r.cal, lost |-> FALSE]
Missed(r) == raced' = (raced \/ (r.cal # generation /\ generation = evidence))

-----------------------------------------------------------------------------
(* The note and the calendars change *)

Edit ==
  /\ May("edits")
  /\ \E reviewed \in BOOLEAN : note' = [n |-> note.n + 1, reviewed |-> reviewed]
  /\ UNCHANGED <<evidence, records, generation, filing, check, resolve, last, raced>>

CalendarsChange ==
  /\ evidence < MaxEvidence /\ evidence' = evidence + 1
  /\ UNCHANGED <<note, records, generation, filing, check, resolve, last, raced, leave>>

-----------------------------------------------------------------------------
(* finalize: a reviewed note that has stood still, its evidence, the record *)

FilingReads ==
  /\ filing.pc = "idle" /\ note.reviewed /\ ~(Confirmed(finalized) /\ finalized.n = note.n)
  /\ filing' = [NotFiling EXCEPT !.pc = "ask", !.n = note.n]
  /\ UNCHANGED <<world, records, generation, check, resolve, last, raced, leave>>

FilingAsks ==
  /\ filing.pc = "ask" /\ filing' = [filing EXCEPT !.pc = "confirm", !.cal = evidence]
  /\ UNCHANGED <<world, records, generation, check, resolve, last, raced, leave>>

(* A note confirmed before keeps the evidence it was first confirmed with *)
Finalize ==
  /\ filing.pc = "confirm" /\ filing' = [filing EXCEPT !.pc = "rewrite"]
  /\ IF Confirmed(finalized) /\ finalized.n = filing.n
     THEN dossier' = Contribution(finalized) /\ UNCHANGED <<finalized, last, raced>>
     ELSE LET r == [n |-> filing.n, state |-> "confirmed",
                    cal |-> IF finalized = None THEN filing.cal ELSE finalized.cal]
          IN Save(r) /\ Confirms(r) /\ Missed(r)
  /\ UNCHANGED <<world, followup, generation, check, resolve, leave>>

(* Filing rewrites the links of the note it has read, or leaves it *)
FilingRewrites ==
  /\ filing.pc = "rewrite"
  /\ IF note.n = filing.n /\ note.reviewed
     THEN /\ filing' = [filing EXCEPT !.pc = "follow", !.n = note.n + 1]
          /\ note' = [note EXCEPT !.n = @ + 1]
     ELSE filing' = NotFiling /\ UNCHANGED note
  /\ UNCHANGED <<evidence, records, generation, check, resolve, last, raced, leave>>

Follow ==
  /\ filing.pc = "follow" /\ filing' = NotFiling
  /\ IF Confirmed(finalized) /\ finalized.n # filing.n
     THEN LET r == [finalized EXCEPT !.n = filing.n] IN Save(r) /\ Confirms(r)
     ELSE UNCHANGED <<finalized, dossier, last>>
  /\ UNCHANGED <<world, followup, generation, check, resolve, raced, leave>>

-----------------------------------------------------------------------------
(* check_calendars, on every tick *)

CheckBegins ==
  /\ check.pc = "idle"
  /\ check' = [pc |-> "read", gen |-> evidence, base |-> finalized, record |-> finalized, told |-> None]
  /\ UNCHANGED <<world, records, generation, filing, resolve, last, raced, leave>>

Changed == check.gen # generation
CheckReads ==
  /\ check.pc = "read"
  /\ IF ~Confirmed(check.record) THEN check' = [check EXCEPT !.pc = "write"] /\ UNCHANGED last
     ELSE IF ~note.reviewed
     THEN /\ check' = [check EXCEPT !.pc = "write", !.record.state = "withdrawn"]
          /\ last' = [last EXCEPT !.lost = TRUE]
     ELSE /\ check' = [check EXCEPT !.pc = IF ~Changed /\ note.n = check.record.n THEN "write" ELSE "ask"]
          /\ UNCHANGED last
  /\ UNCHANGED <<world, records, generation, filing, resolve, raced, leave>>

(* The note cannot be read: it no longer supports a contribution *)
CheckFails ==
  /\ check.pc \in {"read", "ask"} /\ Confirmed(check.record) /\ May("faults")
  /\ check' = [check EXCEPT !.pc = "write", !.record.state = "unavailable"]
  /\ last' = [last EXCEPT !.lost = TRUE]
  /\ UNCHANGED <<world, records, generation, filing, resolve, raced>>

CheckAsks ==
  /\ check.pc = "ask"
  /\ check' = [check EXCEPT !.pc = "write", !.told = IF evidence # check.record.cal THEN evidence ELSE None]
  /\ UNCHANGED <<world, records, generation, filing, resolve, last, raced, leave>>

StandsOver == FALSE
Stands == finalized # check.base
ToldOnce == check.told
Told == IF check.told # None THEN check.told
        ELSE IF Changed \/ ~Confirmed(check.record) THEN None ELSE followup
CheckWrites ==
  /\ check.pc = "write" /\ check' = NoCheck
  /\ generation' = check.gen
  /\ IF Stands THEN /\ dossier' = Contribution(finalized) /\ UNCHANGED <<finalized, followup>>
     ELSE Save(check.record) /\ followup' = Told
  /\ raced' = IF Changed THEN finalized # check.base ELSE raced
  /\ UNCHANGED <<world, filing, resolve, last, leave>>

-----------------------------------------------------------------------------
(* resolve_calendar, with the evidence the person has looked at *)

ResolveReads ==
  /\ resolve = None /\ followup = evidence /\ May("resolves")
  /\ resolve' = [n |-> note.n, cal |-> evidence]
  /\ UNCHANGED <<world, records, generation, filing, check, last, raced>>

Resolve ==
  /\ resolve # None /\ resolve' = None
  /\ finalized # None
  /\ finalized' = [finalized EXCEPT !.cal = resolve.cal] /\ followup' = None
  /\ last' = [last EXCEPT !.cal = resolve.cal] /\ Missed(resolve)
  /\ UNCHANGED <<world, dossier, generation, filing, check, leave>>

(* The store dies, perhaps after the first of two files *)
Restart ==
  /\ May("faults")
  /\ filing' = NotFiling /\ check' = NoCheck /\ resolve' = None /\ generation' = None
  /\ \/ UNCHANGED <<records, last>>
     \/ /\ filing.pc = "confirm" /\ finalized = None
        /\ finalized' = [n |-> filing.n, state |-> "confirmed", cal |-> filing.cal]
        /\ Confirms(finalized') /\ UNCHANGED <<dossier, followup>>
     \/ /\ check.pc = "write" /\ finalized = check.base
        /\ finalized' = check.record /\ UNCHANGED <<dossier, followup, last>>
  /\ UNCHANGED <<world, raced>>

Finalizes == FilingReads \/ FilingAsks \/ Finalize \/ FilingRewrites \/ Follow
Checks == CheckBegins \/ CheckReads \/ CheckAsks \/ CheckWrites
Next == Edit \/ CalendarsChange \/ Finalizes \/ Checks \/ CheckFails \/ ResolveReads \/ Resolve \/ Restart

Spec == Init /\ [][Next]_vars
Fairness == WF_vars(Finalizes) /\ WF_vars(Checks) /\ WF_vars(Resolve)
FairSpec == Spec /\ Fairness

-----------------------------------------------------------------------------
TypeOK == /\ Confirmed(finalized) => finalized.n <= note.n /\ finalized.cal <= evidence
          /\ followup # None => followup <= evidence

(* A confirmation stands: a record says what was confirmed or resolved last, and is withdrawn
   only where a check has found the note unreviewed or gone since. *)
ConfirmationStands ==
  finalized # None => /\ finalized.n = last.n /\ finalized.cal = last.cal
                      /\ Confirmed(finalized) \/ last.lost

(* Calendar context that has changed is told in the end, and the dossiers come to agree
   with the records *)
ChangesAreTold ==
  <>[](/\ dossier = Contribution(finalized)
       /\ (Confirmed(finalized) /\ finalized.cal # evidence) => (followup # None \/ raced))

(* What a person has confirmed is kept, and what has changed about it is told *)
ConfirmationsHold == []ConfirmationStands /\ ChangesAreTold
=============================================================================
