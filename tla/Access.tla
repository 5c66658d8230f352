------------------------------- MODULE Access -------------------------------
(***************************************************************************)
(* How the API admits a request (auth.py of the API service): the key      *)
(* records it read from the store, good for a while, the verifications it  *)
(* has made of them, each as good as the records it was made from, and the *)
(* one read that all requests wait for when the records have grown old.    *)
(* One key, which is revoked at some time; a secret takes its time to      *)
(* verify, and records may be replaced meanwhile.                          *)
(***************************************************************************)
EXTENDS Naturals

CONSTANTS Requests,     \* concurrent requests
          MaxRequests, MaxTime, MaxFaults,
          Ttl,          \* CACHE_TTL_SECONDS
          Patience,     \* how long a read of the store takes at most
          None

VARIABLES now,
          revoked,    \* when the key was revoked in the store
          records,    \* the key's record as it was read, until when it holds, its generation
          loading,    \* the read under way: since when, and the answer of the store
          verified,   \* until when the verification of the key's secret holds
          asked,      \* each request: where it is, and what its verification was begun with
          leave

vars == <<now, revoked, records, loading, verified, asked, leave>>

Idle == [pc |-> "idle", live |-> FALSE, generation |-> 0, until |-> 0, at |-> 0]
Start(pc) ==
  /\ now = 0 /\ revoked = None
  /\ records = [live |-> FALSE, until |-> 0, generation |-> 0]
  /\ loading = [since |-> None, live |-> None] /\ verified = 0
  /\ asked = [q \in Requests |-> [Idle EXCEPT !.pc = pc]]
  /\ leave = [requests |-> MaxRequests, faults |-> MaxFaults]
Init == Start("idle")

May(what) == leave[what] > 0 /\ leave' = [leave EXCEPT ![what] = @ - 1]
At(q, pc) == asked[q].pc = pc
Go(q, a) == asked' = [asked EXCEPT ![q] = a]
NotLoading == [since |-> None, live |-> None]

-----------------------------------------------------------------------------
(* Time passes while nothing is ready to run; the store is answered for in time *)
Tick ==
  /\ \E q \in Requests : ~At(q, "off")
  /\ now < MaxTime /\ now' = now + 1
  /\ \A q \in Requests : ~At(q, "records")
  /\ loading.since # None => now < loading.since + Patience
  /\ UNCHANGED <<revoked, records, loading, verified, asked, leave>>

Revoke == /\ revoked = None /\ now > 0 /\ revoked' = now
          /\ UNCHANGED <<now, records, loading, verified, asked, leave>>

-----------------------------------------------------------------------------
(* authenticate *)

Ask(q) ==
  /\ At(q, "idle") /\ May("requests")
  /\ Go(q, [Idle EXCEPT !.pc = IF verified > now THEN "admitted" ELSE "records", !.at = now])
  /\ UNCHANGED <<now, revoked, records, loading, verified>>

Decides(q, live) ==
  Go(q, IF live THEN [pc |-> "verify", live |-> TRUE, generation |-> records.generation,
                      until |-> records.until, at |-> now]
        ELSE [Idle EXCEPT !.pc = "refused"])
Records(q) ==
  /\ At(q, "records")
  /\ IF records.until > now THEN Decides(q, records.live) /\ UNCHANGED loading
     ELSE /\ Go(q, [asked[q] EXCEPT !.pc = "waiting"])
          /\ loading' = IF loading.since = None THEN [since |-> now, live |-> None] ELSE loading
  /\ UNCHANGED <<now, revoked, records, verified, leave>>

StoreAnswers ==
  /\ loading.since # None /\ loading.live = None
  /\ loading' = [loading EXCEPT !.live = revoked = None]
  /\ UNCHANGED <<now, revoked, records, verified, asked, leave>>

(* Everybody who waits goes on with what was read *)
Loaded ==
  /\ loading.live # None /\ loading' = NotLoading
  /\ records' = [live |-> loading.live, until |-> now + Ttl, generation |-> records.generation + 1]
  /\ verified' = 0
  /\ asked' = [q \in Requests |-> IF At(q, "waiting") THEN [asked[q] EXCEPT !.pc = "records"] ELSE asked[q]]
  /\ UNCHANGED <<now, revoked, leave>>

LoadFails ==
  /\ loading.since # None /\ May("faults") /\ loading' = NotLoading
  /\ asked' = [q \in Requests |-> IF At(q, "waiting") THEN [Idle EXCEPT !.pc = "unavailable"] ELSE asked[q]]
  /\ UNCHANGED <<now, revoked, records, verified>>

(* The decision stands only against the records in force when the secret has been verified,
   and is kept for as long as those it was made from *)
Whatever(q) == TRUE
InForce(q) == records.generation = asked[q].generation
FromNow(q) == now + Ttl
Until(q) == asked[q].until
Verified(q) ==
  /\ At(q, "verify")
  /\ IF InForce(q) THEN Go(q, [asked[q] EXCEPT !.pc = "admitted"]) /\ verified' = Until(q)
     ELSE Go(q, [Idle EXCEPT !.pc = "records"]) /\ UNCHANGED verified
  /\ UNCHANGED <<now, revoked, records, loading, leave>>

Answered(q) == /\ asked[q].pc \in {"admitted", "refused", "unavailable"} /\ Go(q, Idle)
               /\ UNCHANGED <<now, revoked, records, loading, verified, leave>>

Next == \/ Tick \/ Revoke \/ StoreAnswers \/ Loaded \/ LoadFails
        \/ \E q \in Requests : Ask(q) \/ Records(q) \/ Verified(q) \/ Answered(q)
Spec == Init /\ [][Next]_vars

-----------------------------------------------------------------------------
TypeOK == /\ now \in 0 .. MaxTime /\ verified <= now + Ttl
          /\ \A q \in Requests : At(q, "waiting") => loading.since # None

(* A revoked key stays out: nobody is admitted whom the records in force refuse, nor by
   records older than their time and the answer of the store (keys.py of Admin: "Changes reach
   the API within five minutes"). *)
RevokedStaysOut ==
  [][\A q \in Requests : (~At(q, "admitted") /\ asked'[q].pc = "admitted") =>
       records.live /\ (revoked = None \/ asked'[q].at < revoked + Ttl + Patience)]_vars
=============================================================================
