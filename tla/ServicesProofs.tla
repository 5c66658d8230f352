---------------------------- MODULE ServicesProofs ----------------------------
(***************************************************************************)
(* Theorems about the services, each by itself.                            *)
(***************************************************************************)
EXTENDS Services, FiniteSetTheorems, WellFoundedInduction, TLAPS

-----------------------------------------------------------------------------
(* Access: the API's key cache *)

Pcs == {"idle", "records", "waiting", "verify", "admitted", "refused", "unavailable"}
Request == [pc : Pcs, live : BOOLEAN, generation : Nat, until : Nat, at : Nat]

\* A moment the key could still be admitted at.
Tolerable(t) == revoked = None \/ t <= revoked + Ttl + Patience

AccessTypes ==
    /\ now \in Nat /\ revoked \in Nat \cup {None} /\ verified \in Nat
    /\ keyset \in [live : BOOLEAN, until : Nat, generation : Nat]
    /\ loading \in [since : Nat \cup {None}, live : BOOLEAN \cup {None}]
    /\ asked \in [Callers -> Request]
    /\ revoked # None => revoked <= now

\* The read under way ends in time, and its answer was given after it began.
Loading ==
    /\ loading.since # None => loading.since <= now /\ now <= loading.since + Patience
    /\ loading.live # None => loading.since # None
    /\ loading.live = TRUE /\ revoked # None => loading.since <= revoked

\* Records that admit were read before the key was revoked, or hold no longer than a
\* read takes and records are good for; what was verified holds no longer than they.
Holding ==
    /\ keyset.live => Tolerable(keyset.until)
    /\ keyset.until <= now + Ttl
    /\ verified > now => keyset.live /\ verified <= keyset.until
Verifying ==
    \A q \in Callers : Api!At(q, "verify") =>
        /\ asked[q].at < asked[q].until /\ asked[q].generation <= keyset.generation
        /\ Api!InForce(q) => keyset.live /\ asked[q].until = keyset.until

AccessInv == AccessTypes /\ Loading /\ Holding /\ Verifying

\* The cache starts empty: no records are held and nobody asks.
LEMMA AccessBegins == AccessConstants /\ Api!Init => AccessInv
<1> SUFFICES ASSUME AccessConstants, Api!Init PROVE AccessInv
  OBVIOUS
<1> USE DEF AccessConstants, Api!Init, Api!Start
<1>1. asked = [q \in Callers |-> [pc |-> "idle", live |-> FALSE, generation |-> 0, until |-> 0, at |-> 0]]
  BY DEF Api!Idle
<1>2. AccessTypes
  <2>1. asked \in [Callers -> Request]
    <3>1. [pc |-> "idle", live |-> FALSE, generation |-> 0, until |-> 0, at |-> 0] \in Request
      BY DEF Request, Pcs
    <3> QED
      BY <1>1, <3>1
  <2>2. /\ keyset \in [live : BOOLEAN, until : Nat, generation : Nat]
        /\ loading \in [since : Nat \cup {None}, live : BOOLEAN \cup {None}]
    OBVIOUS
  <2> QED
    BY <2>1, <2>2 DEF AccessTypes
<1>3. Loading /\ Holding
  BY DEF Loading, Holding
<1>4. Verifying
  BY <1>1 DEF Verifying, Api!At
<1> QED
  BY <1>2, <1>3, <1>4 DEF AccessInv

\* No step of a request but the last of a verification, and no passing of time,
\* keeps alive what has to end.
LEMMA AccessSteps ==
  ASSUME AccessConstants, AccessInv, [Api!Next]_(Api!vars)
  PROVE  AccessInv'
<1> USE DEF AccessConstants
<1>t. /\ AccessTypes /\ Loading /\ Holding /\ Verifying
      /\ \A q \in Callers : asked[q] \in Request
  BY DEF AccessInv, AccessTypes
<1>i. Api!Idle \in Request /\ \A t \in Nat, p \in Pcs : [Api!Idle EXCEPT !.pc = p] \in Request
      /\ [Api!Idle EXCEPT !.pc = p, !.at = t] \in Request
  BY DEF Api!Idle, Request, Pcs
<1>1. CASE Api!Tick
  <2> USE <1>1, <1>t DEF Api!Tick
  <2>1. AccessTypes'
    BY DEF AccessTypes
  <2>2. Loading'
    BY DEF Loading, AccessTypes
  <2>3. Holding'
    BY DEF Holding, Tolerable, AccessTypes
  <2>4. Verifying'
    BY DEF Verifying, Api!At, Api!InForce
  <2> QED
    BY <2>1, <2>2, <2>3, <2>4 DEF AccessInv
<1>2. CASE Api!Revoke
  <2> USE <1>2, <1>t DEF Api!Revoke
  <2>1. AccessTypes'
    BY DEF AccessTypes
  <2>2. Loading'
    BY DEF Loading, AccessTypes
  <2>3. Holding'
    BY DEF Holding, Tolerable, AccessTypes
  <2>4. Verifying'
    BY DEF Verifying, Api!At, Api!InForce
  <2> QED
    BY <2>1, <2>2, <2>3, <2>4 DEF AccessInv
<1>3. CASE Api!StoreAnswers
  <2> USE <1>3, <1>t DEF Api!StoreAnswers
  <2>1. AccessTypes'
    BY DEF AccessTypes
  <2>2. Loading'
    BY DEF Loading, AccessTypes
  <2>3. Holding' /\ Verifying'
    BY DEF Holding, Tolerable, AccessTypes, Verifying, Api!At, Api!InForce
  <2> QED
    BY <2>1, <2>2, <2>3 DEF AccessInv
<1>4. CASE Api!Loaded
  <2> USE <1>4, <1>t DEF Api!Loaded, Api!NotLoading
  <2>1. \A q \in Callers : /\ asked'[q] \in Request
                           /\ Api!At(q, "verify")' => Api!At(q, "verify") /\ asked'[q] = asked[q]
    BY DEF AccessTypes, Request, Pcs, Api!At
  <2>2. AccessTypes'
    BY <2>1 DEF AccessTypes
  <2>l. loading.live \in BOOLEAN /\ loading.since \in Nat
    BY DEF Loading, AccessTypes
  <2>r. /\ keyset'.live = loading.live /\ keyset'.until = now + Ttl
        /\ keyset'.generation = keyset.generation + 1
    OBVIOUS
  <2>3. Loading'
    BY DEF Loading
  <2>5. loading.live = TRUE => Tolerable(now + Ttl)
    <3>1. loading.live = TRUE /\ revoked # None => now <= revoked + Patience
      BY <2>l DEF Loading, AccessTypes
    <3> QED
      BY <3>1 DEF Tolerable, AccessTypes
  <2>6. Holding'
    BY <2>l, <2>r, <2>5 DEF Holding, Tolerable, AccessTypes
  <2>4. Verifying'
    <3>1. \A q \in Callers : asked'[q].pc = "verify" =>
             /\ asked[q].generation <= keyset.generation /\ asked[q].generation \in Nat
             /\ asked[q].at < asked[q].until /\ asked'[q] = asked[q]
      BY <2>1 DEF Verifying, Request, Api!At
    <3>2. keyset.generation \in Nat
      BY DEF AccessTypes
    <3> HIDE <1>4 DEF Api!Loaded
    <3>3. ASSUME NEW q \in Callers, asked'[q].pc = "verify"
          PROVE  /\ asked'[q].at < asked'[q].until
                 /\ asked'[q].generation <= keyset'.generation
                 /\ keyset'.generation # asked'[q].generation
      BY <2>r, <3>1, <3>2, <3>3
    <3> QED
      BY <3>3 DEF Verifying, Api!InForce, Api!At
  <2> QED
    BY <2>2, <2>3, <2>6, <2>4 DEF AccessInv
<1>5. CASE Api!LoadFails
  <2> USE <1>5, <1>t DEF Api!LoadFails, Api!NotLoading
  <2>1. \A q \in Callers : /\ asked'[q] \in Request
                           /\ Api!At(q, "verify")' => Api!At(q, "verify") /\ asked'[q] = asked[q]
    BY <1>i DEF AccessTypes, Pcs, Api!At, Api!Idle
  <2>2. AccessTypes'
    BY <2>1 DEF AccessTypes, Api!LoadFails
  <2>3. Loading' /\ Holding'
    BY DEF Loading, Holding, Tolerable, AccessTypes
  <2>4. Verifying'
    BY <2>1 DEF Verifying, Api!InForce
  <2> QED
    BY <2>2, <2>3, <2>4 DEF AccessInv
<1>6. ASSUME NEW q \in Callers, Api!Ask(q) \/ Api!Records(q) \/ Api!Verified(q) \/ Api!Answered(q)
      PROVE  AccessInv'
  <2> USE <1>6, <1>t
  <2>1. UNCHANGED <<now, revoked, keyset>>
    BY DEF Api!Ask, Api!Records, Api!Verified, Api!Answered
  <2>2. /\ asked' = [asked EXCEPT ![q] = asked'[q]] /\ asked'[q] \in Request
    <3>1. CASE Api!Ask(q)
      BY <3>1, <1>i DEF Api!Ask, Api!Go, AccessTypes, Pcs, Api!May
    <3>2. CASE Api!Records(q)
      <4>1. [asked[q] EXCEPT !.pc = "waiting"] \in Request
        BY DEF Request, Pcs
      <4>2. keyset.generation \in Nat /\ keyset.until \in Nat /\ now \in Nat
        BY DEF AccessTypes
      <4>3. [pc |-> "verify", live |-> TRUE, generation |-> keyset.generation,
             until |-> keyset.until, at |-> now] \in Request
        BY <4>2 DEF Request, Pcs
      <4>4. asked'[q] \in Request
        BY <3>2, <4>1, <4>3, <1>i DEF Api!Records, Api!Decides, Api!Go, AccessTypes, Pcs
      <4> QED
        BY <3>2, <4>4 DEF Api!Records, Api!Decides, Api!Go, AccessTypes
    <3>3. CASE Api!Verified(q)
      <4>1. [asked[q] EXCEPT !.pc = "admitted"] \in Request
        BY DEF Request, Pcs
      <4> QED
        BY <3>3, <4>1, <1>i DEF Api!Verified, Api!Go, AccessTypes, Pcs
    <3>4. CASE Api!Answered(q)
      BY <3>4, <1>i DEF Api!Answered, Api!Go, AccessTypes
    <3> QED
      BY <3>1, <3>2, <3>3, <3>4
  <2>3. /\ loading' = loading \/ (loading.since = None /\ loading' = [since |-> now, live |-> None])
        /\ verified' = verified \/ (Api!Verified(q) /\ Api!InForce(q) /\ verified' = asked[q].until)
    BY DEF Api!Ask, Api!Records, Api!Verified, Api!Answered, Api!Until
  <2>4. AccessTypes'
    BY <2>1, <2>2, <2>3 DEF AccessTypes, Request
  <2>5. Loading'
    <3>1. CASE loading' = loading
      BY <2>1, <3>1 DEF Loading
    <3>2. CASE loading.since = None /\ loading' = [since |-> now, live |-> None]
      <4>1. loading'.since = now /\ loading'.live = None /\ loading'.live # TRUE
        <5>1. None \notin BOOLEAN /\ now \in Nat /\ Patience \in Nat
          BY DEF AccessTypes
        <5>2. loading'.since = now /\ loading'.live = None
          BY <3>2
        <5>3. None # TRUE
          BY <5>1, Zenon
        <5>4. loading'.live # TRUE
          BY <5>2, <5>3, Zenon
        <5> QED
          BY <5>2, <5>4, Zenon
      <4> QED
        <5>1. now <= now /\ now <= now + Patience
          BY DEF AccessTypes
        <5> QED
          BY <2>1, <4>1, <5>1, Zenon DEF Loading
    <3> QED
      BY <2>3, <3>1, <3>2
  <2>6. Holding'
    BY <2>1, <2>3 DEF Holding, Tolerable, Verifying, Api!Verified, AccessTypes
  <2>7. Api!At(q, "verify")' =>
           asked'[q].at < asked'[q].until /\ asked'[q].generation <= keyset.generation
           /\ (asked'[q].generation = keyset.generation => keyset.live /\ asked'[q].until = keyset.until)
    <3>1. CASE Api!Records(q)
      <4>1. CASE keyset.until > now /\ keyset.live
        <5>1. asked'[q] = [pc |-> "verify", live |-> TRUE, generation |-> keyset.generation,
                           until |-> keyset.until, at |-> now]
          BY <3>1, <4>1 DEF Api!Records, Api!Decides, Api!Go, AccessTypes
        <5>2. /\ asked'[q].at = now /\ asked'[q].until = keyset.until
              /\ asked'[q].generation = keyset.generation
          BY <5>1
        <5> QED
          BY <4>1, <5>2 DEF AccessTypes
      <4>2. CASE keyset.until > now /\ ~keyset.live
        BY <3>1, <4>2 DEF Api!Records, Api!Decides, Api!Go, Api!At, AccessTypes, Api!Idle
      <4>3. CASE ~(keyset.until > now)
        BY <3>1, <4>3 DEF Api!Records, Api!Go, Api!At, AccessTypes, Request
      <4> QED
        BY <4>1, <4>2, <4>3
    <3>2. CASE Api!Ask(q) \/ Api!Verified(q) \/ Api!Answered(q)
      <4>1. asked'[q].pc # "verify"
        <5>1. [asked[q] EXCEPT !.pc = "admitted"].pc = "admitted"
          BY DEF Request
        <5> QED
          <6>1. CASE Api!Ask(q)
            BY <6>1 DEF Api!Ask, Api!Go, AccessTypes, Api!Idle
          <6>2. CASE Api!Verified(q)
            <7>1. asked'[q] = [asked[q] EXCEPT !.pc = "admitted"] \/ asked'[q].pc = "records"
              BY <6>2 DEF Api!Verified, Api!Go, AccessTypes, Api!Idle
            <7> QED
              BY <5>1, <7>1
          <6>3. CASE Api!Answered(q)
            BY <6>3 DEF Api!Answered, Api!Go, AccessTypes, Api!Idle
          <6> QED
            BY <3>2, <6>1, <6>2, <6>3
      <4> QED
        BY <4>1 DEF Api!At
    <3> QED
      BY <3>1, <3>2
  <2>8. Verifying'
    BY <2>1, <2>2, <2>7 DEF Verifying, Api!At, Api!InForce, AccessTypes
  <2> QED
    BY <2>4, <2>5, <2>6, <2>8 DEF AccessInv
<1>7. CASE UNCHANGED Api!vars
  BY <1>7, <1>t DEF Api!vars, AccessInv, AccessTypes, Loading, Holding, Verifying, Tolerable, Api!At, Api!InForce
<1> QED
  BY <1>1, <1>2, <1>3, <1>4, <1>5, <1>6, <1>7 DEF Api!Next

\* Nobody is let in with a key that was revoked more than the cache's time and the
\* time of a read ago, nor with one the records in force refuse (auth.py, authenticate).
THEOREM RevokedKeysStayOut == Api!Spec => RevokedStaysOut
<1> USE ServicesAssumption
<1>1. AccessInv /\ [Api!Next]_(Api!vars) =>
        [\A q \in Callers : (~Api!At(q, "admitted") /\ asked'[q].pc = "admitted") =>
           keyset.live /\ (revoked = None \/ asked'[q].at < revoked + Ttl + Patience)]_(Api!vars)
  <2> SUFFICES ASSUME AccessInv, Api!Next, NEW q \in Callers, ~Api!At(q, "admitted"),
                      asked'[q].pc = "admitted"
               PROVE  keyset.live /\ (revoked = None \/ asked'[q].at < revoked + Ttl + Patience)
    BY DEF Api!vars, Api!At
  <2>t. /\ AccessTypes /\ Holding /\ Verifying /\ asked[q] \in Request
    BY DEF AccessInv, AccessTypes
  <2>1. CASE Api!Ask(q)
    BY <2>1, <2>t DEF Api!Ask, Api!Go, Api!Idle, Holding, Tolerable, AccessTypes, AccessConstants
  <2>2. CASE Api!Verified(q)
    BY <2>2, <2>t DEF Api!Verified, Api!Go, Api!Idle, Verifying, Holding, Tolerable, AccessTypes,
       AccessConstants, Request
  <2>3. ~Api!Ask(q) /\ ~Api!Verified(q) => FALSE
    BY <2>t DEF Api!Next, Api!Tick, Api!Revoke, Api!StoreAnswers, Api!Loaded, Api!LoadFails, Api!Ask,
       Api!Verified, Api!Records, Api!Decides, Api!Answered, Api!Go, Api!At, Api!Idle, AccessTypes, Request
  <2> QED
    BY <2>1, <2>2, <2>3
<1> QED
  BY <1>1, AccessBegins, AccessSteps, PTL DEF Api!Spec, Api!RevokedStaysOut, RevokedStaysOut

-----------------------------------------------------------------------------
(* FieldIndex: the index, its receipt and requests, and filtered listings *)

Job         == [pc : {"idle", "look", "lock", "fill", "check", "commit", "settle"},
                keys : Definitions \cup {None}, request : Nat, forced : BOOLEAN,
                stored : [FieldNotes -> Stored] \cup {None}]
Left        == [writes : Nat, changes : Nat, requests : 0 .. FieldRequests, lists : Nat, faults : Nat]

IndexTypes ==
    /\ ischema \in [rev : Nat, kind : Fields!Kinds, others : Nat]
    /\ mirror \in [FieldNotes -> Fields!Values] /\ present \subseteq FieldNotes
    /\ txn \in Writing \cup {None} /\ active \in Generation \cup {None}
    /\ receipt \in Receipts \cup {None}
    /\ refresh \in Job /\ retry \in Nat /\ ileave \in Left

\* A row's trigger stored what the active generation wants of it, and no generation
\* is being built while it is not committed.
Triggered ==
    txn # None =>
        /\ ~Fields!Barred /\ (txn.into <=> active # None)
        /\ txn.into => txn.stored = Fields!Indexed(active.keys.kind, txn.v)

\* Behind the barrier what was filled stays true, and the receipt says that a job runs.
Building ==
    /\ refresh.pc # "idle" => refresh.keys \in Definitions
    /\ refresh.pc \in {"check", "commit"} =>
          refresh.stored = [n \in FieldNotes |-> Fields!Indexed(refresh.keys.kind, mirror[n])]
    /\ refresh.pc = "settle" => active # None /\ active.keys = refresh.keys
    /\ refresh.pc \in {"fill", "check", "commit", "settle"} => receipt # None /\ receipt.state = "running"

IndexInv == IndexTypes /\ Triggered /\ Building /\ Fields!IndexFollows /\ Fields!ReceiptIsTrue

\* A token is the number of requests so far; the refresh under way took the one it
\* has read.
RequestInv ==
    /\ taken \in Nat
    /\ retry # 0 => retry = FieldRequests - ileave.requests
    /\ Fields!RequestsAreTaken
    /\ refresh.pc # "idle" /\ refresh.request # 0 => taken = refresh.request

\* What meets the filter all the while is listed, at hand, or still ahead of the cursor.
Pages ==
    [pc : {"idle", "select", "read", "answer", "paged", "done"}, kind : Fields!Kinds, rev : Nat,
     after : Nat, from : Nat, got : SUBSET FieldNotes, found : SUBSET FieldNotes, end : BOOLEAN,
     listed : SUBSET FieldNotes, matched : SUBSET FieldNotes, steady : SUBSET FieldNotes]

Steady ==
    \A n \in listing.steady :
        n \in present /\ Fields!Matching(Fields!Indexed(listing.kind, mirror[n]))
Covered ==
    \A n \in listing.steady :
        /\ listing.pc = "select" /\ n <= listing.after => n \in listing.listed \cup listing.got
        /\ listing.pc \in {"read", "answer"} =>
              \/ n \in listing.listed \cup listing.got \cup listing.found
              \/ ~listing.end /\ n > listing.after
        /\ listing.pc = "paged" /\ n <= listing.from => n \in listing.listed
        /\ listing.pc = "done" => n \in listing.listed
Counted ==
    /\ listing.pc \in {"select", "answer", "paged"} => listing.found = {}
    /\ listing.pc = "select" => Cardinality(listing.got) <= Limit
    /\ listing.pc = "answer" => listing.end \/ Cardinality(listing.got) > Limit
    /\ listing.pc \in {"select", "read", "answer"} /\ ~(listing.end /\ listing.pc # "select") =>
          \A g \in listing.got \cup listing.found : g <= listing.after
Justified == listing.listed \cup listing.got \cup listing.found \subseteq listing.matched

ListingInv == listing \in Pages /\ Steady /\ Covered /\ Counted /\ Justified

\* coppermind_index_fields stores a value, or that it is not of the declared type.
LEMMA IndexedIsStored ==
  \A k \in Fields!Kinds, v \in Fields!Values : Fields!Indexed(k, v) \in Stored
BY DEF Fields!Kinds, Fields!Values, Fields!Indexed, Stored

\* At the start there is no generation, no receipt and no job.
LEMMA IndexBegins == FieldConstants /\ Fields!Init => IndexInv
<1> SUFFICES ASSUME FieldConstants, Fields!Init PROVE IndexInv
  OBVIOUS
<1> USE DEF Fields!Init, Fields!Start
<1>1. refresh.pc = "idle" /\ refresh \in Job
  BY DEF Fields!NoJob, Job
<1>2. ischema \in [rev : Nat, kind : Fields!Kinds, others : Nat]
  BY DEF Fields!Kinds
<1>3. mirror \in [FieldNotes -> Fields!Values]
  BY DEF Fields!Values
<1>4. ileave \in Left /\ retry \in Nat
  BY DEF FieldConstants, Left
<1> QED
  BY <1>1, <1>2, <1>3, <1>4 DEF IndexInv, IndexTypes, Triggered, Building, Fields!IndexFollows, Fields!ReceiptIsTrue

\* What may still happen only decreases.
LEMMA LeftStays ==
  ASSUME FieldRequests \in Nat, ileave \in Left,
         \/ UNCHANGED ileave \/ Fields!May("writes") \/ Fields!May("changes") \/ Fields!May("requests")
         \/ Fields!May("lists") \/ Fields!May("faults")
  PROVE  ileave' \in Left
<1>1. CASE Fields!May("writes")
  BY <1>1 DEF Fields!May, Left
<1>2. CASE Fields!May("changes")
  BY <1>2 DEF Fields!May, Left
<1>3. CASE Fields!May("requests")
  BY <1>3 DEF Fields!May, Left
<1>4. CASE Fields!May("lists")
  BY <1>4 DEF Fields!May, Left
<1>5. CASE Fields!May("faults")
  BY <1>5 DEF Fields!May, Left
<1> QED
  BY <1>1, <1>2, <1>3, <1>4, <1>5

\* Every step takes from one bound or from none.
LEMMA LeftAlways ==
  ASSUME FieldConstants, ileave \in Left, [Fields!Next]_(Fields!vars) PROVE ileave' \in Left
<1> FieldRequests \in Nat
  BY DEF FieldConstants
<1>1. CASE UNCHANGED ileave
  BY <1>1
<1>2. CASE ~UNCHANGED ileave
  <2>1. \/ Fields!May("writes") \/ Fields!May("changes") \/ Fields!May("requests")
        \/ Fields!May("lists") \/ Fields!May("faults")
    BY <1>2 DEF Fields!Next, Fields!vars, Fields!ChangeSchema, Fields!request_rebuild, Fields!Refreshing,
       Fields!Begin, Fields!Look, Fields!Lock, Fields!Fill, Fields!Check, Fields!Commit, Fields!Settle,
       Fields!FailJob, Fields!EndRow, Fields!CommitRow, Fields!FailRow, Fields!Crash, Fields!Device,
       Fields!WriteRow, Fields!FirstPage, Fields!NextPage, Fields!Select, Fields!Read, Fields!Answer
  <2> QED
    BY <2>1, LeftStays
<1> QED
  BY <1>1, <1>2

\* The schema, the files and whoever lists notes leave the index alone.
LEMMA IndexRests ==
  ASSUME IndexInv, UNCHANGED <<mirror, txn, active, receipt, retry, refresh>>, ileave' \in Left,
         ischema' \in [rev : Nat, kind : Fields!Kinds, others : Nat], present' \subseteq FieldNotes
  PROVE  IndexInv'
BY DEF IndexInv, IndexTypes, Triggered, Building, Fields!IndexFollows, Fields!ReceiptIsTrue, Fields!Barred

\* A row's transaction: what its trigger stored goes with it or not at all.
LEMMA RowsKeepIndex ==
  ASSUME FieldConstants, IndexInv, ileave' \in Left,
         \/ \E n \in FieldNotes, v \in Fields!Values : Fields!WriteRow(n, v)
         \/ Fields!EndRow
  PROVE  IndexInv'
<1>t. IndexTypes /\ Triggered /\ Building /\ Fields!IndexFollows /\ Fields!ReceiptIsTrue
  BY DEF IndexInv
<1>n. None \notin Writing /\ None \notin Generation
  BY DEF FieldConstants
<1>1. ASSUME NEW n \in FieldNotes, NEW v \in Fields!Values, Fields!WriteRow(n, v) PROVE IndexInv'
  <2>1. /\ UNCHANGED <<ischema, mirror, present, active, receipt, retry, refresh>> /\ ~Fields!Barred
        /\ txn' = [n |-> n, v |-> v, into |-> active # None,
                   stored |-> IF active = None THEN None ELSE Fields!Indexed(active.keys.kind, v)]
    BY <1>1 DEF Fields!WriteRow
  <2>2. active # None => active.keys.kind \in Fields!Kinds
    BY <1>t DEF IndexTypes, Generation, Definitions
  <2>3. txn' \in Writing
    BY <2>1, <2>2, IndexedIsStored DEF Writing
  <2>4. Triggered'
    BY <2>1 DEF Triggered, Fields!Barred
  <2> QED
    BY <1>t, <2>1, <2>3, <2>4 DEF IndexInv, IndexTypes, Building, Fields!IndexFollows, Fields!ReceiptIsTrue
<1>2. CASE Fields!CommitRow
  <2>1. /\ txn # None /\ txn' = None /\ UNCHANGED <<ischema, present, receipt, retry, refresh>>
        /\ mirror' = [mirror EXCEPT ![txn.n] = txn.v]
        /\ active' = IF txn.into THEN [active EXCEPT !.stored[txn.n] = txn.stored] ELSE active
    BY <1>2 DEF Fields!CommitRow
  <2>2. txn \in Writing /\ txn.n \in FieldNotes /\ txn.v \in Fields!Values
    BY <1>t, <2>1 DEF IndexTypes, Writing
  <2>3. mirror' \in [FieldNotes -> Fields!Values]
    BY <1>t, <2>1, <2>2 DEF IndexTypes
  <2>4. CASE txn.into
    <3>1. active # None /\ active \in Generation /\ txn.stored = Fields!Indexed(active.keys.kind, txn.v)
      BY <1>t, <2>1, <2>4 DEF Triggered, IndexTypes
    <3>2. active.keys \in Definitions /\ active.stored \in [FieldNotes -> Stored] /\ txn.stored \in Stored
      BY <3>1, <2>2, IndexedIsStored DEF Generation, Definitions
    <3>3. active' = [keys |-> active.keys, stored |-> [active.stored EXCEPT ![txn.n] = txn.stored]]
      BY <2>1, <2>4, <3>1 DEF Generation
    <3>4. active' \in Generation /\ active'.keys = active.keys
          /\ active'.stored = [active.stored EXCEPT ![txn.n] = txn.stored]
      BY <3>2, <3>3 DEF Generation
    <3>5. active' # None
      BY <1>n, <3>4
    <3>6. ASSUME NEW m \in FieldNotes PROVE active'.stored[m] = Fields!Indexed(active'.keys.kind, mirror'[m])
      BY <1>t, <2>1, <2>2, <3>1, <3>2, <3>4 DEF Fields!IndexFollows, IndexTypes
    <3>7. Fields!IndexFollows'
      BY <3>6 DEF Fields!IndexFollows
    <3> QED
      BY <1>t, <2>1, <2>3, <3>1, <3>4, <3>5, <3>7
      DEF IndexInv, IndexTypes, Triggered, Building, Fields!ReceiptIsTrue, Fields!Barred
  <2>5. CASE ~txn.into
    <3>1. active = None /\ active' = None
      BY <1>t, <2>1, <2>5 DEF Triggered
    <3> QED
      BY <1>t, <2>1, <2>3, <3>1
      DEF IndexInv, IndexTypes, Triggered, Building, Fields!IndexFollows, Fields!ReceiptIsTrue, Fields!Barred
  <2> QED
    BY <2>4, <2>5
<1>3. CASE Fields!FailRow
  BY <1>3, <1>t
  DEF Fields!FailRow, IndexInv, IndexTypes, Triggered, Building, Fields!IndexFollows, Fields!ReceiptIsTrue
<1> QED
  BY <1>1, <1>2, <1>3 DEF Fields!EndRow

\* The refresh: from the barrier on the rows hold still, so that what is filled is
\* what they say when it is committed; a failure ends it as it began, or committed.
LEMMA RefreshKeepsIndex ==
  ASSUME FieldConstants, IndexInv, ileave' \in Left,
         Fields!Refreshing \/ Fields!FailJob \/ Fields!Crash \/ Fields!request_rebuild
  PROVE  IndexInv'
<1>t. IndexTypes /\ Triggered /\ Building /\ Fields!IndexFollows /\ Fields!ReceiptIsTrue
  BY DEF IndexInv
<1>n. None \notin Writing /\ None \notin Generation /\ None \notin Receipts
  BY DEF FieldConstants
<1>d. Fields!definitions \in Definitions
  BY <1>t DEF IndexTypes, Fields!definitions, Definitions
<1>j. /\ refresh \in Job /\ Fields!NoJob \in Job /\ Fields!NoJob.pc = "idle"
      /\ \A p \in {"lock", "fill", "check", "commit", "settle"} :
            /\ [refresh EXCEPT !.pc = p] \in Job /\ [refresh EXCEPT !.pc = p].pc = p
            /\ [refresh EXCEPT !.pc = p].keys = refresh.keys /\ [refresh EXCEPT !.pc = p].stored = refresh.stored
  BY <1>t DEF IndexTypes, Job, Fields!NoJob
<1>r. ASSUME NEW x \in {"queued", "running", "succeeded", "failed"}, NEW k \in Definitions
      PROVE  /\ Fields!Receipt(x, k) \in Receipts /\ Fields!Receipt(x, k) # None
             /\ Fields!Receipt(x, k).state = x /\ Fields!Receipt(x, k).of = k
  BY <1>n DEF Fields!Receipt, Receipts
\* The new generation is what the rows say.
<1>b. refresh.pc = "commit" =>
        /\ Fields!Built \in Generation /\ Fields!Built # None /\ Fields!Built.keys = refresh.keys
        /\ \A n \in FieldNotes : Fields!Built.stored[n] = Fields!Indexed(refresh.keys.kind, mirror[n])
  <2> SUFFICES ASSUME refresh.pc = "commit"
               PROVE  /\ Fields!Built \in Generation /\ Fields!Built.keys = refresh.keys
                      /\ \A n \in FieldNotes : Fields!Built.stored[n] = Fields!Indexed(refresh.keys.kind, mirror[n])
    BY <1>n
  <2>1. /\ refresh.keys \in Definitions /\ refresh.keys.kind \in Fields!Kinds
        /\ refresh.stored = [n \in FieldNotes |-> Fields!Indexed(refresh.keys.kind, mirror[n])]
    BY <1>t DEF Building, Definitions
  <2>2. refresh.stored \in [FieldNotes -> Stored]
    BY <2>1, <1>t, IndexedIsStored DEF IndexTypes
  <2> QED
    BY <2>1, <2>2 DEF Fields!Built, Generation
\* A job that begins, goes on before the barrier, or ends.
<1>k. ASSUME UNCHANGED <<ischema, mirror, present, txn, active>>, retry' \in Nat,
             refresh' \in Job, refresh'.pc \in {"idle", "look", "lock"}, refresh'.pc # "idle" => refresh'.keys \in Definitions,
             \/ receipt' = receipt
             \/ receipt' \in Receipts /\ (receipt'.state = "succeeded" => active # None /\ active.keys = receipt'.of)
      PROVE  IndexInv'
  BY <1>k, <1>t
  DEF IndexInv, IndexTypes, Triggered, Building, Fields!IndexFollows, Fields!ReceiptIsTrue, Fields!Barred
<1>1. CASE Fields!Begin
  <2>1. /\ UNCHANGED <<ischema, mirror, present, txn, active, receipt, retry>>
        /\ refresh' = [Fields!NoJob EXCEPT !.pc = "look", !.keys = Fields!definitions, !.request = retry,
                                       !.forced = Fields!Forced]
    BY <1>1 DEF Fields!Begin
  <2>2. Fields!Forced \in BOOLEAN
    BY DEF Fields!Forced
  <2>3. refresh' \in Job /\ refresh'.pc = "look" /\ refresh'.keys \in Definitions
    BY <1>t, <1>d, <2>1, <2>2 DEF Fields!NoJob, Job, IndexTypes
  <2> QED
    BY <1>k, <1>t, <2>1, <2>3 DEF IndexTypes
<1>2. CASE Fields!Look
  <2>1. /\ UNCHANGED <<ischema, mirror, present, txn, active, retry>> /\ refresh.keys \in Definitions
        /\ \/ /\ active # None /\ active.keys = refresh.keys
              /\ receipt' = Fields!Receipt("succeeded", refresh.keys) /\ refresh' = Fields!NoJob
           \/ refresh' = [refresh EXCEPT !.pc = "lock"] /\ receipt' = receipt
    BY <1>2, <1>t DEF Fields!Look, Building
  <2>2. CASE refresh' = Fields!NoJob /\ receipt' = Fields!Receipt("succeeded", refresh.keys) /\ active # None
             /\ active.keys = refresh.keys
    BY <1>k, <1>t, <1>j, <1>r, <2>1, <2>2 DEF IndexTypes
  <2>3. CASE refresh' = [refresh EXCEPT !.pc = "lock"] /\ receipt' = receipt
    <3>1. refresh' \in Job /\ refresh'.pc = "lock" /\ refresh'.keys = refresh.keys
      BY <1>j, <2>3
    <3> QED
      BY <1>k, <1>t, <2>1, <2>3, <3>1 DEF IndexTypes
  <2> QED
    BY <2>1, <2>2, <2>3
<1>3. CASE Fields!Lock
  <2>1. /\ UNCHANGED <<ischema, mirror, present, txn, active, retry>> /\ refresh.keys \in Definitions /\ txn = None
        /\ receipt' = Fields!Receipt("running", refresh.keys) /\ refresh' = [refresh EXCEPT !.pc = "fill"]
    BY <1>3, <1>t DEF Fields!Lock, Building
  <2> QED
    BY <1>t, <1>j, <1>r, <2>1
    DEF IndexInv, IndexTypes, Triggered, Building, Fields!IndexFollows, Fields!ReceiptIsTrue
<1>4. CASE Fields!Fill
  <2>1. /\ UNCHANGED <<ischema, mirror, present, txn, active, receipt, retry>> /\ refresh.keys \in Definitions
        /\ txn = None /\ refresh.pc = "fill"
        /\ refresh' = [refresh EXCEPT !.pc = "check",
                     !.stored = [n \in FieldNotes |-> Fields!Indexed(refresh.keys.kind, mirror[n])]]
    BY <1>4, <1>t DEF Fields!Fill, Building, Triggered, Fields!Barred
  <2>2. [n \in FieldNotes |-> Fields!Indexed(refresh.keys.kind, mirror[n])] \in [FieldNotes -> Stored]
    BY <1>t, <2>1, IndexedIsStored DEF IndexTypes, Definitions
  <2>3. /\ refresh' \in Job /\ refresh'.pc = "check" /\ refresh'.keys = refresh.keys
        /\ refresh'.stored = [n \in FieldNotes |-> Fields!Indexed(refresh.keys.kind, mirror[n])]
    BY <1>j, <2>1, <2>2 DEF Job
  <2> QED
    BY <1>t, <2>1, <2>3
    DEF IndexInv, IndexTypes, Triggered, Building, Fields!IndexFollows, Fields!ReceiptIsTrue
<1>f. ASSUME Fields!Failed, refresh.pc # "idle", UNCHANGED <<ischema, mirror, present, txn, active>> PROVE IndexInv'
  <2>1. /\ receipt' = Fields!Receipt("failed", refresh.keys) /\ refresh' = Fields!NoJob /\ retry' \in Nat
        /\ refresh.keys \in Definitions
    BY <1>f, <1>t DEF Fields!Failed, Fields!acknowledge_request, Building, IndexTypes
  <2> QED
    BY <1>f, <1>k, <1>j, <1>r, <2>1
<1>5. CASE Fields!Check
  <2>1. CASE Fields!definitions = refresh.keys
    <3>1. /\ UNCHANGED <<ischema, mirror, present, txn, active, receipt, retry>> /\ refresh.pc = "check"
          /\ refresh' = [refresh EXCEPT !.pc = "commit"]
      BY <1>5, <2>1 DEF Fields!Check
    <3> QED
      BY <1>t, <1>j, <3>1
      DEF IndexInv, IndexTypes, Triggered, Building, Fields!IndexFollows, Fields!ReceiptIsTrue, Fields!Barred
  <2>2. CASE Fields!definitions # refresh.keys
    BY <1>5, <1>f, <2>2 DEF Fields!Check
  <2> QED
    BY <2>1, <2>2
<1>6. CASE Fields!Commit
  <2>1. /\ UNCHANGED <<ischema, mirror, present, txn, receipt, retry>> /\ refresh.pc = "commit"
        /\ active' = Fields!Built /\ refresh' = [refresh EXCEPT !.pc = "settle"] /\ txn = None
    BY <1>6, <1>t DEF Fields!Commit, Triggered, Fields!Barred
  <2> QED
    BY <1>t, <1>j, <1>b, <2>1
    DEF IndexInv, IndexTypes, Triggered, Building, Fields!IndexFollows, Fields!ReceiptIsTrue
<1>7. CASE Fields!Settle
  <2>1. /\ UNCHANGED <<ischema, mirror, present, txn, active>> /\ retry' \in Nat
        /\ refresh.keys \in Definitions /\ active # None /\ active.keys = refresh.keys
        /\ receipt' = Fields!Receipt("succeeded", refresh.keys) /\ refresh' = Fields!NoJob
    BY <1>7, <1>t DEF Fields!Settle, Fields!acknowledge_request, Building, IndexTypes
  <2> QED
    BY <1>k, <1>j, <1>r, <2>1
\* The generation is committed although its job fails: the rows were barred until then.
<1>e. ASSUME refresh.pc = "commit", active' = Fields!Built, UNCHANGED <<ischema, mirror, present>>,
             refresh' = Fields!NoJob, retry' \in Nat, txn' = None,
             \/ receipt' = receipt \/ receipt' = Fields!Receipt("failed", refresh.keys)
      PROVE  IndexInv'
  <2>1. receipt # None /\ receipt.state = "running" /\ refresh.keys \in Definitions
    BY <1>e, <1>t DEF Building
  <2>2. receipt' \in Receipts /\ receipt'.state # "succeeded"
    BY <1>e, <1>r, <1>t, <2>1 DEF IndexTypes
  <2> QED
    BY <1>e, <1>t, <1>j, <1>b, <2>2
    DEF IndexInv, IndexTypes, Triggered, Building, Fields!IndexFollows, Fields!ReceiptIsTrue
<1>8. CASE Fields!FailJob
  <2>1. /\ refresh.pc # "idle" /\ UNCHANGED <<ischema, mirror, present, txn>>
        /\ UNCHANGED active \/ (refresh.pc = "commit" /\ active' = Fields!Built)
        /\ Fields!Failed \/ (refresh' = Fields!NoJob /\ UNCHANGED <<receipt, retry>>)
    BY <1>8 DEF Fields!FailJob
  <2>2. CASE UNCHANGED active
    BY <1>f, <1>k, <1>j, <1>t, <2>1, <2>2 DEF IndexTypes
  <2>3. CASE refresh.pc = "commit" /\ active' = Fields!Built
    <3>1. txn' = None
      BY <1>t, <2>1, <2>3 DEF Triggered, Fields!Barred
    <3>2. /\ refresh' = Fields!NoJob /\ retry' \in Nat
          /\ receipt' = receipt \/ receipt' = Fields!Receipt("failed", refresh.keys)
      BY <1>t, <2>1 DEF Fields!Failed, Fields!acknowledge_request, IndexTypes
    <3> QED
      BY <1>e, <2>1, <2>3, <3>1, <3>2
  <2> QED
    BY <2>1, <2>2, <2>3
<1>9. CASE Fields!Crash
  <2>1. /\ UNCHANGED <<ischema, mirror, present, receipt, retry>> /\ refresh' = Fields!NoJob /\ txn' = None
        /\ UNCHANGED active \/ (refresh.pc = "commit" /\ active' = Fields!Built)
    BY <1>9 DEF Fields!Crash
  <2>2. CASE UNCHANGED active
    BY <1>t, <1>j, <2>1, <2>2
    DEF IndexInv, IndexTypes, Triggered, Building, Fields!IndexFollows, Fields!ReceiptIsTrue
  <2>3. CASE refresh.pc = "commit" /\ active' = Fields!Built
    BY <1>e, <1>t, <2>1, <2>3 DEF IndexTypes
  <2> QED
    BY <2>1, <2>2, <2>3
<1>10. CASE Fields!request_rebuild
  <2>1. /\ UNCHANGED <<ischema, mirror, present, txn, active, refresh>>
        /\ retry' = FieldRequests - ileave.requests + 1
        /\ receipt' = IF refresh.pc = "idle" THEN Fields!Receipt("queued", Fields!definitions) ELSE receipt
    BY <1>10 DEF Fields!request_rebuild
  <2>2. retry' \in Nat
    BY <1>t, <2>1 DEF FieldConstants, IndexTypes, Left
  <2>3. CASE refresh.pc = "idle"
    <3>1. receipt' \in Receipts /\ receipt'.state # "succeeded"
      BY <1>r, <1>d, <2>1, <2>3
    <3>2. refresh' \in Job /\ refresh'.pc = "idle"
      BY <1>t, <2>1, <2>3 DEF IndexTypes
    <3> QED
      BY <1>k, <2>1, <2>2, <3>1, <3>2
  <2>4. CASE refresh.pc # "idle"
    BY <1>t, <2>1, <2>2, <2>4
    DEF IndexInv, IndexTypes, Triggered, Building, Fields!IndexFollows, Fields!ReceiptIsTrue, Fields!Barred
  <2> QED
    BY <2>3, <2>4
<1> QED
  BY <1>1, <1>2, <1>3, <1>4, <1>5, <1>6, <1>7, <1>8, <1>9, <1>10 DEF Fields!Refreshing

\* Every step of a writer, of the refresh, of the schema or of a reader keeps the index.
LEMMA IndexSteps ==
  ASSUME FieldConstants, IndexInv, [Fields!Next]_(Fields!vars) PROVE IndexInv'
<1>0. ileave' \in Left
  BY LeftAlways DEF IndexInv, IndexTypes
<1>t. IndexTypes
  BY DEF IndexInv
<1>1. CASE \/ \E n \in FieldNotes, v \in Fields!Values : Fields!WriteRow(n, v)
           \/ Fields!EndRow
  BY <1>0, <1>1, RowsKeepIndex
<1>2. CASE Fields!Refreshing \/ Fields!FailJob \/ Fields!Crash \/ Fields!request_rebuild
  BY <1>0, <1>2, RefreshKeepsIndex
<1>3. CASE Fields!ChangeSchema
  <2>1. UNCHANGED <<mirror, present, txn, active, receipt, retry, refresh>>
    BY <1>3 DEF Fields!ChangeSchema
  <2>2. ischema' \in [rev : Nat, kind : Fields!Kinds, others : Nat]
    <3>1. ischema.rev \in Nat /\ ischema.kind \in Fields!Kinds /\ ischema.others \in Nat
      BY <1>t DEF IndexTypes
    <3> QED
      BY <1>3, <3>1 DEF Fields!ChangeSchema, Fields!Saved
  <2> QED
    BY <1>0, <1>t, <2>1, <2>2, IndexRests DEF IndexTypes
<1>4. ASSUME NEW n \in FieldNotes, Fields!Device(n) PROVE IndexInv'
  <2>1. UNCHANGED <<mirror, ischema, txn, active, receipt, retry, refresh>> /\ present' \subseteq FieldNotes
    BY <1>4, <1>t DEF Fields!Device, IndexTypes
  <2> QED
    BY <1>0, <1>t, <2>1, IndexRests DEF IndexTypes
<1>5. CASE Fields!FirstPage \/ Fields!NextPage \/ Fields!Select \/ Fields!Read \/ Fields!Answer
           \/ UNCHANGED Fields!vars
  <2>1. UNCHANGED <<ischema, present, mirror, txn, active, receipt, retry, refresh>>
    BY <1>5 DEF Fields!FirstPage, Fields!NextPage, Fields!Select, Fields!Read, Fields!Answer, Fields!vars
  <2> QED
    BY <1>0, <1>t, <2>1, IndexRests DEF IndexTypes
<1> QED
  BY <1>1, <1>2, <1>3, <1>4, <1>5 DEF Fields!Next

\* A token is acknowledged by the refresh that took it; a later one stays.
LEMMA RequestSteps ==
  ASSUME FieldConstants, IndexInv, RequestInv, [Fields!Next]_(Fields!vars) PROVE RequestInv'
<1>t. /\ IndexTypes /\ refresh \in Job /\ ileave \in Left /\ retry \in Nat /\ FieldRequests \in Nat
      /\ ileave.requests \in 0 .. FieldRequests /\ refresh.request \in Nat /\ taken \in Nat
  BY DEF IndexInv, IndexTypes, FieldConstants, Left, Job, RequestInv
<1>j. Fields!NoJob.pc = "idle"
  BY DEF Fields!NoJob
<1>e. \A p \in {"lock", "fill", "check", "commit", "settle"} :
        /\ [refresh EXCEPT !.pc = p].pc = p /\ [refresh EXCEPT !.pc = p].request = refresh.request
  BY <1>t DEF Job
\* What leaves the tokens alone, and goes on with the job or ends it.
<1>r. ASSUME UNCHANGED <<retry, taken>>, ileave'.requests = ileave.requests,
             refresh'.pc = "idle" \/ (refresh.pc # "idle" /\ refresh'.request = refresh.request)
      PROVE  RequestInv'
  BY <1>r, <1>t DEF RequestInv, Fields!RequestsAreTaken
<1>a. ASSUME Fields!acknowledge_request, UNCHANGED taken, ileave'.requests = ileave.requests,
             refresh.pc # "idle", refresh' = Fields!NoJob
      PROVE  RequestInv'
  BY <1>a, <1>t, <1>j DEF RequestInv, Fields!RequestsAreTaken, Fields!acknowledge_request
<1>1. CASE Fields!request_rebuild
  <2>1. /\ retry' = FieldRequests - ileave.requests + 1 /\ ileave.requests > 0
        /\ ileave'.requests = ileave.requests - 1 /\ UNCHANGED <<refresh, taken>>
    BY <1>1, <1>t DEF Fields!request_rebuild, Fields!May, Left
  <2> QED
    BY <1>t, <2>1 DEF RequestInv, Fields!RequestsAreTaken
<1>2. CASE Fields!Begin
  <2>1. /\ UNCHANGED retry /\ ileave'.requests = ileave.requests /\ refresh'.request = retry
        /\ taken' = IF retry = 0 THEN taken ELSE retry
    BY <1>2 DEF Fields!Begin, Fields!NoJob
  <2> QED
    BY <1>t, <2>1 DEF RequestInv, Fields!RequestsAreTaken
<1>3. CASE Fields!Look \/ Fields!Lock \/ Fields!Fill \/ Fields!Commit
  <2>1. /\ UNCHANGED <<retry, taken, ileave>> /\ refresh.pc # "idle"
        /\ refresh' = Fields!NoJob \/ refresh' = [refresh EXCEPT !.pc = "lock"] \/ refresh' = [refresh EXCEPT !.pc = "fill"]
           \/ refresh' = [refresh EXCEPT !.pc = "settle"]
           \/ refresh' = [refresh EXCEPT !.pc = "check",
                        !.stored = [n \in FieldNotes |-> Fields!Indexed(refresh.keys.kind, mirror[n])]]
    BY <1>3 DEF Fields!Look, Fields!Lock, Fields!Fill, Fields!Commit
  <2>2. refresh'.pc = "idle" \/ refresh'.request = refresh.request
    BY <2>1, <1>t, <1>j DEF Job
  <2> QED
    BY <1>r, <2>1, <2>2
<1>4. CASE Fields!Check
  <2>1. CASE Fields!definitions = refresh.keys
    BY <1>4, <2>1, <1>r, <1>e DEF Fields!Check
  <2>2. CASE Fields!definitions # refresh.keys
    BY <1>4, <2>2, <1>a DEF Fields!Check, Fields!Failed
  <2> QED
    BY <2>1, <2>2
<1>5. CASE Fields!Settle
  BY <1>5, <1>a DEF Fields!Settle
<1>6. CASE Fields!FailJob
  <2>1. ileave'.requests = ileave.requests
    BY <1>6, <1>t DEF Fields!FailJob, Fields!May, Left
  <2>2. CASE Fields!Failed
    BY <1>6, <2>1, <2>2, <1>a DEF Fields!FailJob, Fields!Failed
  <2>3. CASE ~Fields!Failed
    BY <1>6, <2>1, <2>3, <1>r, <1>j DEF Fields!FailJob
  <2> QED
    BY <2>2, <2>3
<1>7. CASE Fields!Crash
  <2>1. ileave'.requests = ileave.requests
    BY <1>7, <1>t DEF Fields!Crash, Fields!May, Left
  <2> QED
    BY <1>7, <2>1, <1>r, <1>j DEF Fields!Crash
<1>8. ASSUME UNCHANGED <<retry, refresh, taken>>, ileave'.requests = ileave.requests PROVE RequestInv'
  BY <1>8 DEF RequestInv, Fields!RequestsAreTaken
<1>9. CASE \/ Fields!ChangeSchema \/ Fields!EndRow \/ UNCHANGED Fields!vars
           \/ \E n \in FieldNotes : Fields!Device(n) \/ \E v \in Fields!Values : Fields!WriteRow(n, v)
           \/ Fields!FirstPage \/ Fields!NextPage \/ Fields!Select \/ Fields!Read \/ Fields!Answer
  <2>1. UNCHANGED <<retry, refresh, taken>> /\ ileave'.requests = ileave.requests
    BY <1>9, <1>t DEF Fields!ChangeSchema, Fields!EndRow, Fields!CommitRow, Fields!FailRow, Fields!vars,
       Fields!Device, Fields!WriteRow, Fields!FirstPage, Fields!NextPage, Fields!Select, Fields!Read,
       Fields!Answer, Fields!May, Left
  <2> QED
    BY <2>1, <1>8
<1> QED
  BY <1>1, <1>2, <1>3, <1>4, <1>5, <1>6, <1>7, <1>9 DEF Fields!Next, Fields!Refreshing

\* The module counts the notes of a page the way the library does.
LEMMA SameCount == \A S : Fields!Cardinality(S) = Cardinality(S)
BY DEF Fields!Cardinality, Cardinality

\* The notes are numbers, so a set of them has a first, and a last.
LEMMA FirstOfNat ==
  ASSUME NEW S, S \subseteq Nat, S # {} PROVE \E n \in S : \A m \in S : n <= m
<1> DEFINE R == OpToRel(<, Nat)
<1>1. PICK n \in S : \A m \in S : ~(<<m, n>> \in R)
  BY NatLessThanWellFounded, WFMin
<1>2. \A m \in S : ~(m < n)
  BY <1>1 DEF OpToRel
<1> QED
  BY <1>2

\* The cursor is a note of the page it ends, and the last one.
LEMMA LastOfNotes ==
  ASSUME FieldConstants, NEW S, S \subseteq FieldNotes, S # {}
  PROVE  Fields!Last(S) \in S /\ \A m \in S : m <= Fields!Last(S)
<1>1. PICK k \in Nat : FieldNotes \subseteq 1 .. k
  BY DEF FieldConstants
<1> DEFINE D == {k - n : n \in S}
<1>2. D \subseteq Nat /\ D # {}
  <2>1. \A n \in S : n \in 1 .. k
    BY <1>1
  <2>2. \A n \in S : k - n \in Nat
    BY <2>1
  <2> QED
    BY <2>2
<1>3. PICK d \in D : \A e \in D : d <= e
  BY <1>2, FirstOfNat
<1>4. PICK n \in S : d = k - n
  BY <1>3
<1>5. \A m \in S : m <= n
  BY <1>1, <1>3, <1>4
<1> QED
  BY <1>5 DEF Fields!Last

\* A page, and what is left to list, can be counted.
LEMMA NotesAreFinite ==
  ASSUME FieldConstants, NEW S, S \subseteq FieldNotes
  PROVE  IsFiniteSet(S) /\ Cardinality(S) \in Nat /\ S \subseteq Nat
<1>1. PICK k \in Nat : FieldNotes \subseteq 1 .. k
  BY DEF FieldConstants
<1>2. IsFiniteSet(1 .. k) /\ S \in SUBSET (1 .. k)
  BY <1>1, FS_Interval
<1>3. IsFiniteSet(S)
  BY <1>2, FS_Subset
<1> QED
  BY <1>2, <1>3, FS_CardinalityType

\* The first notes of a set: whatever is before one of them is one of them; there
\* are some; and few are all first.
LEMMA EarliestAre ==
  ASSUME FieldConstants, NEW S, S \subseteq FieldNotes, NEW k \in Nat
  PROVE  /\ Fields!Earliest(S, k) \subseteq S
         /\ \A n \in Fields!Earliest(S, k), m \in S : m <= n => m \in Fields!Earliest(S, k)
         /\ S # {} /\ k # 0 => Fields!Earliest(S, k) # {}
         /\ Cardinality(S) <= k => Fields!Earliest(S, k) = S
<1> DEFINE Less(n) == Fields!Before(S, n)
<1> USE DEF Fields!Before
<1>1. S \subseteq Nat /\ IsFiniteSet(S) /\ Cardinality(S) \in Nat
  BY NotesAreFinite
<1>2. \A n : Less(n) \subseteq S /\ IsFiniteSet(Less(n)) /\ Cardinality(Less(n)) \in Nat
  BY NotesAreFinite
<1>3. ASSUME NEW n \in S, NEW m \in S, m <= n, Cardinality(Less(n)) < k PROVE Cardinality(Less(m)) < k
  <2>1. Less(m) \subseteq Less(n)
    <3>1. ASSUME NEW x \in S, x < m PROVE x < n
      BY <1>1, <1>3, <3>1
    <3> QED
      BY <3>1
  <2>2. Cardinality(Less(m)) <= Cardinality(Less(n))
    BY <1>2, <2>1, FS_Subset
  <2> HIDE DEF Less
  <2> QED
    BY <1>2, <1>3, <2>2
<1>4. ASSUME S # {}, k # 0 PROVE \E n \in S : Cardinality(Less(n)) < k
  <2>1. PICK n \in S : \A m \in S : n <= m
    BY <1>1, <1>4, FirstOfNat
  <2>2. Less(n) = {}
    <3>1. ASSUME NEW m \in S PROVE ~(m < n)
      BY <1>1, <2>1
    <3> QED
      BY <3>1
  <2>3. Cardinality(Less(n)) = 0
    BY <2>2, FS_EmptySet
  <2> QED
    BY <1>4, <2>3
<1>5. ASSUME Cardinality(S) <= k, NEW n \in S PROVE Cardinality(Less(n)) < k
  <2>1. Less(n) # S
    BY <1>1, <1>5
  <2>2. Cardinality(Less(n)) <= Cardinality(S) /\ Cardinality(Less(n)) # Cardinality(S)
    BY <1>1, <1>2, <2>1, FS_Subset
  <2> HIDE DEF Less
  <2> QED
    BY <1>1, <1>2, <1>5, <2>2
<1> HIDE DEF Less, Fields!Before
<1>6. Fields!Earliest(S, k) = {n \in S : Cardinality(Less(n)) < k}
  BY SameCount DEF Fields!Earliest, Less
<1> QED
  BY <1>3, <1>4, <1>5, <1>6

\* A listing that is not begun, or is refused, says nothing.
LEMMA NothingListed ==
  /\ Fields!NoList \in Pages /\ Fields!NoList.pc = "idle"
  /\ Fields!NoList.steady = {} /\ Fields!NoList.listed = {} /\ Fields!NoList.got = {}
  /\ Fields!NoList.found = {} /\ Fields!NoList.matched = {}
BY DEF Fields!NoList, Pages, Fields!Kinds

\* A refusal says nothing, and what does not touch files or rows leaves a listing as true
\* as it was.
LEMMA ListingRests ==
  /\ listing' = Fields!NoList => ListingInv'
  /\ ListingInv /\ UNCHANGED <<listing, present, mirror>> => ListingInv'
<1>1. ASSUME listing' = Fields!NoList PROVE ListingInv'
  BY <1>1, NothingListed DEF ListingInv, Steady, Covered, Counted, Justified
<1>2. ASSUME ListingInv, UNCHANGED <<listing, present, mirror>> PROVE ListingInv'
  BY <1>2 DEF ListingInv, Steady, Covered, Counted, Justified
<1> QED
  BY <1>1, <1>2

\* A note whose row or file changes no longer counts as one that met the filter all along.
LEMMA UnsteadyKeepsListing ==
  ASSUME ListingInv, NEW n \in FieldNotes, listing' = Fields!Unsteady(n),
         \A m \in FieldNotes \ {n} : mirror'[m] = mirror[m] /\ (m \in present => m \in present')
  PROVE  ListingInv'
<1>1. /\ listing' = [listing EXCEPT !.steady = listing.steady \ {n}] /\ listing \in Pages
      /\ listing.steady \subseteq FieldNotes
  BY DEF Fields!Unsteady, ListingInv, Pages
<1>2. /\ listing' \in Pages /\ listing'.steady = listing.steady \ {n}
      /\ listing'.pc = listing.pc /\ listing'.kind = listing.kind /\ listing'.after = listing.after
      /\ listing'.from = listing.from /\ listing'.got = listing.got /\ listing'.found = listing.found
      /\ listing'.end = listing.end /\ listing'.listed = listing.listed /\ listing'.matched = listing.matched
  BY <1>1 DEF Pages
<1>3. Steady' /\ Covered'
  BY <1>1, <1>2 DEF ListingInv, Steady, Covered
<1>4. Counted' /\ Justified'
  BY <1>2 DEF ListingInv, Counted, Justified
<1> QED
  BY <1>2, <1>3, <1>4 DEF ListingInv

\* Notes that meet the filter when the listing begins, and a page that starts where
\* the last one stopped.
LEMMA PagesBegin ==
  ASSUME FieldConstants, IndexInv, ListingInv, Fields!FirstPage \/ Fields!NextPage PROVE ListingInv'
<1>0. /\ listing \in Pages /\ ischema.kind \in Fields!Kinds /\ ischema.rev \in Nat /\ present \subseteq FieldNotes
      /\ Limit \in Nat
  BY DEF ListingInv, IndexInv, IndexTypes, FieldConstants
<1>1. CASE Fields!FirstPage
  <2>1. /\ UNCHANGED <<present, mirror>>
        /\ listing' = [Fields!NoList EXCEPT !.pc = "select", !.kind = ischema.kind, !.rev = ischema.rev,
                                            !.steady = {n \in present : Fields!Truly(n)}]
    BY <1>1 DEF Fields!FirstPage
  <2>2. /\ listing' \in Pages /\ listing'.pc = "select" /\ listing'.kind = ischema.kind
        /\ listing'.steady = {n \in present : Fields!Truly(n)} /\ listing'.after = 0
        /\ listing'.got = {} /\ listing'.found = {} /\ listing'.listed = {} /\ listing'.matched = {}
    BY <2>1, <1>0 DEF Fields!NoList, Pages
  <2>3. Steady'
    BY <2>1, <2>2 DEF Steady, Fields!Truly
  <2>4. Covered'
    <3>1. LastNote \in Nat /\ FieldNotes \subseteq 1 .. LastNote
      BY DEF FieldConstants
    <3>2. \A n \in FieldNotes : ~(n <= 0)
      BY <3>1
    <3> QED
      BY <1>0, <2>2, <3>2 DEF Covered
  <2>5. Counted' /\ Justified'
    BY <1>0, <2>2, FS_EmptySet DEF Counted, Justified
  <2> QED
    BY <2>2, <2>3, <2>4, <2>5 DEF ListingInv
<1>2. CASE Fields!NextPage
  <2>1. listing' = Fields!NoList
        \/ listing' = [listing EXCEPT !.pc = "select", !.after = listing.from, !.got = {}]
    BY <1>2 DEF Fields!NextPage, Fields!Refused
  <2>2. CASE listing' = [listing EXCEPT !.pc = "select", !.after = listing.from, !.got = {}]
    <3>1. UNCHANGED <<present, mirror>> /\ listing.pc = "paged"
      BY <1>2 DEF Fields!NextPage
    <3>2. /\ listing' \in Pages /\ listing'.pc = "select" /\ listing'.kind = listing.kind
          /\ listing'.steady = listing.steady /\ listing'.after = listing.from /\ listing'.got = {}
          /\ listing'.found = listing.found /\ listing'.listed = listing.listed
          /\ listing'.matched = listing.matched
      BY <1>0, <2>2 DEF Pages
    <3>3. Steady' /\ Covered'
      BY <3>1, <3>2 DEF ListingInv, Steady, Covered
    <3>4. Counted' /\ Justified'
      BY <1>0, <3>1, <3>2, FS_EmptySet DEF ListingInv, Counted, Justified
    <3> QED
      BY <3>2, <3>3, <3>4 DEF ListingInv
  <2> QED
    BY <2>1, <2>2, ListingRests
<1> QED
  BY <1>1, <1>2

\* The rows of a snapshot: what meets the filter all along is among them, or behind them.
LEMMA SelectKeepsListing ==
  ASSUME FieldConstants, IndexInv, ListingInv, Fields!Select PROVE ListingInv'
<1> DEFINE needed == Limit + 1 - Cardinality(listing.got)
           rest   == {n \in FieldNotes : n > listing.after /\ Fields!Matching(active.stored[n])}
           some   == Fields!Earliest(rest, needed)
           end    == Cardinality(rest) < needed
           after  == IF end THEN listing.after ELSE Fields!Last(some)
           true   == {n \in FieldNotes : Fields!Truly(n)}
<1>0. /\ listing \in Pages /\ listing.pc = "select" /\ Limit \in Nat \ {0} /\ UNCHANGED <<present, mirror>>
      /\ listing.got \subseteq FieldNotes /\ listing.steady \subseteq FieldNotes /\ listing.after \in Nat
      /\ listing.listed \subseteq FieldNotes /\ listing.matched \subseteq FieldNotes
  BY DEF ListingInv, FieldConstants, Fields!Select, Pages
<1>1. CASE listing.kind # ischema.kind \/ ~Fields!Ready
  <2>1. listing' = Fields!NoList
    BY <1>1 DEF Fields!Select, Fields!Refused
  <2> QED
    BY <2>1, ListingRests
<1>2. CASE ~(listing.kind # ischema.kind \/ ~Fields!Ready)
  <2>1. listing.kind = ischema.kind /\ active # None /\ active.keys.kind = ischema.kind
    BY <1>2 DEF Fields!Ready
  <2>2. listing' = [listing EXCEPT !.pc = "read", !.found = some, !.end = end, !.after = after,
                                   !.matched = listing.matched \cup true]
    BY <1>2, SameCount DEF Fields!Select
  <2>3. Cardinality(listing.got) \in Nat /\ Cardinality(listing.got) <= Limit
    BY <1>0, NotesAreFinite DEF ListingInv, Counted
  <2>4. needed \in Nat \ {0}
    BY <1>0, <2>3
  <2>5. rest \subseteq FieldNotes /\ some \subseteq rest /\ Cardinality(rest) \in Nat
    BY <2>4, EarliestAre, NotesAreFinite
  <2>6. \A n \in some, m \in rest : m <= n => m \in some
    BY <2>4, <2>5, EarliestAre
  <2>7. end => some = rest
    <3> HIDE DEF rest
    <3>1. Cardinality(rest) <= needed => some = rest
      <4> HIDE DEF needed
      <4> QED
        BY <2>4, <2>5, EarliestAre
    <3> QED
      BY <2>4, <2>5, <3>1
  <2>8. ~end => Fields!Last(some) \in some /\ \A m \in some : m <= Fields!Last(some)
    <3>1. ~end => rest # {}
      <4>1. rest = {} => Cardinality(rest) = 0
        BY FS_EmptySet
      <4> QED
        BY <2>4, <4>1
    <3>2. rest # {} => some # {}
      <4> HIDE DEF rest, needed
      <4> QED
        BY <2>4, <2>5, EarliestAre
    <3> HIDE DEF rest, needed, some
    <3> QED
      BY <2>5, <3>1, <3>2, LastOfNotes
  <2>9. \A n \in rest : n \in true /\ n > listing.after
    BY <2>1 DEF IndexInv, Fields!IndexFollows, Fields!Truly
  <2>10. \A n \in listing.steady : n > listing.after => n \in rest
    BY <1>0, <2>1 DEF ListingInv, Steady, IndexInv, Fields!IndexFollows
  <2>11. \A n \in FieldNotes : n \in Nat
    BY NotesAreFinite
  <2> HIDE DEF needed, rest, some, true
  <2>12. after \in Nat /\ end \in BOOLEAN /\ some \subseteq FieldNotes /\ true \subseteq FieldNotes
    <3>1. true \subseteq FieldNotes
      BY DEF true
    <3> QED
      BY <1>0, <2>5, <2>8, <2>11, <3>1
  <2>13. ~end => after \in some /\ (\A m \in some : m <= after) /\ after > listing.after
    BY <2>5, <2>8, <2>9
  <2>14. end => after = listing.after
    OBVIOUS
  <2> HIDE DEF end, after
  <2>15. /\ listing' \in Pages /\ listing'.pc = "read" /\ listing'.kind = listing.kind
         /\ listing'.steady = listing.steady /\ listing'.after = after /\ listing'.got = listing.got
         /\ listing'.found = some /\ listing'.listed = listing.listed /\ listing'.end = end
         /\ listing'.matched = listing.matched \cup true
    BY <1>0, <2>2, <2>12 DEF Pages
  <2>16. Steady' /\ Justified'
    BY <1>0, <2>5, <2>9, <2>15 DEF ListingInv, Steady, Justified
  <2>17. ASSUME NEW n \in listing.steady
         PROVE  n \in listing.listed \cup listing.got \cup some \/ (~end /\ n > after)
    <3>0. n \in Nat /\ listing.after \in Nat /\ after \in Nat
      BY <1>0, <2>11, <2>12
    <3>1. CASE n <= listing.after
      BY <1>0, <3>1 DEF ListingInv, Covered
    <3>2. CASE n > listing.after
      <4>1. n \in rest
        BY <2>10, <3>2
      <4>2. CASE end
        BY <2>7, <4>1, <4>2
      <4>3. CASE ~end
        BY <2>6, <2>13, <3>0, <4>1, <4>3
      <4> QED
        BY <4>2, <4>3
    <3> QED
      BY <3>0, <3>1, <3>2
  <2>18. Covered'
    BY <2>15, <2>17 DEF Covered
  <2>19. Counted'
    <3>1. ASSUME ~end, NEW g \in listing.got PROVE g <= after
      <4>1. g <= listing.after
        BY <1>0 DEF ListingInv, Counted
      <4> QED
        BY <1>0, <2>11, <2>12, <2>13, <3>1, <4>1
    <3> QED
      BY <2>13, <2>15, <3>1 DEF Counted
  <2> QED
    BY <2>15, <2>16, <2>18, <2>19 DEF ListingInv
<1> QED
  BY <1>1, <1>2

\* The files of a snapshot's rows: one that meets the filter all along is there.
LEMMA ReadKeepsListing ==
  ASSUME FieldConstants, ListingInv, Fields!Read PROVE ListingInv'
<1> DEFINE got == listing.got \cup (listing.found \cap present)
           on  == Cardinality(got) < Limit + 1 /\ ~listing.end
<1>0. /\ listing \in Pages /\ listing.pc = "read" /\ Limit \in Nat /\ UNCHANGED <<present, mirror>>
      /\ listing.got \subseteq FieldNotes /\ listing.found \subseteq FieldNotes /\ listing.end \in BOOLEAN
  BY DEF ListingInv, FieldConstants, Fields!Read, Pages
<1>1. listing' = [listing EXCEPT !.pc = IF on THEN "select" ELSE "answer", !.got = got, !.found = {}]
  BY SameCount DEF Fields!Read
<1>2. got \subseteq FieldNotes /\ Cardinality(got) \in Nat
  BY <1>0, NotesAreFinite
<1>3. \A n \in listing.steady : n \in listing.listed \cup got \/ (~listing.end /\ n > listing.after)
  BY <1>0 DEF ListingInv, Covered, Steady
<1>4. got \subseteq listing.got \cup listing.found
  OBVIOUS
<1>5. /\ on => ~listing.end /\ Cardinality(got) <= Limit
      /\ ~on => listing.end \/ Cardinality(got) > Limit
  BY <1>0, <1>2
<1> HIDE DEF got, on
<1>6. /\ listing' \in Pages /\ listing'.pc = (IF on THEN "select" ELSE "answer") /\ listing'.kind = listing.kind
      /\ listing'.steady = listing.steady /\ listing'.after = listing.after /\ listing'.got = got
      /\ listing'.found = {} /\ listing'.listed = listing.listed /\ listing'.end = listing.end
      /\ listing'.matched = listing.matched
  BY <1>0, <1>1, <1>2 DEF Pages
<1>7. Steady' /\ Justified'
  BY <1>0, <1>4, <1>6 DEF ListingInv, Steady, Justified
<1>8. Covered'
  <2>1. \A n \in listing.steady : n > listing.after => ~(n <= listing.after)
    BY <1>0, NotesAreFinite DEF Pages
  <2> QED
    BY <1>3, <1>6, <2>1 DEF Covered
<1>9. Counted'
  BY <1>0, <1>4, <1>5, <1>6 DEF ListingInv, Counted
<1> QED
  BY <1>6, <1>7, <1>8, <1>9 DEF ListingInv

\* A page is the first notes at hand, and the cursor the last of them: what is cut off
\* comes with the next page.
LEMMA AnswerKeepsListing ==
  ASSUME FieldConstants, ListingInv, Fields!Answer PROVE ListingInv'
<1> DEFINE first == Fields!Earliest(listing.got, Limit)
           more == Cardinality(listing.got) > Limit
           from == IF more THEN Fields!Last(first) ELSE listing.from
<1>0. /\ listing \in Pages /\ listing.pc = "answer" /\ Limit \in Nat \ {0} /\ UNCHANGED <<present, mirror>>
      /\ listing.got \subseteq FieldNotes /\ listing.found = {} /\ listing.from \in Nat
      /\ listing.listed \subseteq FieldNotes /\ Cardinality(listing.got) \in Nat
  BY NotesAreFinite DEF ListingInv, FieldConstants, Fields!Answer, Pages, Counted
<1>1. CASE ischema.rev # listing.rev
  BY <1>1, ListingRests DEF Fields!Answer, Fields!Refused
<1>2. CASE ischema.rev = listing.rev
  <2>1. listing' = [listing EXCEPT !.pc = IF more THEN "paged" ELSE "done",
                                   !.listed = listing.listed \cup first, !.from = from]
    BY <1>2, SameCount DEF Fields!Answer, Fields!Cursor
  <2>2. first \subseteq listing.got /\ \A n \in first, m \in listing.got : m <= n => m \in first
    BY <1>0, EarliestAre
  <2>3. ~more => first = listing.got
    BY <1>0, EarliestAre
  <2>4. more => Fields!Last(first) \in first
    <3>1. listing.got = {} => Cardinality(listing.got) = 0
      BY FS_EmptySet
    <3>2. more => first # {}
      BY <1>0, <3>1, EarliestAre
    <3> QED
      BY <1>0, <2>2, <3>2, LastOfNotes
  <2>5. ~more => listing.end
    BY <1>0 DEF ListingInv, Counted
  <2> HIDE DEF first, more
  <2>6. from \in Nat /\ first \subseteq FieldNotes
    BY <1>0, <2>2, <2>4, NotesAreFinite
  <2>7. more => from \in first
    BY <2>4
  <2> HIDE DEF from
  <2>8. /\ listing' \in Pages /\ listing'.pc = (IF more THEN "paged" ELSE "done") /\ listing'.kind = listing.kind
        /\ listing'.steady = listing.steady /\ listing'.from = from /\ listing'.got = listing.got
        /\ listing'.found = {} /\ listing'.listed = listing.listed \cup first
        /\ listing'.matched = listing.matched
    BY <1>0, <2>1, <2>6 DEF Pages
  <2>9. Steady' /\ Justified' /\ Counted'
    BY <1>0, <2>2, <2>8 DEF ListingInv, Steady, Justified, Counted
  <2>10. ASSUME NEW n \in listing.steady, n <= from \/ ~more PROVE n \in listing.listed \cup first
    <3>1. n \in listing.listed \cup listing.got \/ (~listing.end /\ n > listing.after)
      BY <1>0 DEF ListingInv, Covered
    <3>2. CASE ~more
      BY <2>3, <2>5, <3>1, <3>2
    <3>3. CASE more
      <4>1. CASE ~listing.end /\ n > listing.after
        <5>1. from <= listing.after
          BY <1>0, <2>2, <2>7, <3>3, <4>1 DEF ListingInv, Counted
        <5>2. n \in Nat /\ listing.after \in Nat /\ from \in Nat
          BY <1>0, <2>6, NotesAreFinite DEF Pages
        <5> QED
          BY <2>10, <3>3, <4>1, <5>1, <5>2
      <4>2. CASE n \in listing.got
        BY <2>2, <2>7, <2>10, <3>3, <4>2
      <4> QED
        BY <3>1, <4>1, <4>2
    <3> QED
      BY <3>2, <3>3
  <2>11. Covered'
    BY <2>8, <2>10 DEF Covered
  <2> QED
    BY <2>8, <2>9, <2>11 DEF ListingInv
<1> QED
  BY <1>1, <1>2

\* Every step keeps a listing: what meets the filter is listed, at hand or ahead.
LEMMA ListingSteps ==
  ASSUME FieldConstants, IndexInv, ListingInv, [Fields!Next]_(Fields!vars) PROVE ListingInv'
<1>1. CASE Fields!FirstPage \/ Fields!NextPage
  BY <1>1, PagesBegin
<1>2. CASE Fields!Select
  BY <1>2, SelectKeepsListing
<1>3. CASE Fields!Read
  BY <1>3, ReadKeepsListing
<1>4. CASE Fields!Answer
  BY <1>4, AnswerKeepsListing
<1>5. CASE Fields!CommitRow
  <2>1. /\ txn # None /\ mirror' = [mirror EXCEPT ![txn.n] = txn.v] /\ UNCHANGED present
        /\ listing' = Fields!Unsteady(txn.n)
    BY <1>5 DEF Fields!CommitRow
  <2>2. txn.n \in FieldNotes /\ mirror \in [FieldNotes -> Fields!Values]
    BY <2>1 DEF IndexInv, IndexTypes, Writing
  <2> QED
    BY <2>1, <2>2, UnsteadyKeepsListing
<1>6. ASSUME NEW n \in FieldNotes, Fields!Device(n) PROVE ListingInv'
  <2>1. /\ UNCHANGED mirror /\ listing' = Fields!Unsteady(n)
        /\ \A m \in FieldNotes \ {n} : m \in present => m \in present'
    BY <1>6 DEF Fields!Device
  <2> QED
    BY <2>1, UnsteadyKeepsListing
<1>7. CASE Fields!Crash
  BY <1>7, ListingRests DEF Fields!Crash
<1>8. CASE \/ Fields!ChangeSchema \/ Fields!request_rebuild \/ Fields!Refreshing \/ Fields!FailJob
           \/ Fields!FailRow \/ UNCHANGED Fields!vars
           \/ \E n \in FieldNotes, v \in Fields!Values : Fields!WriteRow(n, v)
  <2>1. UNCHANGED <<listing, present, mirror>>
    BY <1>8 DEF Fields!ChangeSchema, Fields!request_rebuild, Fields!Refreshing, Fields!Begin, Fields!Look,
       Fields!Lock, Fields!Fill, Fields!Check, Fields!Commit, Fields!Settle, Fields!FailJob, Fields!FailRow,
       Fields!vars, Fields!WriteRow
  <2> QED
    BY <2>1, ListingRests
<1> QED
  BY <1>1, <1>2, <1>3, <1>4, <1>5, <1>6, <1>7, <1>8 DEF Fields!Next, Fields!EndRow

\* At the start nobody lists notes and no request to rebuild is open.
LEMMA ListingBegins == FieldConstants /\ Fields!Init => ListingInv /\ RequestInv
<1> SUFFICES ASSUME FieldConstants, Fields!Init PROVE ListingInv /\ RequestInv
  OBVIOUS
<1>1. ListingInv
  BY NothingListed DEF Fields!Init, Fields!Start, ListingInv, Steady, Covered, Counted, Justified
<1>2. refresh.pc = "idle" /\ retry = 0 /\ taken = 0 /\ ileave.requests = FieldRequests /\ FieldRequests \in Nat
  BY DEF Fields!Init, Fields!Start, Fields!NoJob, FieldConstants
<1> QED
  BY <1>1, <1>2 DEF RequestInv, Fields!RequestsAreTaken

\* Every state of the field index keeps its word, whatever the notes, the page size and
\* the number of writes, schema changes, requests and faults.
THEOREM FieldIndexHolds == Fields!Spec => []FieldIndexServes
<1> USE ServicesAssumption
<1> DEFINE Whole == IndexInv /\ RequestInv /\ ListingInv
<1>1. Fields!Init => Whole
  BY IndexBegins, ListingBegins
<1>2. Whole /\ [Fields!Next]_(Fields!vars) => Whole'
  BY IndexSteps, RequestSteps, ListingSteps
<1>3. Whole => FieldIndexServes
  <2>1. ListingInv => Fields!ListsAreTrue
    BY DEF ListingInv, Covered, Justified, Fields!ListsAreTrue
  <2> QED
    BY <2>1 DEF IndexInv, RequestInv, FieldIndexServes
<1> QED
  BY <1>1, <1>2, <1>3, PTL DEF Fields!Spec

-----------------------------------------------------------------------------
(* ControlFiles: revisioned files under one lock, and the bootstrap *)

Works   == [pc : {"idle", "submit", "read", "lock", "check", "replace", "schema", "keys", "reveal"},
            file : Control!Names \cup {None}, rev : Nat \cup {None}, change : Changes \cup {None},
            body : (SUBSET Entries) \cup {None}, tries : Nat, then : {None, "schema", "keys"}]

FileTypes ==
    /\ control \in [Control!Names -> [rev : Nat, body : SUBSET Entries]]
    /\ flock \in Clerks \cup {None}
    /\ clerks \in [Clerks -> Works]
    /\ fleave.requests \in 0 .. ControlRequests /\ fleave \in [requests : Nat, faults : Nat]

\* At a revision there is one content; a change that waits for the lock, or has it, was
\* prepared on that content if the file is still at the revision it names.
Prepared(p) ==
    clerks[p].pc \in {"lock", "check", "replace"} =>
        /\ clerks[p].file \in Control!Names /\ clerks[p].rev \in Nat /\ clerks[p].change \in Changes
        /\ clerks[p].rev <= control[clerks[p].file].rev
        /\ clerks[p].rev = control[clerks[p].file].rev =>
              clerks[p].body = Control!Apply(control[clerks[p].file].body, clerks[p].change)
Holds(p) ==
    /\ clerks[p].pc \in {"check", "replace"} => flock = p
    /\ clerks[p].pc = "replace" => clerks[p].rev = control[clerks[p].file].rev
    /\ clerks[p].pc = "submit" => clerks[p].file \in {"keys", "schema"}
    /\ clerks[p].pc = "read" => clerks[p].file = "notices"
    /\ clerks[p].pc \in {"submit", "read"} => clerks[p].then = None
FilesInv ==
    /\ FileTypes
    /\ \A f \in Control!Names : control[f].rev = 0 => control[f].body = {}
    /\ \A p \in Clerks : Prepared(p) /\ Holds(p)

Defaults  == {e \in control["keys"].body : e.default}
Live(c)   == \E e \in c.put : e.default /\ e.live
Mints(p)  == clerks[p].change # None /\ Live(clerks[p].change)
Waiting(p) == clerks[p].pc \in {"lock", "check", "replace"} /\ clerks[p].file = "keys"
Told(id)  == reveal = [is |-> "credential", id |-> id]

\* What a change of the keys is: entries that are not the default key, the end of a live
\* one, or the minting of the default key, whose credential is told and which is the first.
Adding(c)  == c.ids = {} /\ \A e \in c.put : ~e.default
Ending(c)  == \E e \in control["keys"].body : c = Control!Revokes(e)
Minting(c) == Defaults = {} /\ \E id \in Nat : c = Control!Change({}, {Control!Default(id)}) /\ Told(id)

KeysWork(p) ==
    /\ Waiting(p) /\ clerks[p].rev = control["keys"].rev =>
          Adding(clerks[p].change) \/ Ending(clerks[p].change) \/ Minting(clerks[p].change)
    /\ Waiting(p) /\ Mints(p) => Minting(clerks[p].change)
    /\ clerks[p].pc = "reveal" =>
          /\ Defaults = {} /\ clerks[p].file = "keys" /\ clerks[p].rev \in Nat
          /\ clerks[p].body \in SUBSET Entries
          /\ clerks[p].rev <= control["keys"].rev
          /\ clerks[p].rev = control["keys"].rev => clerks[p].body = control["keys"].body
KeysInv ==
    /\ reveal.is # "lost"
    /\ \A d, e \in Defaults : d = e
    /\ \A e \in Defaults : e.live => Told(e.id)
    /\ \A p, q \in Clerks : Control!Boots(p) /\ Control!Boots(q) => p = q
    /\ \A p \in Clerks : KeysWork(p)

\* At the start there are no files, nobody changes one and nothing is revealed.
LEMMA ControlBegins == ControlConstants /\ Control!Init => FilesInv /\ KeysInv
<1> SUFFICES ASSUME ControlConstants, Control!Init PROVE FilesInv /\ KeysInv
  OBVIOUS
<1> USE DEF Control!Init, Control!Start
<1>1. \A p \in Clerks : clerks[p] \in Works /\ clerks[p].pc = "idle" /\ clerks[p].then = None /\ clerks[p].change = None
  BY DEF Control!Idle, Works
<1>2. clerks \in [Clerks -> Works]
  BY <1>1
<1>3. FileTypes
  BY <1>2 DEF FileTypes, ControlConstants
<1>4. FilesInv
  BY <1>1, <1>3 DEF FilesInv, Prepared, Holds
<1>5. Defaults = {}
  BY DEF Defaults, Control!Names
<1>6. \A p \in Clerks : KeysWork(p) /\ ~Control!Boots(p)
  BY <1>1 DEF KeysWork, Waiting, Control!Boots
<1> QED
  BY <1>4, <1>5, <1>6 DEF KeysInv

\* What may still happen only decreases.
LEMMA ControlLeft ==
  ASSUME ControlConstants, FilesInv, UNCHANGED fleave \/ Control!May("requests") \/ Control!May("faults")
  PROVE  fleave'.requests \in 0 .. ControlRequests /\ fleave' \in [requests : Nat, faults : Nat]
<1>0. /\ fleave.requests \in 0 .. ControlRequests /\ fleave \in [requests : Nat, faults : Nat] /\ ControlRequests \in Nat
  BY DEF FilesInv, FileTypes, ControlConstants
<1>1. CASE Control!May("requests")
  BY <1>0, <1>1 DEF Control!May
<1>2. CASE Control!May("faults")
  BY <1>0, <1>2 DEF Control!May
<1> QED
  BY <1>0, <1>1, <1>2

\* A change, got ready for the lock.
LEMMA ReadyIs ==
  \A j \in Works, r \in Nat, c \in Changes, b \in SUBSET Entries :
     LET w == Control!Ready(j, r, c, b)
     IN /\ w \in Works /\ w.pc = "lock" /\ w.file = j.file /\ w.rev = r /\ w.change = c
        /\ w.body = Control!Apply(b, c) /\ w.then = j.then
<1> SUFFICES ASSUME NEW j \in Works, NEW r \in Nat, NEW c \in Changes, NEW b \in SUBSET Entries
             PROVE  LET w == Control!Ready(j, r, c, b)
                    IN /\ w \in Works /\ w.pc = "lock" /\ w.file = j.file /\ w.rev = r /\ w.change = c
                       /\ w.body = Control!Apply(b, c) /\ w.then = j.then
  OBVIOUS
<1>1. Control!Apply(b, c) \in SUBSET Entries
  BY DEF Control!Apply, Changes
<1> DEFINE x == Control!Apply(b, c)
<1>2. Control!Ready(j, r, c, b) = [j EXCEPT !.pc = "lock", !.rev = r, !.change = c, !.body = x]
  BY DEF Control!Ready
<1> HIDE DEF x
<1>3. [j EXCEPT !.pc = "lock", !.rev = r, !.change = c, !.body = x] \in Works
  BY <1>1 DEF x, Works
<1> QED
  BY <1>2, <1>3 DEF x, Works

\* The changes that are made are changes; none but the bootstrap's puts a live default key.
LEMMA ChangesAre ==
  /\ \A j : j.tries \in Nat => Control!Creates(j) \in Changes /\ Adding(Control!Creates(j)) /\ ~Live(Control!Creates(j))
  /\ \A e \in Entries : Control!Revokes(e) \in Changes /\ ~Live(Control!Revokes(e))
  /\ \A e \in Entries : Control!Change({e.id}, {}) \in Changes /\ ~Live(Control!Change({e.id}, {}))
  /\ Control!Change({}, {}) \in Changes /\ ~Live(Control!Change({}, {}))
  /\ \A id \in Nat : Control!Change({}, {Control!Default(id)}) \in Changes
<1>1. ASSUME NEW j, j.tries \in Nat
      PROVE  Control!Creates(j) \in Changes /\ Adding(Control!Creates(j)) /\ ~Live(Control!Creates(j))
  BY <1>1 DEF Control!Creates, Control!Change, Control!Entry, Changes, Entries, Adding, Live
<1>2. ASSUME NEW e \in Entries PROVE Control!Revokes(e) \in Changes /\ ~Live(Control!Revokes(e))
  <2>1. [e EXCEPT !.live = FALSE] \in Entries /\ [e EXCEPT !.live = FALSE].live = FALSE
    BY DEF Entries
  <2> QED
    BY <2>1 DEF Control!Revokes, Control!Change, Changes, Entries, Live
<1>3. /\ \A e \in Entries : Control!Change({e.id}, {}) \in Changes /\ ~Live(Control!Change({e.id}, {}))
      /\ Control!Change({}, {}) \in Changes /\ ~Live(Control!Change({}, {}))
  BY DEF Control!Change, Changes, Entries, Live
<1>4. \A id \in Nat : Control!Change({}, {Control!Default(id)}) \in Changes
  BY DEF Control!Change, Control!Default, Control!Entry, Changes, Entries
<1> QED
  BY <1>1, <1>2, <1>3, <1>4

\* One clerk goes on, the files stay: what the others have prepared stays prepared.
LEMMA OneGoesOn ==
  ASSUME FilesInv, KeysInv, NEW p \in Clerks, UNCHANGED control, flock' \in Clerks \cup {None},
         fleave'.requests \in 0 .. ControlRequests /\ fleave' \in [requests : Nat, faults : Nat],
         clerks' = [clerks EXCEPT ![p] = clerks'[p]], clerks'[p] \in Works, Prepared(p)', Holds(p)',
         \A q \in Clerks \ {p} : flock = q => flock' = q
  PROVE  /\ FilesInv'
         /\ UNCHANGED reveal /\ KeysWork(p)' /\ (Control!Boots(p)' => Control!Boots(p) \/ \A q \in Clerks : ~Control!Boots(q))
              => KeysInv'
<1>0. \A q \in Clerks \ {p} : clerks'[q] = clerks[q]
  BY DEF FilesInv, FileTypes
<1>1. FilesInv'
  <2>1. FileTypes'
    BY DEF FilesInv, FileTypes
  <2>2. ASSUME NEW q \in Clerks \ {p} PROVE Prepared(q)' /\ Holds(q)'
    BY <1>0, <2>2 DEF FilesInv, Prepared, Holds
  <2> QED
    BY <2>1, <2>2 DEF FilesInv
<1>2. ASSUME UNCHANGED reveal, KeysWork(p)',
             Control!Boots(p)' => Control!Boots(p) \/ \A q \in Clerks : ~Control!Boots(q)
      PROVE  KeysInv'
  <2>1. Defaults' = Defaults
    BY DEF Defaults
  <2>2. ASSUME NEW q \in Clerks \ {p} PROVE KeysWork(q)' /\ (Control!Boots(q)' <=> Control!Boots(q))
    <3>1. /\ clerks'[q] = clerks[q] /\ KeysWork(q)
          /\ \A c : (Ending(c)' <=> Ending(c)) /\ (Minting(c)' <=> Minting(c))
      BY <1>0, <1>2, <2>1 DEF KeysInv, Ending, Minting, Told
    <3>2. Mints(q)' <=> Mints(q)
      BY <3>1 DEF Mints
    <3>3. KeysWork(q)'
      BY <2>1, <3>1, <3>2 DEF KeysWork, Waiting
    <3> QED
      BY <3>1, <3>3 DEF Control!Boots
  <2>3. \A q, r \in Clerks : Control!Boots(q)' /\ Control!Boots(r)' => q = r
    BY <1>2, <2>2 DEF KeysInv
  <2> QED
    BY <1>2, <2>1, <2>2, <2>3 DEF KeysInv, Told
<1> QED
  BY <1>1, <1>2

\* One clerk goes on while what is said of the default key changes: nobody else is about
\* to mint one.
LEMMA OneSays ==
  ASSUME ControlConstants, FilesInv, KeysInv, NEW p \in Clerks, UNCHANGED control, Control!Boots(p),
         clerks' = [clerks EXCEPT ![p] = clerks'[p]], KeysWork(p)', reveal'.is # "lost",
         \A e \in Defaults : ~e.live
  PROVE  KeysInv'
<1>0. \A q \in Clerks \ {p} : clerks'[q] = clerks[q] /\ KeysWork(q) /\ ~Control!Boots(q)
  BY DEF FilesInv, FileTypes, KeysInv
<1>1. Defaults' = Defaults
  BY DEF Defaults
<1>2. ASSUME NEW q \in Clerks \ {p} PROVE KeysWork(q)' /\ ~Control!Boots(q)'
  <2>1. ~Control!Boots(q)'
    BY <1>0 DEF Control!Boots
  <2>2. Waiting(q) => clerks[q].change # None
    BY DEF FilesInv, Prepared, Waiting, Changes, ControlConstants
  <2>3. Waiting(q) => ~Live(clerks[q].change)
    BY <1>0, <2>2 DEF Control!Boots, Live
  <2>4. \A id : Live(Control!Change({}, {Control!Default(id)}))
    BY DEF Live, Control!Change, Control!Default, Control!Entry
  <2>5. Waiting(q) => ~Minting(clerks[q].change)
    BY <2>3, <2>4 DEF Minting
  <2>6. \A c : Ending(c)' <=> Ending(c)
    BY DEF Ending
  <2>7. Waiting(q)' => ~Mints(q)'
    BY <1>0, <2>3 DEF Waiting, Mints
  <2> QED
    BY <1>0, <1>1, <2>1, <2>5, <2>6, <2>7 DEF KeysWork, Waiting
<1>3. \A q, r \in Clerks : Control!Boots(q)' /\ Control!Boots(r)' => q = r
  BY <1>2
<1> QED
  BY <1>1, <1>2, <1>3 DEF KeysInv

\* A clerk at rest, and one that has just begun.
LEMMA IdleIs ==
  /\ Control!Idle \in Works /\ Control!Idle.pc = "idle" /\ Control!Idle.then = None
  /\ Control!Idle.change = None
  /\ \A a \in {"idle", "schema", "keys"} :
        /\ [Control!Idle EXCEPT !.pc = a] \in Works /\ [Control!Idle EXCEPT !.pc = a].pc = a
        /\ [Control!Idle EXCEPT !.pc = a].then = None /\ [Control!Idle EXCEPT !.pc = a].change = None
  /\ \A f \in Control!Names, r \in Nat, t \in Nat :
        LET w == [Control!Idle EXCEPT !.pc = "submit", !.file = f, !.rev = r, !.tries = t]
        IN w \in Works /\ w.pc = "submit" /\ w.file = f /\ w.then = None /\ w.change = None
  /\ \A t \in Nat :
        LET w == [Control!Idle EXCEPT !.pc = "read", !.file = "notices", !.tries = t]
        IN w \in Works /\ w.pc = "read" /\ w.file = "notices" /\ w.then = None /\ w.change = None
  /\ LET w == [Control!Idle EXCEPT !.pc = "read", !.file = "notices"]
     IN w \in Works /\ w.pc = "read" /\ w.file = "notices" /\ w.then = None /\ w.change = None
BY ZenonT(60) DEF Control!Idle, Works, Control!Names

\* A clerk that does not yet change anything, or no longer.
LEMMA OneRests ==
  ASSUME ControlConstants, FilesInv, KeysInv, NEW p \in Clerks, UNCHANGED <<control, reveal>>,
         flock' = flock \/ (flock = p /\ flock' = None), UNCHANGED fleave \/ Control!May("requests") \/ Control!May("faults"),
         clerks' = [clerks EXCEPT ![p] = clerks'[p]], clerks'[p] \in Works,
         clerks'[p].pc \in {"idle", "submit", "read", "schema", "keys"}, clerks'[p].then = None, clerks'[p].change = None,
         clerks'[p].pc = "submit" => clerks'[p].file \in {"keys", "schema"},
         clerks'[p].pc = "read" => clerks'[p].file = "notices",
         clerks'[p].pc \in {"schema", "keys"} => Control!Boots(p) \/ \A q \in Clerks : ~Control!Boots(q)
  PROVE  FilesInv' /\ KeysInv'
<1>1. fleave'.requests \in 0 .. ControlRequests /\ fleave' \in [requests : Nat, faults : Nat]
  BY ControlLeft
<1>2. flock' \in Clerks \cup {None} /\ \A q \in Clerks \ {p} : flock = q => flock' = q
  BY DEF FilesInv, FileTypes
<1>3. Prepared(p)' /\ Holds(p)' /\ KeysWork(p)'
  BY DEF Prepared, Holds, KeysWork, Waiting
<1>4. Control!Boots(p)' => Control!Boots(p) \/ \A q \in Clerks : ~Control!Boots(q)
  BY DEF Control!Boots
<1> QED
  BY <1>1, <1>2, <1>3, <1>4, OneGoesOn

\* Forms, notices and deaths.
LEMMA RestsKeep ==
  ASSUME ControlConstants, FilesInv, KeysInv, NEW p \in Clerks,
         Control!Show(p) \/ Control!Notice(p) \/ Control!BootBegins(p) \/ Control!Dies(p)
  PROVE  FilesInv' /\ KeysInv'
<1>0. clerks \in [Clerks -> Works] /\ control \in [Control!Names -> [rev : Nat, body : SUBSET Entries]]
      /\ fleave.requests \in 0 .. ControlRequests /\ ControlRequests \in Nat
  BY DEF FilesInv, FileTypes, ControlConstants
<1>1. CASE Control!Show(p)
  <2>1. /\ UNCHANGED <<control, flock, reveal>> /\ Control!May("requests")
        /\ \E f \in Control!Names \ {"notices"} :
             clerks' = [clerks EXCEPT ![p] = [Control!Idle EXCEPT !.pc = "submit", !.file = f,
                                             !.rev = control[f].rev, !.tries = Control!Fresh]]
    BY <1>1 DEF Control!Show, Control!Begin, Control!Go
  <2>2. Control!Fresh \in Nat
    BY <1>0 DEF Control!Fresh
  <2>3. PICK f \in Control!Names \ {"notices"} :
          clerks' = [clerks EXCEPT ![p] = [Control!Idle EXCEPT !.pc = "submit", !.file = f,
                                          !.rev = control[f].rev, !.tries = Control!Fresh]]
    BY <2>1
  <2>4. control[f].rev \in Nat /\ f \in {"keys", "schema"}
    BY <1>0 DEF Control!Names
  <2>5. PICK r \in Nat, t \in Nat : r = control[f].rev /\ t = Control!Fresh
    BY <2>2, <2>4
  <2> DEFINE w == [Control!Idle EXCEPT !.pc = "submit", !.file = f, !.rev = r, !.tries = t]
  <2>6. w \in Works /\ w.pc = "submit" /\ w.file = f /\ w.then = None /\ w.change = None
    BY <2>3 DEF Control!Idle, Works, Control!Names
  <2>7. clerks' = [clerks EXCEPT ![p] = w]
    BY <2>3, <2>5
  <2> HIDE DEF w
  <2>8. clerks'[p] = w
    BY <1>0, <2>7
  <2>9. clerks' = [clerks EXCEPT ![p] = clerks'[p]]
    BY <2>7, <2>8
  <2> QED
    BY <2>1, <2>4, <2>6, <2>8, <2>9, OneRests
<1>2. CASE Control!Notice(p)
  <2>1. /\ UNCHANGED <<control, flock, reveal>> /\ Control!May("requests")
        /\ clerks' = [clerks EXCEPT ![p] = [Control!Idle EXCEPT !.pc = "read", !.file = "notices"]]
    BY <1>2 DEF Control!Notice, Control!Begin, Control!Go
  <2>2. clerks'[p] = [Control!Idle EXCEPT !.pc = "read", !.file = "notices"]
    BY <1>0, <2>1
  <2>3. /\ clerks'[p] \in Works /\ clerks'[p].then = None /\ clerks'[p].change = None
        /\ clerks'[p].pc = "read" /\ clerks'[p].file = "notices"
    BY <2>2, IdleIs
  <2>4. clerks' = [clerks EXCEPT ![p] = clerks'[p]]
    BY <2>1, <2>2
  <2> QED
    BY <2>1, <2>3, <2>4, OneRests
<1>3. CASE Control!BootBegins(p)
  <2>1. /\ UNCHANGED <<control, flock, reveal>> /\ Control!May("requests") /\ \A q \in Clerks : ~Control!Boots(q)
        /\ clerks' = [clerks EXCEPT ![p] = [Control!Idle EXCEPT !.pc = "schema"]]
    BY <1>3 DEF Control!BootBegins, Control!Begin, Control!Go
  <2>2. clerks'[p] = [Control!Idle EXCEPT !.pc = "schema"]
    BY <1>0, <2>1
  <2>3. /\ clerks'[p] \in Works /\ clerks'[p].then = None /\ clerks'[p].change = None
        /\ clerks'[p].pc = "schema"
    BY <2>2 DEF Control!Idle, Works
  <2>4. clerks' = [clerks EXCEPT ![p] = clerks'[p]]
    BY <2>1, <2>2
  <2> QED
    BY <2>1, <2>3, <2>4, OneRests
<1>4. CASE Control!Dies(p)
  <2>1. /\ UNCHANGED <<control, reveal>> /\ Control!May("faults") /\ flock' = IF flock = p THEN None ELSE flock
        /\ clerks' = [clerks EXCEPT ![p] = Control!Idle]
    BY <1>4 DEF Control!Dies, Control!Go
  <2>2. clerks'[p] = Control!Idle
    BY <1>0, <2>1
  <2>3. /\ clerks'[p] \in Works /\ clerks'[p].then = None /\ clerks'[p].change = None
        /\ clerks'[p].pc = "idle"
    BY <2>2, IdleIs
  <2>4. clerks' = [clerks EXCEPT ![p] = clerks'[p]]
    BY <2>1, <2>2
  <2> QED
    BY <2>1, <2>3, <2>4, OneRests
<1> QED
  BY <1>1, <1>2, <1>3, <1>4

\* A change is prepared on what its clerk has read, at the revision it states.
LEMMA PreparingKeeps ==
  ASSUME ControlConstants, FilesInv, KeysInv, NEW p \in Clerks, Control!Submit(p) \/ Control!NoticeReads(p)
  PROVE  FilesInv' /\ KeysInv'
<1>0. /\ clerks \in [Clerks -> Works] /\ control \in [Control!Names -> [rev : Nat, body : SUBSET Entries]]
      /\ clerks[p] \in Works /\ Holds(p) /\ clerks[p].tries \in Nat
  BY DEF FilesInv, FileTypes, Works
\* A change got ready, which mints nothing.
<1>r. ASSUME UNCHANGED <<control, flock, reveal, fleave>>, clerks[p].pc \in {"submit", "read"},
             clerks[p].file \in Control!Names,
             NEW c \in Changes, ~Live(c), clerks[p].file = "keys" => Adding(c) \/ Ending(c),
             clerks' = [clerks EXCEPT ![p] = Control!Ready(clerks[p], control[clerks[p].file].rev, c, control[clerks[p].file].body)]
      PROVE  FilesInv' /\ KeysInv'
  <2> DEFINE w == Control!Ready(clerks[p], control[clerks[p].file].rev, c, control[clerks[p].file].body)
  <2>1. PICK r \in Nat, b \in SUBSET Entries : r = control[clerks[p].file].rev /\ b = control[clerks[p].file].body
    BY <1>0, <1>r
  <2>2. /\ w \in Works /\ w.pc = "lock" /\ w.file = clerks[p].file /\ w.rev = r /\ w.change = c
        /\ w.body = Control!Apply(b, c) /\ w.then = clerks[p].then
    BY <1>0, <2>1, ReadyIs
  <2>3. clerks' = [clerks EXCEPT ![p] = w]
    BY <1>r
  <2> HIDE DEF w
  <2>4. clerks'[p] = w /\ clerks' = [clerks EXCEPT ![p] = clerks'[p]]
    BY <1>0, <2>3
  <2>5. Prepared(p)' /\ Holds(p)'
    <3>1. control' = control /\ c \in Changes /\ clerks[p].file \in Control!Names
      BY <1>r
    <3>2. /\ clerks'[p].pc = "lock" /\ clerks'[p].file = clerks[p].file /\ clerks'[p].rev = r
          /\ clerks'[p].change = c /\ clerks'[p].body = Control!Apply(b, c)
      BY <2>2, <2>4
    <3> HIDE DEF w
    <3>3. Prepared(p)'
      BY <2>1, <3>1, <3>2 DEF Prepared
    <3>4. Holds(p)'
      BY <3>2 DEF Holds
    <3> QED
      BY <3>3, <3>4
  <2>6. KeysWork(p)'
    <3>1. \A d : Ending(d)' <=> Ending(d)
      BY <1>r DEF Ending
    <3>2. ~Mints(p)'
      BY <1>r, <2>2, <2>4 DEF Mints
    <3>3. clerks'[p].file = "keys" => Adding(c) \/ Ending(c)'
      BY <1>r, <2>2, <2>4, <3>1
    <3> QED
      BY <2>2, <2>4, <3>2, <3>3 DEF KeysWork, Waiting
  <2>7. ~Control!Boots(p)'
    <3>1. clerks'[p].then = None /\ clerks'[p].pc = "lock" /\ clerks'[p].change = c
      BY <1>0, <1>r, <2>2, <2>4 DEF Holds
    <3> QED
      BY <1>r, <3>1 DEF Control!Boots, Live
  <2>8. /\ flock' \in Clerks \cup {None} /\ fleave'.requests \in 0 .. ControlRequests
        /\ fleave' \in [requests : Nat, faults : Nat]
    BY <1>r, ControlLeft DEF FilesInv, FileTypes
  <2> QED
    BY <1>r, <2>2, <2>4, <2>5, <2>6, <2>7, <2>8, OneGoesOn
<1>1. CASE Control!Submit(p)
  <2> DEFINE f == control[clerks[p].file]
  <2>1. /\ UNCHANGED <<control, flock, reveal, fleave>> /\ clerks[p].pc = "submit"
        /\ \/ clerks' = [clerks EXCEPT ![p] = Control!Idle]
           \/ clerks' = [clerks EXCEPT ![p] = Control!Ready(clerks[p], f.rev, Control!Creates(clerks[p]), f.body)]
           \/ \E e \in f.body :
                clerks' = [clerks EXCEPT ![p] = Control!Ready(clerks[p], f.rev, Control!Revokes(e), f.body)]
    <3>1. /\ UNCHANGED <<control, flock, reveal, fleave>> /\ clerks[p].pc = "submit"
          /\ \/ f.rev # clerks[p].rev /\ Control!Go(p, Control!Idle)
             \/ /\ f.rev = clerks[p].rev
                /\ \/ Control!Go(p, Control!Ready(clerks[p], f.rev, Control!Creates(clerks[p]), f.body))
                   \/ \E e \in f.body : e.live /\ Control!Go(p, Control!Ready(clerks[p], f.rev, Control!Revokes(e), f.body))
      BY <1>1 DEF Control!Submit, Control!At
    <3> QED
      BY <3>1 DEF Control!Go
  <2>2. clerks[p].file \in {"keys", "schema"} /\ clerks[p].file \in Control!Names
    BY <1>0, <2>1 DEF Holds, Control!Names
  <2>3. CASE clerks' = [clerks EXCEPT ![p] = Control!Idle]
    <3>1. clerks'[p] = Control!Idle
      BY <1>0, <2>3
    <3>2. clerks'[p] \in Works /\ clerks'[p].then = None /\ clerks'[p].change = None /\ clerks'[p].pc = "idle"
      BY <3>1, IdleIs
    <3>3. clerks' = [clerks EXCEPT ![p] = clerks'[p]]
      BY <2>3, <3>1
    <3> QED
      BY <2>1, <3>2, <3>3, OneRests
  <2>4. CASE clerks' = [clerks EXCEPT ![p] = Control!Ready(clerks[p], f.rev, Control!Creates(clerks[p]), f.body)]
    <3>1. PICK c \in Changes : c = Control!Creates(clerks[p]) /\ ~Live(c) /\ Adding(c)
      BY <1>0, ChangesAre
    <3> QED
      BY <1>r, <2>1, <2>2, <2>4, <3>1
  <2>5. ASSUME NEW e \in f.body,
               clerks' = [clerks EXCEPT ![p] = Control!Ready(clerks[p], f.rev, Control!Revokes(e), f.body)]
        PROVE  FilesInv' /\ KeysInv'
    <3>1. e \in Entries
      BY <1>0, <2>2
    <3>2. PICK c \in Changes : c = Control!Revokes(e) /\ ~Live(c)
      BY <3>1, ChangesAre
    <3>3. clerks[p].file = "keys" => Ending(c)
      BY <3>2 DEF Ending
    <3> QED
      BY <1>r, <2>1, <2>2, <2>5, <3>2, <3>3
  <2> QED
    BY <2>1, <2>3, <2>4, <2>5
<1>2. CASE Control!NoticeReads(p)
  <2> DEFINE f == control["notices"]
             zero == [tries |-> 0]
  <2>1. /\ UNCHANGED <<control, flock, reveal, fleave>> /\ clerks[p].pc = "read"
        /\ \/ clerks' = [clerks EXCEPT ![p] = Control!Ready(clerks[p], f.rev, Control!Creates(zero), f.body)]
           \/ \E e \in f.body :
                clerks' = [clerks EXCEPT ![p] = Control!Ready(clerks[p], f.rev, Control!Change({e.id}, {}), f.body)]
    BY <1>2 DEF Control!NoticeReads, Control!At, Control!Go
  <2>2. clerks[p].file = "notices" /\ clerks[p].file \in Control!Names
    BY <1>0, <2>1 DEF Holds, Control!Names
  <2>3. CASE clerks' = [clerks EXCEPT ![p] = Control!Ready(clerks[p], f.rev, Control!Creates(zero), f.body)]
    <3>1. PICK c \in Changes : c = Control!Creates(zero) /\ ~Live(c)
      BY ChangesAre
    <3> QED
      BY <1>r, <2>1, <2>2, <2>3, <3>1
  <2>4. ASSUME NEW e \in f.body,
               clerks' = [clerks EXCEPT ![p] = Control!Ready(clerks[p], f.rev, Control!Change({e.id}, {}), f.body)]
        PROVE  FilesInv' /\ KeysInv'
    <3>1. e \in Entries
      BY <1>0, <2>2
    <3>2. PICK c \in Changes : c = Control!Change({e.id}, {}) /\ ~Live(c)
      BY <3>1, ChangesAre
    <3> QED
      BY <1>r, <2>1, <2>2, <2>4, <3>2
  <2> QED
    BY <2>1, <2>3, <2>4
<1> QED
  BY <1>1, <1>2

\* The lock: one clerk at a time compares the revision and replaces the file.
LEMMA LockingKeeps ==
  ASSUME ControlConstants, FilesInv, KeysInv, NEW p \in Clerks, Control!Lock(p) \/ Control!Check(p)
  PROVE  FilesInv' /\ KeysInv'
<1>0. /\ clerks \in [Clerks -> Works] /\ clerks[p] \in Works /\ Holds(p) /\ Prepared(p) /\ None \notin Clerks
      /\ KeysWork(p)
  BY DEF FilesInv, FileTypes, ControlConstants, KeysInv
<1>e. \A a \in {"check", "replace"} :
        /\ [clerks[p] EXCEPT !.pc = a] \in Works /\ [clerks[p] EXCEPT !.pc = a].pc = a
        /\ [clerks[p] EXCEPT !.pc = a].file = clerks[p].file /\ [clerks[p] EXCEPT !.pc = a].rev = clerks[p].rev
        /\ [clerks[p] EXCEPT !.pc = a].change = clerks[p].change /\ [clerks[p] EXCEPT !.pc = a].body = clerks[p].body
        /\ [clerks[p] EXCEPT !.pc = a].then = clerks[p].then
  BY <1>0 DEF Works
<1>g. ASSUME NEW a \in {"check", "replace"}, UNCHANGED <<control, reveal, fleave>>, flock' = p,
             \A q \in Clerks \ {p} : flock # q, clerks[p].pc \in {"lock", "check"},
             a = "replace" => clerks[p].rev = control[clerks[p].file].rev,
             clerks' = [clerks EXCEPT ![p] = [clerks[p] EXCEPT !.pc = a]]
      PROVE  FilesInv' /\ KeysInv'
  <2>1. clerks'[p] = [clerks[p] EXCEPT !.pc = a]
    BY <1>0, <1>g
  <2>2. /\ clerks'[p] \in Works /\ clerks'[p].pc = a /\ clerks'[p].file = clerks[p].file /\ clerks'[p].rev = clerks[p].rev
        /\ clerks'[p].change = clerks[p].change /\ clerks'[p].body = clerks[p].body /\ clerks'[p].then = clerks[p].then
    BY <1>e, <2>1
  <2>3. Prepared(p)' /\ Holds(p)'
    BY <1>0, <1>g, <2>2 DEF Prepared, Holds
  <2>4. KeysWork(p)'
    <3>1. (Mints(p)' <=> Mints(p)) /\ Waiting(p)' = Waiting(p)
      BY <1>g, <2>2 DEF Mints, Waiting
    <3>2. \A c : (Ending(c)' <=> Ending(c)) /\ (Minting(c)' <=> Minting(c))
      BY <1>g DEF Ending, Minting, Defaults, Told
    <3> QED
      BY <1>0, <1>g, <2>2, <3>1, <3>2 DEF KeysWork
  <2>5. Control!Boots(p)' => Control!Boots(p)
    BY <1>g, <2>2 DEF Control!Boots
  <2>6. fleave'.requests \in 0 .. ControlRequests /\ fleave' \in [requests : Nat, faults : Nat]
    BY <1>g, ControlLeft
  <2>7. clerks' = [clerks EXCEPT ![p] = clerks'[p]]
    BY <1>g, <2>1
  <2> QED
    BY <1>g, <2>2, <2>3, <2>4, <2>5, <2>6, <2>7, OneGoesOn
<1>1. CASE Control!Lock(p)
  <2>1. /\ UNCHANGED <<control, reveal, fleave>> /\ flock = None /\ flock' = p /\ clerks[p].pc = "lock"
        /\ clerks' = [clerks EXCEPT ![p] = [clerks[p] EXCEPT !.pc = "check"]]
    BY <1>1 DEF Control!Lock, Control!Free, Control!At, Control!Go
  <2> QED
    BY <1>0, <1>g, <2>1
<1>2. CASE Control!Check(p)
  <2>1. flock = p /\ clerks[p].pc = "check" /\ UNCHANGED <<control, reveal, fleave>>
    BY <1>0, <1>2 DEF Control!Check, Control!At, Holds
  <2>2. CASE Control!Expected(p)
    <3>1. /\ clerks' = [clerks EXCEPT ![p] = [clerks[p] EXCEPT !.pc = "replace"]] /\ flock' = p
          /\ clerks[p].rev = control[clerks[p].file].rev
      BY <1>2, <2>1, <2>2 DEF Control!Check, Control!Go, Control!Expected
    <3> QED
      BY <1>g, <2>1, <3>1
  <2>3. CASE ~Control!Expected(p)
    <3> DEFINE again == [Control!Idle EXCEPT !.pc = "read", !.file = "notices", !.tries = clerks[p].tries + 1]
    <3>1. flock' = None /\ \/ clerks' = [clerks EXCEPT ![p] = again]
                           \/ clerks' = [clerks EXCEPT ![p] = Control!Idle]
      BY <1>2, <2>3 DEF Control!Check, Control!Go
    <3>2. PICK t \in Nat : t = clerks[p].tries + 1
      BY <1>0 DEF Works
    <3>3. \A w \in {again, Control!Idle} :
            /\ w \in Works /\ w.pc \in {"read", "idle"} /\ w.then = None /\ w.change = None
            /\ w.pc = "read" => w.file = "notices"
      <4>1. /\ again \in Works /\ again.pc = "read" /\ again.then = None /\ again.change = None
            /\ again.file = "notices"
        BY <3>2 DEF Control!Idle, Works, Control!Names
      <4> HIDE DEF again
      <4> QED
        BY ZenonT(60), <4>1, IdleIs
    <3> HIDE DEF again
    <3>4. clerks'[p] \in {again, Control!Idle} /\ clerks' = [clerks EXCEPT ![p] = clerks'[p]]
      BY <1>0, <3>1
    <3> QED
      BY <2>1, <3>1, <3>3, <3>4, OneRests
  <2> QED
    BY <2>2, <2>3
<1> QED
  BY <1>1, <1>2

\* The bootstrap's steps: the schema, the look for a default key, its credential before
\* its record.
LEMMA BootKeeps ==
  ASSUME ControlConstants, FilesInv, KeysInv, NEW p \in Clerks,
         Control!BootSchema(p) \/ Control!BootKeys(p) \/ Control!BootReveals(p)
  PROVE  FilesInv' /\ KeysInv'
<1>0. /\ clerks \in [Clerks -> Works] /\ control \in [Control!Names -> [rev : Nat, body : SUBSET Entries]]
      /\ clerks[p] \in Works /\ clerks[p].tries \in Nat /\ flock \in Clerks \cup {None} /\ KeysWork(p)
      /\ fleave.requests \in 0 .. ControlRequests /\ fleave \in [requests : Nat, faults : Nat] /\ ControlRequests \in Nat
      /\ {"keys", "schema"} \subseteq Control!Names
  BY DEF FilesInv, FileTypes, Works, KeysInv, ControlConstants, Control!Names
<1>b. Control!Boots(p)
  BY DEF Control!Boots, Control!BootSchema, Control!BootKeys, Control!BootReveals, Control!At
<1>1. CASE Control!BootSchema(p)
  <2> DEFINE f == control["schema"]
             zero == [tries |-> 0]
             given == [clerks[p] EXCEPT !.file = "schema", !.then = "keys"]
             first == [given EXCEPT !.then = "schema"]
  <2>1. /\ UNCHANGED <<control, flock, reveal, fleave>>
        /\ \/ f.rev = 0 /\ clerks' = [clerks EXCEPT ![p] = Control!Ready(first, 0, Control!Change({}, {}), {})]
           \/ clerks' = [clerks EXCEPT ![p] = Control!Ready(given, f.rev, Control!Creates(zero), f.body)]
           \/ clerks' = [clerks EXCEPT ![p] = [Control!Idle EXCEPT !.pc = "keys"]]
    BY <1>1 DEF Control!BootSchema, Control!Go
  <2>2. given \in Works /\ first \in Works /\ given.file = "schema" /\ first.file = "schema"
    BY <1>0 DEF Works, Control!Names
  \* The schema is written as it was read; it holds no keys.
  <2>r. ASSUME NEW j \in Works, j.file = "schema", NEW c \in Changes, NEW b \in SUBSET Entries, NEW r \in Nat,
               ~Live(c), r = f.rev, b = f.body, clerks' = [clerks EXCEPT ![p] = Control!Ready(j, r, c, b)]
        PROVE  FilesInv' /\ KeysInv'
    <3> DEFINE w == Control!Ready(j, r, c, b)
    <3>1. /\ w \in Works /\ w.pc = "lock" /\ w.file = "schema" /\ w.rev = r /\ w.change = c
          /\ w.body = Control!Apply(b, c)
      BY <2>r, ReadyIs
    <3>2. clerks' = [clerks EXCEPT ![p] = w]
      BY <2>r
    <3> HIDE DEF w
    <3>3. clerks'[p] = w /\ clerks' = [clerks EXCEPT ![p] = clerks'[p]]
      BY <1>0, <3>2
    <3>4. Prepared(p)' /\ Holds(p)'
      BY <1>0, <2>1, <2>r, <3>1, <3>3 DEF Prepared, Holds
    <3>5. KeysWork(p)'
      BY <3>1, <3>3 DEF KeysWork, Waiting
    <3> QED
      BY <1>0, <1>b, <2>1, <3>1, <3>3, <3>4, <3>5, OneGoesOn
  <2>3. CASE f.rev = 0 /\ clerks' = [clerks EXCEPT ![p] = Control!Ready(first, 0, Control!Change({}, {}), {})]
    <3>1. f.body = {}
      BY <1>0, <2>3 DEF FilesInv
    <3>2. PICK c \in Changes : c = Control!Change({}, {}) /\ ~Live(c)
      BY ChangesAre
    <3>3. PICK j \in Works : j = first /\ j.file = "schema"
      BY <2>2
    <3> HIDE DEF first, given
    <3>4. clerks' = [clerks EXCEPT ![p] = Control!Ready(j, 0, c, {})]
      BY <2>3, <3>2, <3>3
    <3>5. 0 = f.rev /\ {} = f.body /\ {} \in SUBSET Entries /\ 0 \in Nat
      BY <2>3, <3>1
    <3> HIDE DEF f
    <3> QED
      BY <2>r, <3>2, <3>3, <3>4, <3>5
  <2>4. CASE clerks' = [clerks EXCEPT ![p] = Control!Ready(given, f.rev, Control!Creates(zero), f.body)]
    <3>1. PICK r \in Nat, b \in SUBSET Entries : r = f.rev /\ b = f.body
      BY <1>0
    <3>2. PICK c \in Changes : c = Control!Creates(zero) /\ ~Live(c)
      BY ChangesAre
    <3>3. PICK j \in Works : j = given /\ j.file = "schema"
      BY <2>2
    <3> HIDE DEF given, zero
    <3>4. clerks' = [clerks EXCEPT ![p] = Control!Ready(j, r, c, b)]
      BY <2>4, <3>1, <3>2, <3>3
    <3> HIDE DEF f
    <3> QED
      BY <2>r, <3>1, <3>2, <3>3, <3>4
  <2>5. CASE clerks' = [clerks EXCEPT ![p] = [Control!Idle EXCEPT !.pc = "keys"]]
    <3>1. clerks'[p] = [Control!Idle EXCEPT !.pc = "keys"]
      BY <1>0, <2>5
    <3>2. clerks'[p] \in Works /\ clerks'[p].then = None /\ clerks'[p].change = None /\ clerks'[p].pc = "keys"
      BY <3>1 DEF Control!Idle, Works
    <3>3. clerks' = [clerks EXCEPT ![p] = clerks'[p]]
      BY <2>5, <3>1
    <3> QED
      BY <1>b, <2>1, <3>2, <3>3, OneRests
  <2> QED
    BY <2>1, <2>3, <2>4, <2>5
<1>2. CASE Control!BootKeys(p)
  <2> DEFINE f == control["keys"]
             look == [clerks[p] EXCEPT !.pc = "reveal", !.file = "keys", !.rev = f.rev, !.tries = 10 + Control!Fresh,
                                     !.body = f.body]
  <2>1. /\ UNCHANGED <<control, flock, fleave>>
        /\ \/ /\ Defaults = {} /\ UNCHANGED reveal
              /\ clerks' = [clerks EXCEPT ![p] = look]
           \/ /\ Defaults # {} /\ clerks' = [clerks EXCEPT ![p] = Control!Idle]
              /\ \E e \in Defaults :
                   IF ~e.live THEN Control!Says("revoked", None)
                   ELSE IF reveal = [is |-> "credential", id |-> e.id] THEN UNCHANGED reveal
                   ELSE Control!Says("lost", None)
    BY <1>2 DEF Control!BootKeys, Control!Go, Defaults
  <2>2. CASE Defaults = {} /\ UNCHANGED reveal /\ clerks' = [clerks EXCEPT ![p] = look]
    <3>1. PICK r \in Nat, b \in SUBSET Entries, t \in Nat : r = f.rev /\ b = f.body /\ t = 10 + Control!Fresh
      BY <1>0 DEF Control!Fresh
    <3>2. /\ look \in Works /\ look.pc = "reveal" /\ look.file = "keys" /\ look.rev = r /\ look.body = b
      BY <1>0, <3>1 DEF Works
    <3>3. clerks'[p] = look /\ clerks' = [clerks EXCEPT ![p] = clerks'[p]]
      BY <1>0, <2>2
    <3> HIDE DEF look
    <3>4. Prepared(p)' /\ Holds(p)'
      BY <3>2, <3>3 DEF Prepared, Holds
    <3>5. KeysWork(p)'
      BY <1>0, <2>1, <2>2, <3>1, <3>2, <3>3 DEF KeysWork, Waiting, Defaults
    <3> QED
      BY <1>0, <1>b, <2>1, <2>2, <3>2, <3>3, <3>4, <3>5, OneGoesOn
  <2>3. ASSUME Defaults # {}, clerks' = [clerks EXCEPT ![p] = Control!Idle], NEW e \in Defaults,
               IF ~e.live THEN Control!Says("revoked", None)
               ELSE IF reveal = [is |-> "credential", id |-> e.id] THEN UNCHANGED reveal
               ELSE Control!Says("lost", None)
        PROVE  FilesInv' /\ KeysInv'
    <3>1. clerks'[p] = Control!Idle /\ clerks' = [clerks EXCEPT ![p] = clerks'[p]]
      BY <1>0, <2>3
    <3>2. /\ clerks'[p] \in Works /\ clerks'[p].then = None /\ clerks'[p].change = None /\ clerks'[p].pc = "idle"
      BY <3>1, IdleIs
    <3>3. Prepared(p)' /\ Holds(p)' /\ KeysWork(p)'
      BY <3>2 DEF Prepared, Holds, KeysWork, Waiting
    <3>4. FilesInv'
      BY <1>0, <2>1, <3>1, <3>2, <3>3, OneGoesOn
    <3>5. CASE e.live
      <4>1. UNCHANGED reveal
        BY <2>3, <3>5 DEF KeysInv, Told
      <4> QED
        BY <1>0, <1>b, <2>1, <3>1, <3>2, <3>3, <4>1, OneGoesOn
    <3>6. CASE ~e.live
      <4>1. reveal' = [is |-> "revoked", id |-> None]
        BY <2>3, <3>6 DEF Control!Says
      <4>2. \A d \in Defaults : ~d.live
        BY <2>3, <3>6 DEF KeysInv
      <4> QED
        BY <1>b, <2>1, <3>1, <3>3, <3>4, <4>1, <4>2, OneSays
    <3> QED
      BY <3>5, <3>6
  <2> QED
    BY <2>1, <2>2, <2>3
<1>3. CASE Control!BootReveals(p)
  <2>1. PICK id \in Nat : id = clerks[p].tries
    BY <1>0
  <2>2. PICK c \in Changes : c = Control!Change({}, {Control!Default(id)})
    BY ChangesAre
  <2> DEFINE j == clerks[p]
             w == Control!Ready(j, j.rev, c, j.body)
  <2>3. /\ UNCHANGED <<control, flock, fleave>> /\ j.pc = "reveal"
        /\ reveal' = [is |-> "credential", id |-> id]
        /\ clerks' = [clerks EXCEPT ![p] = w]
    BY <1>3, <2>1, <2>2 DEF Control!BootReveals, Control!Revealed, Control!Says, Control!Go, Control!At
  <2>4. /\ Defaults = {} /\ j.file = "keys" /\ j.rev \in Nat /\ j.rev <= control["keys"].rev
        /\ j.rev = control["keys"].rev => j.body = control["keys"].body
        /\ j.body \in SUBSET Entries
    BY <1>0, <2>3 DEF KeysWork
  <2>5. /\ w \in Works /\ w.pc = "lock" /\ w.file = "keys" /\ w.rev = j.rev /\ w.change = c
        /\ w.body = Control!Apply(j.body, c)
    BY <1>0, <2>4, ReadyIs
  <2> HIDE DEF w
  <2>6. clerks'[p] = w /\ clerks' = [clerks EXCEPT ![p] = clerks'[p]]
    BY <1>0, <2>3
  <2>7. Prepared(p)' /\ Holds(p)'
    BY <1>0, <2>3, <2>4, <2>5, <2>6 DEF Prepared, Holds
  <2>8. Minting(c)'
    BY <2>2, <2>3, <2>4 DEF Minting, Told, Defaults
  <2>9. KeysWork(p)'
    <3>1. clerks'[p].change = c /\ clerks'[p].pc = "lock"
      BY <2>5, <2>6
    <3> QED
      BY <2>8, <3>1 DEF KeysWork
  <2>10. FilesInv'
    BY <1>0, <2>3, <2>5, <2>6, <2>7, OneGoesOn
  <2>11. reveal'.is # "lost"
    BY <2>3
  <2>12. \A e \in Defaults : ~e.live
    BY <2>4
  <2> QED
    BY <1>b, <2>3, <2>6, <2>9, <2>10, <2>11, <2>12, OneSays
<1> QED
  BY <1>1, <1>2, <1>3

\* A file is replaced by what was prepared on it: the others' changes of it are of an
\* older revision now, and the keys have a default key at most, as it is told.
LEMMA ReplaceKeeps ==
  ASSUME ControlConstants, FilesInv, KeysInv, NEW p \in Clerks, Control!Replace(p)
  PROVE  FilesInv' /\ KeysInv' /\ Control!NothingElse(p)
<1> DEFINE n == clerks[p].file
<1>0. /\ clerks \in [Clerks -> Works] /\ control \in [Control!Names -> [rev : Nat, body : SUBSET Entries]]
      /\ clerks[p] \in Works /\ flock = p /\ clerks[p].pc = "replace" /\ p # None
      /\ n \in Control!Names /\ clerks[p].rev = control[n].rev /\ clerks[p].change \in Changes
      /\ clerks[p].body = Control!Apply(control[n].body, clerks[p].change)
      /\ control[n].rev \in Nat /\ control[n].body \in SUBSET Entries /\ KeysWork(p)
  BY DEF FilesInv, FileTypes, Prepared, Holds, Control!Replace, Control!At, ControlConstants, KeysInv
<1>1. /\ flock' = None /\ UNCHANGED <<reveal, fleave>>
      /\ control' = [control EXCEPT ![n] = [rev |-> control[n].rev + 1, body |-> clerks[p].body]]
      /\ \/ clerks' = [clerks EXCEPT ![p] = Control!Idle]
         \/ clerks[p].then # None /\ clerks' = [clerks EXCEPT ![p] = [Control!Idle EXCEPT !.pc = clerks[p].then]]
  BY DEF Control!Replace, Control!Go
<1>2. clerks[p].body \in SUBSET Entries
  BY <1>0 DEF Control!Apply, Changes
<1>3. /\ control'[n].rev = control[n].rev + 1 /\ control'[n].body = clerks[p].body
      /\ \A m \in Control!Names \ {n} : control'[m] = control[m]
      /\ control' \in [Control!Names -> [rev : Nat, body : SUBSET Entries]]
  BY <1>0, <1>1, <1>2
<1>4. Control!NothingElse(p)
  BY <1>0, <1>3 DEF Control!NothingElse
<1>5. /\ clerks' = [clerks EXCEPT ![p] = clerks'[p]] /\ clerks'[p] \in Works
      /\ clerks'[p].pc \in {"idle", "schema", "keys"} /\ clerks'[p].then = None /\ clerks'[p].change = None
      /\ clerks'[p].pc # "idle" => clerks[p].then # None
  <2>1. CASE clerks' = [clerks EXCEPT ![p] = Control!Idle]
    <3>1. clerks'[p] = Control!Idle
      BY <1>0, <2>1
    <3> QED
      BY <2>1, <3>1, IdleIs
  <2>2. CASE clerks[p].then # None /\ clerks' = [clerks EXCEPT ![p] = [Control!Idle EXCEPT !.pc = clerks[p].then]]
    <3>1. PICK a \in {"schema", "keys"} : a = clerks[p].then
      BY <1>0, <2>2 DEF Works
    <3>2. clerks'[p] = [Control!Idle EXCEPT !.pc = a]
      BY <1>0, <2>2, <3>1
    <3>3. /\ clerks'[p] \in Works /\ clerks'[p].pc = a /\ clerks'[p].then = None /\ clerks'[p].change = None
      BY <3>2 DEF Control!Idle, Works
    <3> QED
      BY <2>2, <3>1, <3>2, <3>3
  <2> QED
    BY <1>1, <2>1, <2>2
<1>6. \A q \in Clerks \ {p} : clerks'[q] = clerks[q]
  BY <1>0, <1>5
\* Who has prepared a change of this file prepared it on what is gone.
<1>7. ASSUME NEW q \in Clerks \ {p} PROVE Prepared(q)' /\ Holds(q)'
  <2>1. clerks'[q] = clerks[q] /\ Prepared(q) /\ Holds(q) /\ clerks[q].pc \notin {"check", "replace"}
    BY <1>0, <1>6 DEF FilesInv, Holds
  <2>2. Holds(q)'
    BY <2>1 DEF Holds
  <2>3. Prepared(q)'
    <3>1. CASE clerks[q].pc = "lock" /\ clerks[q].file = n
      <4>1. clerks[q].rev \in Nat /\ clerks[q].rev <= control[n].rev /\ clerks[q].change \in Changes
        BY <2>1, <3>1 DEF Prepared
      <4>2. clerks[q].rev < control'[n].rev
        BY <1>0, <1>3, <4>1
      <4> QED
        BY <1>0, <1>3, <2>1, <3>1, <4>1, <4>2 DEF Prepared
    <3>2. CASE clerks[q].pc = "lock" /\ clerks[q].file # n
      BY <1>3, <2>1, <3>2 DEF Prepared
    <3>3. CASE clerks[q].pc # "lock"
      BY <2>1, <3>3 DEF Prepared
    <3> QED
      BY <3>1, <3>2, <3>3
  <2> QED
    BY <2>2, <2>3
<1>8. FilesInv'
  <2>1. FileTypes'
    BY <1>1, <1>3, <1>5, <1>0 DEF FilesInv, FileTypes
  <2>2. Prepared(p)' /\ Holds(p)'
    BY <1>5 DEF Prepared, Holds
  <2>3. \A f \in Control!Names : control'[f].rev = 0 => control'[f].body = {}
    BY <1>0, <1>3 DEF FilesInv
  <2> QED
    BY <1>7, <2>1, <2>2, <2>3 DEF FilesInv
<1>9. /\ \A q \in Clerks \ {p} : Control!Boots(q)' <=> Control!Boots(q)
      /\ Control!Boots(p)' => Control!Boots(p)
  BY <1>5, <1>6 DEF Control!Boots
<1>10. \A q, r \in Clerks : Control!Boots(q)' /\ Control!Boots(r)' => q = r
  BY <1>9 DEF KeysInv
<1>11. KeysWork(p)'
  BY <1>5 DEF KeysWork, Waiting
<1>12. CASE n # "keys"
  <2>1. control'["keys"] = control["keys"] /\ Defaults' = Defaults
    BY <1>3, <1>12 DEF Defaults, Control!Names
  <2>2. ASSUME NEW q \in Clerks \ {p} PROVE KeysWork(q)'
    <3>1. clerks'[q] = clerks[q] /\ KeysWork(q) /\ \A c : (Ending(c)' <=> Ending(c)) /\ (Minting(c)' <=> Minting(c))
      BY <1>1, <1>6, <2>1 DEF KeysInv, Ending, Minting, Told
    <3>2. Mints(q)' <=> Mints(q)
      BY <3>1 DEF Mints
    <3> QED
      BY <2>1, <3>1, <3>2 DEF KeysWork, Waiting
  <2> QED
    BY <1>1, <1>4, <1>8, <1>10, <1>11, <2>1, <2>2 DEF KeysInv, Told
<1>13. CASE n = "keys"
  <2> DEFINE c == clerks[p].change
  <2>1. Defaults' = {e \in control["keys"].body : e.id \notin c.ids /\ e.default} \cup {e \in c.put : e.default}
    BY <1>0, <1>3, <1>13 DEF Defaults, Control!Apply
  <2>2. Adding(c) \/ Ending(c) \/ Minting(c)
    BY <1>0, <1>13 DEF KeysWork, Waiting
  <2>3. /\ \A d, e \in Defaults' : d = e
        /\ \A e \in Defaults' : e.live => Told(e.id)
        /\ Defaults = {} /\ ~Minting(c) => Defaults' = {}
    <3>0. /\ \A d, e \in Defaults : d = e
          /\ \A e \in Defaults : e.live => Told(e.id)
      BY DEF KeysInv
    <3>1. ASSUME Defaults' \subseteq Defaults
          PROVE  /\ \A d, e \in Defaults' : d = e
                 /\ \A e \in Defaults' : e.live => Told(e.id)
                 /\ Defaults = {} => Defaults' = {}
      BY <3>0, <3>1
    <3>2. CASE Adding(c)
      <4>1. Defaults' \subseteq Defaults
        BY <2>1, <3>2 DEF Adding, Defaults
      <4> QED
        BY <3>1, <4>1
    <3>3. CASE Ending(c)
      <4>1. PICK e \in control["keys"].body : c = Control!Revokes(e)
        BY <3>3 DEF Ending
      <4>2. PICK x : x = [e EXCEPT !.live = FALSE]
        OBVIOUS
      <4>3. c.ids = {e.id} /\ c.put = {x} /\ e \in Entries
        BY <1>0, <1>13, <4>1, <4>2 DEF Control!Revokes, Control!Change
      <4>4. ~x.live /\ x.default = e.default
        BY <4>2, <4>3 DEF Entries
      <4>5. CASE e.default
        <5>1. e \in Defaults /\ \A d \in Defaults : d.id = e.id
          BY <3>0, <4>5 DEF Defaults
        <5>2. Defaults' = {x}
          BY <2>1, <4>3, <4>4, <4>5, <5>1 DEF Defaults
        <5> QED
          BY <4>4, <5>1, <5>2
      <4>6. CASE ~e.default
        <5>1. Defaults' \subseteq Defaults
          BY <2>1, <4>3, <4>4, <4>6 DEF Defaults
        <5> QED
          BY <3>1, <5>1
      <4> QED
        BY <4>5, <4>6
    <3>4. CASE Minting(c)
      <4>1. PICK id \in Nat : c = Control!Change({}, {Control!Default(id)}) /\ Told(id) /\ Defaults = {}
        BY <3>4 DEF Minting
      <4>x. PICK x : x = Control!Default(id)
        OBVIOUS
      <4>2. x = Control!Default(id) /\ x.id = id
        BY <4>x DEF Control!Default, Control!Entry
      <4>3. c.put = {x}
        BY <4>1, <4>2 DEF Control!Change
      <4>4. Defaults' \subseteq {x}
        BY <2>1, <4>1, <4>3 DEF Defaults
      <4> QED
        BY <3>4, <4>1, <4>2, <4>4
    <3> QED
      BY <2>2, <3>2, <3>3, <3>4
  <2>4. Minting(c) => Control!Boots(p)
    <3>1. \A id : Live(Control!Change({}, {Control!Default(id)}))
      BY DEF Live, Control!Change, Control!Default, Control!Entry
    <3>2. c # None
      BY <1>0 DEF ControlConstants
    <3> QED
      BY <3>1, <3>2 DEF Minting, Control!Boots, Live
  <2>5. ASSUME NEW q \in Clerks \ {p} PROVE KeysWork(q)'
    <3>1. /\ clerks'[q] = clerks[q] /\ KeysWork(q) /\ Prepared(q) /\ (Mints(q)' <=> Mints(q))
      BY <1>6 DEF KeysInv, FilesInv, Mints
    <3>2. Waiting(q) \/ clerks[q].pc = "reveal" => clerks[q].rev \in Nat /\ clerks[q].rev <= control["keys"].rev
      BY <3>1 DEF KeysWork, Waiting, Prepared
    <3>3. Waiting(q) \/ clerks[q].pc = "reveal" => clerks[q].rev < control'["keys"].rev
      BY <1>0, <1>3, <1>13, <3>2
    <3>4. (Waiting(q) /\ Mints(q)) \/ clerks[q].pc = "reveal" => Defaults' = {}
      <4>1. (Waiting(q) /\ Mints(q)) \/ clerks[q].pc = "reveal" => Control!Boots(q)
        BY DEF Mints, Live, Control!Boots
      <4>2. Control!Boots(q) => ~Minting(c)
        BY <2>4 DEF KeysInv
      <4> QED
        BY <2>3, <3>1, <4>1, <4>2 DEF KeysWork, Minting
    <3>5. Waiting(q)' /\ Mints(q)' => Minting(clerks[q].change)'
      BY <1>1, <1>6, <3>1, <3>4 DEF KeysWork, Waiting, Minting, Told
    <3>6. clerks'[q].pc = "reveal" => /\ Defaults' = {} /\ clerks'[q].file = "keys" /\ clerks'[q].rev \in Nat
                                      /\ clerks'[q].body \in SUBSET Entries
                                      /\ clerks'[q].rev < control'["keys"].rev
      BY <3>1, <3>3, <3>4 DEF KeysWork
    <3>7. Waiting(q)' => clerks'[q].rev \in Nat /\ clerks'[q].rev < control'["keys"].rev
      BY <3>1, <3>2, <3>3 DEF Waiting
    <3>8. control'["keys"].rev \in Nat
      BY <1>3, <1>13, <1>0
    <3> QED
      BY <3>5, <3>6, <3>7, <3>8 DEF KeysWork
  <2>6. \A q \in Clerks : KeysWork(q)'
    BY <1>11, <2>5
  <2>7. \A e \in Defaults' : e.live => reveal' = [is |-> "credential", id |-> e.id]
    BY <1>1, <2>3 DEF Told
  <2>8. reveal'.is # "lost" /\ \A d, e \in Defaults' : d = e
    BY <1>1, <2>3 DEF KeysInv
  <2> HIDE DEF c
  <2> QED
    BY <1>4, <1>8, <1>10, <2>6, <2>7, <2>8 DEF KeysInv, Told
<1> QED
  BY <1>4, <1>8, <1>12, <1>13

\* Every step keeps the files and the keys, and whoever replaces a file changes nothing else.
LEMMA ControlSteps ==
  ASSUME ControlConstants, FilesInv, KeysInv, [Control!Next]_(Control!vars)
  PROVE  FilesInv' /\ KeysInv' /\ \A p \in Clerks : Control!Replace(p) => Control!NothingElse(p)
<1>1. \A p \in Clerks : Control!Replace(p) => Control!NothingElse(p)
  BY ReplaceKeeps
<1>2. CASE UNCHANGED Control!vars
  <2>1. UNCHANGED <<control, flock, clerks, reveal, fleave>>
    BY <1>2 DEF Control!vars
  <2>2. FilesInv'
    BY <2>1 DEF FilesInv, FileTypes, Prepared, Holds
  <2>3. \A p \in Clerks : KeysWork(p)' /\ (Control!Boots(p)' <=> Control!Boots(p))
    BY <2>1 DEF KeysInv, KeysWork, Defaults, Waiting, Mints, Live, Told, Ending, Minting, Control!Boots
  <2>4. KeysInv'
    BY <2>1, <2>3 DEF KeysInv, Defaults, Told
  <2> QED
    BY <1>1, <2>2, <2>4
<1>3. CASE Control!Next
  <2>1. PICK p \in Clerks : \/ Control!Show(p) \/ Control!Notice(p) \/ Control!BootBegins(p) \/ Control!Dies(p)
                            \/ Control!Submit(p) \/ Control!NoticeReads(p)
                            \/ Control!Lock(p) \/ Control!Check(p) \/ Control!Replace(p)
                            \/ Control!BootSchema(p) \/ Control!BootKeys(p) \/ Control!BootReveals(p)
    BY <1>3 DEF Control!Next, Control!Writes, Control!Boot
  <2> QED
    BY <1>1, <2>1, RestsKeep, PreparingKeeps, LockingKeeps, ReplaceKeeps, BootKeeps
<1> QED
  BY <1>2, <1>3

\* "Two Admin tabs cannot silently overwrite each other" (statefiles.py, write), and the
\* bootstrap mints one default key whose credential is told (keys.py): for any number of
\* processes, requests and crashes.
LEMMA ControlFilesStand == Control!Spec => Control!ChangesStand
<1> USE ServicesAssumption
<1>1. Control!Init => FilesInv /\ KeysInv
  BY ControlBegins
<1>2. FilesInv /\ KeysInv /\ [Control!Next]_(Control!vars) => FilesInv' /\ KeysInv'
  BY ControlSteps
<1>3. FilesInv /\ KeysInv /\ [Control!Next]_(Control!vars) =>
        [\A p \in Clerks : Control!Replace(p) => Control!NothingElse(p)]_(Control!vars)
  BY ControlSteps
<1>4. KeysInv => Control!OneDefault /\ Control!DefaultIsTold
  <2> SUFFICES ASSUME KeysInv PROVE Control!OneDefault /\ Control!DefaultIsTold
    OBVIOUS
  <2>1. Cardinality(Defaults) <= 1
    <3>1. CASE Defaults = {}
      BY <3>1, FS_EmptySet
    <3>2. CASE Defaults # {}
      <4>1. PICK e \in Defaults : \A d \in Defaults : d = e
        BY <3>2 DEF KeysInv
      <4>2. Defaults = {e}
        BY <4>1
      <4>3. Cardinality({e}) = 1
        BY FS_Singleton
      <4> QED
        BY <4>2, <4>3
    <3> QED
      BY <3>1, <3>2
  <2>2. \A S : Control!Cardinality(S) = Cardinality(S)
    BY DEF Control!Cardinality, Cardinality
  <2> QED
    BY <2>1, <2>2 DEF KeysInv, Control!OneDefault, Control!DefaultIsTold, Defaults
<1> QED
  BY <1>1, <1>2, <1>3, <1>4, PTL DEF Control!Spec, Control!ChangesStand

-----------------------------------------------------------------------------
(* Connections: the configuration of enrichment *)

Credentials == Keys \cup {Conn!NoKey, None}
Configs == [rev : Nat, id : [Conns -> 0 .. 2], version : [Conns -> Nat],
            ref : [of : Conns \cup {None}, id : 0 .. 2], enabled : BOOLEAN, lifecycle : BOOLEAN]
Views   == [pc : {"idle", "shown", "discover", "test"}, rev : Nat, id : [Conns -> 0 .. 2],
            of : Conns \cup {None}, version : Nat, key : Credentials]

Locks   == [pc : {"none", "assign", "read", "write", "save"}, by : Tabs \cup {None}, basis : Configs \cup {None},
            ref : [of : Conns \cup {None}, id : 0 .. 2], on : BOOLEAN,
            body : SUBSET {"mapped", "other"}, rev : Nat]

ConfigTypes ==
    /\ config \in Configs /\ tabs \in [Tabs -> Views] /\ slock \in Locks
    /\ credentials \in [Conns -> Credentials] /\ discovery \in [Conns -> Credentials]
    /\ tests \subseteq Conns \X Nat /\ baseline \in BOOLEAN
    /\ schema \in [rev : Nat, keys : SUBSET {"mapped", "other"}]

\* A version of a connection is a credential: what is tested at it, or asked with it, is
\* tested and asked with the credential it has, unless a crash left its change half done.
TestsAreOf ==
    \A c \in Conns, v \in Nat : <<c, v>> \in tests =>
        /\ v <= config.version[c]
        /\ v = config.version[c] /\ c \notin storn => <<c, credentials[c]>> \in answered
AskedWith(p) ==
    tabs[p].pc \in {"discover", "test"} =>
        /\ tabs[p].of \in Conns /\ tabs[p].version <= config.version[tabs[p].of]
        /\ tabs[p].version = config.version[tabs[p].of] /\ tabs[p].of \notin storn =>
              tabs[p].key = credentials[tabs[p].of]

\* Inside the lock: the configuration is the one that was read, and so is what the
\* assignment was admitted on; the properties are those of the revision that was read.
Assigning ==
    slock.pc = "assign" =>
        /\ slock.basis = config /\ slock.ref.of \in Conns /\ slock.ref = Conn!Ref(slock.ref.of)
        /\ slock.on => Conn!Tested(slock.ref.of)
SettingUp ==
    /\ slock.pc \in {"read", "write"} => slock.rev <= schema.rev
    /\ slock.pc = "read" /\ slock.rev = schema.rev => slock.body = schema.keys
    /\ slock.pc = "write" /\ ~slock.on /\ slock.rev = schema.rev => slock.body = schema.keys
    /\ slock.pc = "save" => "mapped" \in schema.keys

WorkInv ==
    /\ ConfigTypes /\ TestsAreOf /\ (\A p \in Tabs : AskedWith(p)) /\ Assigning /\ SettingUp
    /\ config.enabled => config.ref.of \in Conns
    /\ Conn!AtWork /\ Conn!Listed /\ Conn!Declared

\* A page at rest; the lock that nobody has.
LEMMA AtRest ==
  /\ Conn!Idle \in Views /\ Conn!Idle.pc = "idle"
  /\ Conn!Quiet \in [Tabs -> Views] /\ \A p \in Tabs : Conn!Quiet[p].pc = "idle"
  /\ Conn!Unlocked \in Locks /\ Conn!Unlocked.pc = "none"
<1>1. Conn!Idle \in Views /\ Conn!Idle.pc = "idle"
  BY DEF Conn!Idle, Conn!Absent, Conn!NoKey, Views, Credentials
<1>2. Conn!Unlocked \in Locks /\ Conn!Unlocked.pc = "none"
  BY DEF Conn!Unlocked, Conn!NoRef, Conn!Absent, Locks
<1> QED
  BY <1>1, <1>2 DEF Conn!Quiet

\* At the start no connection has been tested and none is at work.
LEMMA ConnBegins == Conn!Init => WorkInv
<1> SUFFICES ASSUME Conn!Init PROVE WorkInv
  OBVIOUS
<1>1. PICK had \in SUBSET Conns :
        config = [rev |-> 0, id |-> [c \in Conns |-> IF c \in had THEN Conn!ByHand ELSE Conn!Absent],
                  version |-> [c \in Conns |-> 0], ref |-> Conn!NoRef, enabled |-> FALSE, lifecycle |-> FALSE]
  BY DEF Conn!Init, Conn!Start
<1>2. /\ credentials = [c \in Conns |-> Conn!NoKey] /\ discovery = [c \in Conns |-> None]
      /\ tests = {} /\ answered = {} /\ storn = {} /\ baseline = FALSE
      /\ schema = [rev |-> 1, keys |-> {}] /\ slock = Conn!Unlocked
      /\ tabs = [p \in Tabs |-> [Conn!Idle EXCEPT !.pc = "idle"]]
  BY DEF Conn!Init, Conn!Start
<1>3. config \in Configs /\ config.enabled = FALSE /\ config.lifecycle = FALSE
  BY <1>1 DEF Configs, Conn!NoRef, Conn!Absent, Conn!ByHand
<1>4. \A p \in Tabs : tabs[p] \in Views /\ tabs[p].pc = "idle"
  BY <1>2 DEF Conn!Idle, Conn!Absent, Conn!NoKey, Views, Credentials
<1>5. tabs \in [Tabs -> Views]
  BY <1>2, <1>4
<1>6. ConfigTypes
  BY <1>2, <1>3, <1>5, AtRest DEF ConfigTypes, Credentials
<1> QED
  BY <1>2, <1>3, <1>4, <1>6, AtRest
  DEF WorkInv, TestsAreOf, AskedWith, Assigning, SettingUp, Conn!AtWork, Conn!Listed, Conn!Declared

\* What leaves the configuration, the credentials, the listings and the tests alone.
LEMMA WorkRests ==
  ASSUME WorkInv, UNCHANGED <<config, credentials, discovery, tests, answered, storn>>,
         baseline' \in BOOLEAN, baseline => baseline',
         tabs' \in [Tabs -> Views], slock' \in Locks,
         schema' \in [rev : Nat, keys : SUBSET {"mapped", "other"}],
         "mapped" \in schema.keys => "mapped" \in schema'.keys,
         \A p \in Tabs : AskedWith(p)', Assigning', SettingUp'
  PROVE  WorkInv' /\ Conn!Grows
<1>1. ConfigTypes' /\ TestsAreOf'
  BY DEF WorkInv, ConfigTypes, TestsAreOf
<1>2. Conn!AtWork' /\ Conn!Listed' /\ Conn!Declared'
  BY DEF WorkInv, Conn!AtWork, Conn!Listed, Conn!Declared
<1>3. Conn!Grows
  BY DEF WorkInv, ConfigTypes, Configs, Conn!Grows
<1> QED
  BY <1>1, <1>2, <1>3 DEF WorkInv

\* One tab goes on, the others ask what they asked.
LEMMA OneTab ==
  ASSUME WorkInv, NEW p \in Tabs, tabs' = [tabs EXCEPT ![p] = tabs'[p]], tabs'[p] \in Views, AskedWith(p)',
         UNCHANGED <<config, credentials, discovery, tests, baseline, schema, slock, answered, storn>>
  PROVE  WorkInv' /\ Conn!Grows
<1>1. /\ tabs' \in [Tabs -> Views] /\ \A q \in Tabs \ {p} : tabs'[q] = tabs[q]
  BY DEF WorkInv, ConfigTypes
<1>2. \A q \in Tabs : AskedWith(q)'
  BY <1>1 DEF WorkInv, AskedWith
<1>3. Assigning' /\ SettingUp'
  BY DEF WorkInv, Assigning, SettingUp, Conn!Ref, Conn!Tested
<1>4. baseline' \in BOOLEAN /\ slock' \in Locks /\ schema' \in [rev : Nat, keys : SUBSET {"mapped", "other"}]
  BY DEF WorkInv, ConfigTypes
<1> QED
  BY <1>1, <1>2, <1>3, <1>4, WorkRests

\* A page is shown, dropped, or asks the provider with what the connection is now.
LEMMA PagesKeepWork ==
  ASSUME WorkInv, NEW p \in Tabs,
         Conn!Show(p) \/ Conn!Fails(p) \/ Conn!DiscoverBegins(p) \/ Conn!TestBegins(p)
  PROVE  WorkInv' /\ Conn!Grows
<1>0. /\ tabs \in [Tabs -> Views] /\ tabs[p] \in Views /\ config.rev \in Nat /\ config.id \in [Conns -> 0 .. 2]
      /\ config.version \in [Conns -> Nat] /\ credentials \in [Conns -> Credentials]
  BY DEF WorkInv, ConfigTypes, Configs
<1>1. CASE Conn!Show(p)
  <2>1. /\ UNCHANGED <<config, credentials, discovery, tests, baseline, schema, slock, answered, storn>>
        /\ tabs' = [tabs EXCEPT ![p] = [Conn!Idle EXCEPT !.pc = "shown", !.rev = config.rev, !.id = config.id]]
    BY <1>1 DEF Conn!Show, Conn!Go
  <2>2. PICK r \in Nat, i \in [Conns -> 0 .. 2] : r = config.rev /\ i = config.id
    BY <1>0
  <2> DEFINE w == [Conn!Idle EXCEPT !.pc = "shown", !.rev = r, !.id = i]
  <2>3. w \in Views /\ w.pc = "shown"
    BY AtRest DEF Views
  <2> HIDE DEF w
  <2>x. tabs' = [tabs EXCEPT ![p] = w] /\ tabs'[p] = w
    BY <1>0, <2>1, <2>2 DEF w
  <2>4. tabs' = [tabs EXCEPT ![p] = tabs'[p]]
    BY <2>x
  <2> QED
    BY <2>1, <2>3, <2>4, <2>x, OneTab DEF AskedWith
<1>2. CASE Conn!Fails(p)
  <2>1. /\ UNCHANGED <<config, credentials, discovery, tests, baseline, schema, slock, answered, storn>>
        /\ tabs' = [tabs EXCEPT ![p] = Conn!Idle]
    BY <1>2 DEF Conn!Fails, Conn!Go
  <2>2. tabs'[p] = Conn!Idle /\ tabs' = [tabs EXCEPT ![p] = tabs'[p]]
    BY <1>0, <2>1
  <2>3. tabs'[p] \in Views /\ tabs'[p].pc = "idle"
    BY <2>2, AtRest
  <2> QED
    BY <2>1, <2>2, <2>3, OneTab DEF AskedWith
<1>3. CASE Conn!DiscoverBegins(p) \/ Conn!TestBegins(p)
  <2>1. PICK c \in Conns, a \in {"discover", "test"} : Conn!Asks(p, c, a)
    BY <1>3 DEF Conn!DiscoverBegins, Conn!TestBegins
  <2>2. /\ UNCHANGED <<config, credentials, discovery, tests, baseline, schema, slock, answered, storn>>
        /\ tabs' = [tabs EXCEPT ![p] = [tabs[p] EXCEPT !.pc = a, !.of = c, !.version = config.version[c],
                                                       !.key = credentials[c]]]
    BY <2>1 DEF Conn!Asks, Conn!Go
  <2>3. PICK v \in Nat, k \in Credentials : v = config.version[c] /\ k = credentials[c]
    BY <1>0
  <2>4. tabs'[p] = [tabs[p] EXCEPT !.pc = a, !.of = c, !.version = v, !.key = k]
    BY <1>0, <2>2, <2>3
  <2>5. tabs'[p] \in Views /\ tabs'[p].of = c /\ tabs'[p].version = v /\ tabs'[p].key = k
    BY <1>0, <2>4 DEF Views
  <2>6. tabs' = [tabs EXCEPT ![p] = tabs'[p]]
    BY <2>2, <2>3, <2>4
  <2>7. AskedWith(p)'
    BY <2>2, <2>3, <2>5 DEF AskedWith
  <2> QED
    BY <2>2, <2>5, <2>6, <2>7, OneTab
<1> QED
  BY <1>1, <1>2, <1>3

\* A connection's change: its credential, its listing and its version, in this order, and
\* whoever is at work with it is not any longer; what a crash leaves out is half done.
LEMMA SavingKeepsWork ==
  ASSUME WorkInv, NEW p \in Tabs, Conn!SaveConnection(p)
  PROVE  WorkInv' /\ Conn!Grows
<1>0. /\ ConfigTypes /\ config \in Configs /\ tabs \in [Tabs -> Views] /\ TestsAreOf
      /\ config.rev \in Nat /\ config.id \in [Conns -> 0 .. 2] /\ config.version \in [Conns -> Nat]
      /\ credentials \in [Conns -> Credentials] /\ discovery \in [Conns -> Credentials]
  BY DEF WorkInv, ConfigTypes, Configs
<1>1. PICK c \in Conns, k \in Keys \cup {None}, written \in {1, 2, 3} :
        /\ Conn!Submits(p) /\ (config.id[c] = Conn!Absent => written = 3)
        /\ credentials' = IF k = None THEN credentials ELSE [credentials EXCEPT ![c] = k]
        /\ discovery' = IF written >= 2 THEN [discovery EXCEPT ![c] = None] ELSE discovery
        /\ IF written = 3
           THEN /\ config' = [config EXCEPT !.rev = @ + 1, !.id[c] = IF @ = Conn!Absent THEN Conn!Generated ELSE @,
                                !.version[c] = Conn!Version(c), !.enabled = @ /\ config.ref # Conn!Ref(c)]
                /\ storn' = storn \ {c} /\ Conn!Go(p, Conn!Idle) /\ UNCHANGED sleave
           ELSE config' = config /\ storn' = (IF k = None THEN storn ELSE storn \cup {c}) /\ tabs' = Conn!Quiet /\ Conn!May("faults")
        /\ UNCHANGED <<tests, baseline, schema, slock, answered>>
  BY DEF Conn!SaveConnection
<1>2. credentials' \in [Conns -> Credentials] /\ \A d \in Conns \ {c} : credentials'[d] = credentials[d]
  BY <1>0, <1>1 DEF Credentials
<1>3. discovery' \in [Conns -> Credentials] /\ \A d \in Conns \ {c} : discovery'[d] = discovery[d]
  BY <1>0, <1>1 DEF Credentials
<1>4. Assigning' /\ SettingUp'
  BY <1>1 DEF Assigning, SettingUp, Conn!Submits, Conn!Free
<1>5. CASE written = 3
  <2> DEFINE i == [config.id EXCEPT ![c] = IF config.id[c] = Conn!Absent THEN Conn!Generated ELSE config.id[c]]
             v == [config.version EXCEPT ![c] = config.version[c] + 1]
             e == config.enabled /\ config.ref # Conn!Ref(c)
  <2>1. config' = [config EXCEPT !.rev = config.rev + 1, !.id = i, !.version = v, !.enabled = e]
    BY <1>1, <1>5 DEF Conn!Version, Conn!Bumped
  <2>2. i \in [Conns -> 0 .. 2] /\ v \in [Conns -> Nat] /\ e \in BOOLEAN
    BY <1>0 DEF Conn!Absent, Conn!Generated
  <2> HIDE DEF i, v, e
  <2>3. config' \in Configs /\ config'.id = i /\ config'.version = v /\ (config'.enabled <=> e)
        /\ config'.ref = config.ref /\ config'.lifecycle = config.lifecycle
    <3>1. PICK r \in Nat, x \in [Conns -> 0 .. 2], y \in [Conns -> Nat], z \in BOOLEAN :
            r = config.rev + 1 /\ x = i /\ y = v /\ z = e
      BY <1>0, <2>2
    <3>2. config' = [config EXCEPT !.rev = r, !.id = x, !.version = y, !.enabled = z]
      BY <2>1, <3>1
    <3>3. config' \in Configs
      BY <1>0, <3>2 DEF Configs
    <3>4. config'.id = x /\ config'.version = y /\ config'.ref = config.ref
      BY <1>0, <3>2 DEF Configs
    <3>5. config'.enabled = z /\ config'.lifecycle = config.lifecycle
      BY <1>0, <3>2 DEF Configs
    <3> QED
      BY <3>1, <3>3, <3>4, <3>5
  <2> USE DEF i, v, e
  <2>4. /\ tabs' \in [Tabs -> Views] /\ tabs'[p].pc = "idle" /\ \A q \in Tabs \ {p} : tabs'[q] = tabs[q]
        /\ storn' = storn \ {c} /\ discovery'[c] = None
    BY <1>0, <1>1, <1>5, AtRest DEF Conn!Go
  <2>5. ConfigTypes'
    BY <1>0, <1>1, <1>2, <1>3, <2>3, <2>4 DEF ConfigTypes
  <2>6. TestsAreOf'
    <3> SUFFICES ASSUME NEW d \in Conns, NEW n \in Nat, <<d, n>> \in tests
                 PROVE  /\ n <= config'.version[d]
                        /\ n = config'.version[d] /\ d \notin storn' => <<d, credentials'[d]>> \in answered
      BY <1>1 DEF TestsAreOf
    <3>1. /\ n <= config.version[d] /\ config.version[d] \in Nat
          /\ n = config.version[d] /\ d \notin storn => <<d, credentials[d]>> \in answered
      BY <1>0 DEF TestsAreOf
    <3>2. CASE d = c
      <4>1. config'.version[d] = config.version[d] + 1
        BY <1>0, <2>3, <3>2
      <4> QED
        BY <3>1, <4>1
    <3>3. CASE d # c
      <4>1. config'.version[d] = config.version[d] /\ credentials'[d] = credentials[d] /\ (d \in storn' <=> d \in storn)
        BY <1>0, <1>2, <2>3, <2>4, <3>3
      <4> QED
        BY <3>1, <4>1
    <3> QED
      BY <3>2, <3>3
  <2>7. ASSUME NEW q \in Tabs PROVE AskedWith(q)'
    <3>1. CASE q = p
      BY <2>4, <3>1 DEF AskedWith
    <3>2. CASE q # p /\ tabs[q].pc \in {"discover", "test"}
      <4>1. /\ tabs'[q] = tabs[q] /\ tabs[q].of \in Conns /\ tabs[q].version <= config.version[tabs[q].of]
            /\ tabs[q].version \in Nat /\ AskedWith(q)
        BY <1>0, <2>4, <3>2 DEF WorkInv, AskedWith, Views
      <4>2. CASE tabs[q].of = c
        BY <1>0, <2>3, <4>1, <4>2 DEF AskedWith
      <4>3. CASE tabs[q].of # c
        BY <1>0, <1>2, <2>3, <2>4, <3>2, <4>1, <4>3 DEF AskedWith
      <4> QED
        BY <4>2, <4>3
    <3>3. CASE q # p /\ tabs[q].pc \notin {"discover", "test"}
      BY <2>4, <3>3 DEF AskedWith
    <3> QED
      BY <3>1, <3>2, <3>3
  <2>8. config'.enabled => /\ config.enabled /\ config.ref.of \in Conns /\ config.ref.of # c
                           /\ config.ref.id = config.id[config.ref.of] /\ baseline
    <3>1. config.enabled => config.ref.of \in Conns /\ config.ref.id = config.id[config.ref.of] /\ baseline
      BY DEF WorkInv, Conn!AtWork
    <3>2. config.ref = [of |-> config.ref.of, id |-> config.ref.id]
      BY <1>0 DEF Configs
    <3> QED
      BY <2>3, <3>1, <3>2 DEF Conn!Ref
  <2>9. Conn!AtWork'
    BY <1>0, <1>1, <1>2, <2>3, <2>4, <2>8 DEF WorkInv, Conn!AtWork
  <2>10. Conn!Listed'
    BY <1>2, <1>3, <2>4 DEF WorkInv, Conn!Listed
  <2>11. Conn!Declared'
    BY <1>1, <2>3 DEF WorkInv, Conn!Declared
  <2>12. Conn!Grows
    BY <1>0, <2>3 DEF Conn!Grows, Conn!Absent, Conn!Generated
  <2> QED
    BY <1>4, <2>3, <2>5, <2>6, <2>7, <2>8, <2>9, <2>10, <2>11, <2>12 DEF WorkInv
<1>6. CASE written # 3
  <2>1. /\ config' = config /\ tabs' = Conn!Quiet /\ storn \subseteq storn'
        /\ \A d \in Conns : d \notin storn' => credentials'[d] = credentials[d]
        /\ \A d \in Conns : discovery'[d] \in {None, discovery[d]}
    BY <1>0, <1>1, <1>6
  <2>2. ConfigTypes' /\ \A q \in Tabs : AskedWith(q)'
    BY <1>0, <1>1, <1>2, <1>3, <2>1, AtRest DEF ConfigTypes, AskedWith
  <2>3. TestsAreOf'
    BY <1>0, <1>1, <2>1 DEF TestsAreOf
  <2>4. Conn!AtWork' /\ Conn!Declared'
    BY <1>1, <2>1 DEF WorkInv, Conn!AtWork, Conn!Declared
  <2>5. Conn!Listed'
    BY <2>1 DEF WorkInv, Conn!Listed
  <2>6. Conn!Grows
    BY <1>0, <2>1 DEF Conn!Grows
  <2> QED
    BY <1>4, <2>1, <2>2, <2>3, <2>4, <2>5, <2>6 DEF WorkInv
<1> QED
  BY <1>5, <1>6

\* A generated identity, which the assignment follows.
LEMMA ConvertingKeepsWork ==
  ASSUME WorkInv, NEW p \in Tabs, Conn!Convert(p)
  PROVE  WorkInv' /\ Conn!Grows
<1>0. /\ ConfigTypes /\ config \in Configs /\ tabs \in [Tabs -> Views]
      /\ config.rev \in Nat /\ config.id \in [Conns -> 0 .. 2] /\ config.version \in [Conns -> Nat]
      /\ config.ref \in [of : Conns \cup {None}, id : 0 .. 2]
  BY DEF WorkInv, ConfigTypes, Configs
<1>1. PICK c \in Conns :
        /\ slock.pc = "none" /\ config.id[c] = Conn!ByHand
        /\ config' = [config EXCEPT !.rev = @ + 1, !.id[c] = Conn!Generated,
                        !.ref = IF @ = Conn!Ref(c) THEN [of |-> c, id |-> Conn!Generated] ELSE @]
        /\ tabs' = [tabs EXCEPT ![p] = Conn!Idle]
        /\ UNCHANGED <<credentials, discovery, tests, baseline, schema, slock, answered, storn, sleave>>
  BY DEF Conn!Convert, Conn!Submits, Conn!Free, Conn!Go
<1> DEFINE i == [config.id EXCEPT ![c] = Conn!Generated]
           f == IF config.ref = Conn!Ref(c) THEN [of |-> c, id |-> Conn!Generated] ELSE config.ref
<1>2. config' = [config EXCEPT !.rev = config.rev + 1, !.id = i, !.ref = f]
  BY <1>1
<1>3. i \in [Conns -> 0 .. 2] /\ f \in [of : Conns \cup {None}, id : 0 .. 2]
  BY <1>0 DEF Conn!Generated
<1> HIDE DEF i, f
<1>4. config' \in Configs /\ config'.id = i /\ config'.version = config.version /\ config'.enabled = config.enabled
      /\ config'.ref = f /\ config'.lifecycle = config.lifecycle
  <2>1. PICK r \in Nat, x \in [Conns -> 0 .. 2], y \in [of : Conns \cup {None}, id : 0 .. 2] :
          r = config.rev + 1 /\ x = i /\ y = f
    BY <1>0, <1>3
  <2>2. config' = [config EXCEPT !.rev = r, !.id = x, !.ref = y]
    BY <1>2, <2>1
  <2>3. config' \in Configs
    BY <1>0, <2>2 DEF Configs
  <2>4. config'.id = x /\ config'.version = config.version /\ config'.ref = y
    BY <1>0, <2>2 DEF Configs
  <2>5. config'.enabled = config.enabled /\ config'.lifecycle = config.lifecycle
    BY <1>0, <2>2 DEF Configs
  <2> QED
    BY <2>1, <2>3, <2>4, <2>5
<1>5. /\ tabs' \in [Tabs -> Views] /\ \A q \in Tabs : AskedWith(q)'
  <2>1. /\ tabs' \in [Tabs -> Views] /\ tabs'[p].pc = "idle" /\ \A q \in Tabs \ {p} : tabs'[q] = tabs[q]
    BY <1>0, <1>1, AtRest
  <2> QED
    BY <1>1, <1>4, <2>1 DEF WorkInv, AskedWith
<1>6. ConfigTypes' /\ TestsAreOf' /\ Assigning' /\ SettingUp'
  BY <1>0, <1>1, <1>4, <1>5 DEF WorkInv, ConfigTypes, TestsAreOf, Assigning, SettingUp
<1>7. config.enabled => /\ f.of = config.ref.of /\ f.of \in Conns /\ f.id = i[f.of]
  <2>1. config.enabled => config.ref.of \in Conns /\ config.ref.id = config.id[config.ref.of]
    BY DEF WorkInv, Conn!AtWork
  <2>2. config.ref = [of |-> config.ref.of, id |-> config.ref.id]
    BY <1>0
  <2>3. CASE config.ref.of = c
    BY <1>0, <2>1, <2>2, <2>3 DEF i, f, Conn!Ref
  <2>4. CASE config.ref.of # c
    BY <1>0, <2>1, <2>2, <2>4 DEF i, f, Conn!Ref
  <2> QED
    BY <2>3, <2>4
<1>8. Conn!AtWork' /\ Conn!Listed' /\ Conn!Declared'
  <2>1. Conn!AtWork'
    <3>1. config.enabled => /\ baseline
                            /\ config.ref.of \in storn \/ <<config.ref.of, credentials[config.ref.of]>> \in answered
      BY DEF WorkInv, Conn!AtWork
    <3>2. config'.enabled => /\ config'.ref.of = config.ref.of /\ config'.ref.id = config'.id[config'.ref.of]
                             /\ config.enabled
      BY <1>4, <1>7
    <3> QED
      BY <1>1, <3>1, <3>2 DEF Conn!AtWork
  <2>2. Conn!Listed'
    BY <1>1 DEF WorkInv, Conn!Listed
  <2>3. Conn!Declared'
    BY <1>1, <1>4 DEF WorkInv, Conn!Declared
  <2> QED
    BY <2>1, <2>2, <2>3
<1>9. Conn!Grows
  BY <1>0, <1>1, <1>4 DEF i, Conn!Grows, Conn!ByHand, Conn!Generated
<1> QED
  BY <1>4, <1>5, <1>6, <1>7, <1>8, <1>9 DEF WorkInv

\* What the provider answered is of the version and the credential it was asked with.
LEMMA AnswersKeepWork ==
  ASSUME WorkInv, NEW p \in Tabs, Conn!DiscoverEnds(p) \/ Conn!TestEnds(p)
  PROVE  WorkInv' /\ Conn!Grows
<1>0. /\ ConfigTypes /\ config \in Configs /\ tabs \in [Tabs -> Views] /\ tabs[p] \in Views /\ AskedWith(p)
      /\ config.version \in [Conns -> Nat] /\ config.id \in [Conns -> 0 .. 2]
      /\ discovery \in [Conns -> Credentials] /\ tests \subseteq Conns \X Nat /\ TestsAreOf
  BY DEF WorkInv, ConfigTypes, Configs
<1>1. /\ UNCHANGED <<config, credentials, baseline, schema, slock, storn>> /\ slock.pc = "none"
      /\ tabs' = [tabs EXCEPT ![p] = Conn!Idle] /\ tabs[p].pc \in {"discover", "test"}
  BY DEF Conn!DiscoverEnds, Conn!TestEnds, Conn!Free, Conn!Go, Conn!At
<1> DEFINE c == tabs[p].of
<1>2. /\ c \in Conns /\ tabs[p].version \in Nat /\ tabs[p].version <= config.version[c] /\ tabs[p].key \in Credentials
      /\ tabs[p].version = config.version[c] /\ c \notin storn => tabs[p].key = credentials[c]
  BY <1>0, <1>1 DEF AskedWith, Views
<1>3. tabs' \in [Tabs -> Views] /\ \A q \in Tabs : AskedWith(q)'
  <2>1. /\ tabs' \in [Tabs -> Views] /\ tabs'[p].pc = "idle" /\ \A q \in Tabs \ {p} : tabs'[q] = tabs[q]
    BY <1>0, <1>1, AtRest
  <2> QED
    BY <1>1, <2>1 DEF WorkInv, AskedWith
<1>4. Assigning' /\ SettingUp' /\ Conn!Declared'
  BY <1>1 DEF WorkInv, Assigning, SettingUp, Conn!Declared
<1>5. Conn!Grows
  BY <1>0, <1>1 DEF Conn!Grows
<1>6. CASE Conn!DiscoverEnds(p)
  <2>1. /\ config.version[c] = tabs[p].version /\ UNCHANGED <<tests, answered>>
        /\ discovery' = [discovery EXCEPT ![c] = tabs[p].key]
    BY <1>6 DEF Conn!DiscoverEnds, Conn!StillSo
  <2>2. Conn!Listed'
    BY <1>0, <1>1, <1>2, <2>1 DEF WorkInv, Conn!Listed
  <2>3. ConfigTypes' /\ TestsAreOf'
    BY <1>0, <1>1, <1>2, <1>3, <2>1 DEF ConfigTypes, TestsAreOf
  <2>4. Conn!AtWork'
    BY <1>1, <2>1 DEF WorkInv, Conn!AtWork
  <2> QED
    BY <1>1, <1>3, <1>4, <1>5, <2>2, <2>3, <2>4 DEF WorkInv
<1>7. CASE Conn!TestEnds(p)
  <2>1. /\ tests' = tests \cup {<<c, tabs[p].version>>} /\ UNCHANGED discovery
        /\ answered' = answered \cup {<<c, tabs[p].key>>}
    BY <1>7 DEF Conn!TestEnds
  <2>2. Conn!Listed'
    BY <1>1, <2>1 DEF WorkInv, Conn!Listed
  <2>3. ConfigTypes'
    BY <1>0, <1>1, <1>2, <1>3, <2>1 DEF ConfigTypes
  <2>4. TestsAreOf'
    BY <1>0, <1>1, <1>2, <2>1 DEF TestsAreOf
  <2>5. Conn!AtWork'
    BY <1>1, <2>1 DEF WorkInv, Conn!AtWork
  <2> QED
    BY <1>1, <1>3, <1>4, <1>5, <2>2, <2>3, <2>4, <2>5 DEF WorkInv
<1> QED
  BY <1>6, <1>7

\* The assignment is saved as it was admitted: nobody has changed the configuration
\* between, although the section of the lock waits.
LEMMA AssigningKeepsWork ==
  ASSUME WorkInv, (\E p \in Tabs : Conn!AssignBegins(p)) \/ Conn!AssignEnds
  PROVE  WorkInv' /\ Conn!Grows
<1>0. /\ ConfigTypes /\ config \in Configs /\ tabs \in [Tabs -> Views] /\ slock \in Locks /\ baseline \in BOOLEAN
      /\ config.id \in [Conns -> 0 .. 2] /\ config.version \in [Conns -> Nat]
      /\ schema \in [rev : Nat, keys : SUBSET {"mapped", "other"}]
  BY DEF WorkInv, ConfigTypes, Configs
<1>1. ASSUME NEW p \in Tabs, Conn!AssignBegins(p) PROVE WorkInv' /\ Conn!Grows
  <2>1. PICK c \in Conns, on \in BOOLEAN :
          /\ on => Conn!Tested(c)
          /\ slock' = [Conn!Unlocked EXCEPT !.pc = "assign", !.by = p, !.basis = config, !.ref = Conn!Ref(c), !.on = on]
          /\ UNCHANGED <<config, credentials, discovery, tests, baseline, schema, tabs, answered, storn>>
    BY <1>1 DEF Conn!AssignBegins
  <2>2. PICK b \in Configs, r \in [of : Conns \cup {None}, id : 0 .. 2] :
          b = config /\ r = Conn!Ref(c) /\ r.of = c
    <3>1. Conn!Ref(c) \in [of : Conns \cup {None}, id : 0 .. 2] /\ Conn!Ref(c).of = c
      BY <1>0 DEF Conn!Ref
    <3> QED
      BY <1>0, <3>1
  <2>3. slock' = [Conn!Unlocked EXCEPT !.pc = "assign", !.by = p, !.basis = b, !.ref = r, !.on = on]
    BY <2>1, <2>2
  <2>4. slock' \in Locks
    BY <2>3, AtRest DEF Locks
  <2>5. slock'.pc = "assign" /\ slock'.basis = b /\ slock'.ref = r /\ slock'.on = on
    BY <2>3, AtRest DEF Locks
  <2>6. Assigning'
    BY <2>1, <2>2, <2>5 DEF Assigning, Conn!Ref, Conn!Tested
  <2>7. SettingUp' /\ \A q \in Tabs : AskedWith(q)'
    BY <2>1, <2>5 DEF WorkInv, SettingUp, AskedWith
  <2> QED
    BY <1>0, <2>1, <2>4, <2>6, <2>7, WorkRests
<1>2. CASE Conn!AssignEnds
  <2>1. /\ slock.pc = "assign" /\ slock.basis = config /\ slock.ref.of \in Conns
        /\ slock.ref = Conn!Ref(slock.ref.of) /\ (slock.on => Conn!Tested(slock.ref.of))
    BY <1>2 DEF WorkInv, Assigning, Conn!AssignEnds
  <2>2. PICK r \in Nat, f \in [of : Conns \cup {None}, id : 0 .. 2], on \in BOOLEAN :
          r = config.rev + 1 /\ f = slock.ref /\ on = slock.on
    BY <1>0 DEF Configs, Locks
  <2>3. /\ config' = [config EXCEPT !.rev = r, !.ref = f, !.enabled = on]
        /\ baseline' = (baseline \/ on) /\ slock' = Conn!Unlocked /\ tabs' = [tabs EXCEPT ![slock.by] = Conn!Idle]
        /\ UNCHANGED <<credentials, discovery, tests, schema, answered, storn>>
    BY <1>2, <2>1, <2>2 DEF Conn!AssignEnds, Conn!Baselined, Conn!Go
  <2>4. config' \in Configs
    BY <1>0, <2>3 DEF Configs
  <2>5. config'.id = config.id /\ config'.version = config.version /\ config'.ref = f
    BY <1>0, <2>3 DEF Configs
  <2>6. config'.enabled = on /\ config'.lifecycle = config.lifecycle
    BY <1>0, <2>3 DEF Configs
  <2>7. tabs' \in [Tabs -> Views] /\ \A q \in Tabs : tabs'[q] = tabs[q] \/ tabs'[q].pc = "idle"
    BY <1>0, <2>3, AtRest
  <2>8. \A q \in Tabs : AskedWith(q)'
    BY <2>3, <2>5, <2>7 DEF WorkInv, AskedWith
  <2>9. ConfigTypes' /\ TestsAreOf' /\ Assigning' /\ SettingUp'
    BY <1>0, <2>3, <2>4, <2>5, <2>7, AtRest DEF WorkInv, ConfigTypes, TestsAreOf, Assigning, SettingUp
  <2>10. on => /\ f.of \in Conns /\ f.id = config.id[f.of] /\ baseline'
               /\ f.of \in storn \/ <<f.of, credentials[f.of]>> \in answered
    <3>1. on => <<f.of, config.version[f.of]>> \in tests
      BY <2>1, <2>2 DEF Conn!Tested
    <3>2. on /\ f.of \notin storn => <<f.of, credentials[f.of]>> \in answered
      BY <1>0, <2>1, <2>2, <3>1 DEF WorkInv, TestsAreOf
    <3>3. f.of \in Conns /\ f.id = config.id[f.of]
      BY <2>1, <2>2 DEF Conn!Ref
    <3> QED
      BY <2>3, <3>2, <3>3
  <2>11. Conn!AtWork'
    BY <2>3, <2>5, <2>6, <2>10 DEF Conn!AtWork
  <2>12. Conn!Listed' /\ Conn!Declared'
    BY <2>3, <2>6 DEF WorkInv, Conn!Listed, Conn!Declared
  <2>13. Conn!Grows
    BY <1>0, <2>5 DEF Conn!Grows
  <2> QED
    BY <2>5, <2>6, <2>8, <2>9, <2>10, <2>11, <2>12, <2>13 DEF WorkInv
<1> QED
  BY <1>1, <1>2

\* A set-up writes the properties it has read, at the revision it has looked at.
LEMMA SettingKeepsWork ==
  ASSUME WorkInv, (\E p \in Tabs : Conn!SetupReads(p)) \/ Conn!Setup
  PROVE  WorkInv' /\ Conn!Grows /\ Conn!Kept
<1>0. /\ ConfigTypes /\ config \in Configs /\ tabs \in [Tabs -> Views] /\ slock \in Locks /\ baseline \in BOOLEAN
      /\ config.id \in [Conns -> 0 .. 2] /\ config.version \in [Conns -> Nat]
      /\ schema \in [rev : Nat, keys : SUBSET {"mapped", "other"}] /\ schema.rev \in Nat
      /\ schema.keys \in SUBSET {"mapped", "other"} /\ SettingUp
      /\ slock.body \in SUBSET {"mapped", "other"} /\ slock.rev \in Nat
  BY DEF WorkInv, ConfigTypes, Configs, Locks
<1>k. Conn!Kept
  <2> SUFFICES ASSUME Conn!SetupWrites, ~slock.on PROVE schema.keys \subseteq schema'.keys
    BY DEF Conn!Kept
  <2>1. CASE slock.rev = schema.rev
    BY <1>0, <2>1 DEF Conn!SetupWrites, SettingUp
  <2>2. CASE slock.rev # schema.rev
    BY <2>2 DEF Conn!SetupWrites
  <2> QED
    BY <2>1, <2>2
<1>1. ASSUME NEW p \in Tabs, Conn!SetupReads(p) PROVE WorkInv' /\ Conn!Grows
  <2>1. PICK b \in SUBSET {"mapped", "other"}, r \in Nat : b = schema.keys /\ r = schema.rev
    BY <1>0
  <2>2. /\ slock' = [Conn!Unlocked EXCEPT !.pc = "read", !.by = p, !.body = b, !.rev = r]
        /\ UNCHANGED <<config, credentials, discovery, tests, baseline, schema, tabs, answered, storn>>
    BY <1>1, <2>1 DEF Conn!SetupReads
  <2>3. slock' \in Locks /\ slock'.pc = "read" /\ slock'.body = b /\ slock'.rev = r
    BY <2>2, AtRest DEF Locks
  <2>4. Assigning' /\ SettingUp' /\ \A q \in Tabs : AskedWith(q)'
    BY <2>1, <2>2, <2>3 DEF WorkInv, Assigning, SettingUp, AskedWith
  <2> QED
    BY <1>0, <2>2, <2>3, <2>4, WorkRests
<1>2. CASE Conn!SetupLooks
  <2>1. PICK on \in BOOLEAN, r \in Nat : on = (slock.rev # schema.rev) /\ r = schema.rev
    BY <1>0
  <2>2. /\ slock' = [slock EXCEPT !.pc = "write", !.on = on, !.rev = r] /\ slock.pc = "read"
        /\ UNCHANGED <<config, credentials, discovery, tests, baseline, schema, tabs, answered, storn>>
    BY <1>2, <2>1 DEF Conn!SetupLooks
  <2>3. slock' \in Locks /\ slock'.pc = "write" /\ slock'.body = slock.body /\ slock'.rev = r
    BY <1>0, <2>2 DEF Locks
  <2>4. slock'.on = on
    BY <1>0, <2>2 DEF Locks
  <2>5. SettingUp'
    <3>1. ~on => slock.body = schema.keys
      BY <1>0, <2>1, <2>2 DEF SettingUp
    <3> QED
      BY <1>0, <2>1, <2>2, <2>3, <2>4, <3>1 DEF SettingUp
  <2>6. Assigning' /\ \A q \in Tabs : AskedWith(q)'
    BY <2>2, <2>3 DEF WorkInv, Assigning, AskedWith
  <2> QED
    BY <1>0, <1>k, <2>2, <2>3, <2>5, <2>6, WorkRests
<1>3. CASE Conn!SetupWrites
  <2>0. slock.pc = "write" /\ UNCHANGED <<config, credentials, discovery, tests, baseline, answered, storn>>
    BY <1>3 DEF Conn!SetupWrites
  <2>1. CASE slock.rev = schema.rev
    <3>1. /\ schema' = [rev |-> schema.rev + 1, keys |-> slock.body \cup {"mapped"}]
          /\ slock' = [slock EXCEPT !.pc = "save"] /\ UNCHANGED tabs
      BY <1>3, <2>1 DEF Conn!SetupWrites
    <3>2. slock' \in Locks /\ slock'.pc = "save"
      BY <1>0, <3>1 DEF Locks
    <3>3. schema' \in [rev : Nat, keys : SUBSET {"mapped", "other"}] /\ "mapped" \in schema'.keys
      BY <1>0, <3>1
    <3>4. Assigning' /\ SettingUp' /\ \A q \in Tabs : AskedWith(q)'
      BY <2>0, <3>1, <3>2, <3>3 DEF WorkInv, Assigning, SettingUp, AskedWith
    <3> QED
      BY <1>0, <1>k, <2>0, <3>1, <3>2, <3>3, <3>4, WorkRests
  <2>2. CASE slock.rev # schema.rev
    <3>1. slock' = Conn!Unlocked /\ tabs' = [tabs EXCEPT ![slock.by] = Conn!Idle] /\ UNCHANGED schema
      BY <1>3, <2>2 DEF Conn!SetupWrites, Conn!Go
    <3>2. tabs' \in [Tabs -> Views] /\ \A q \in Tabs : tabs'[q] = tabs[q] \/ tabs'[q].pc = "idle"
      BY <1>0, <3>1, AtRest
    <3>3. Assigning' /\ SettingUp' /\ \A q \in Tabs : AskedWith(q)'
      BY <2>0, <3>1, <3>2, AtRest DEF WorkInv, Assigning, SettingUp, AskedWith
    <3> QED
      BY <1>0, <1>k, <2>0, <3>1, <3>2, <3>3, AtRest, WorkRests
  <2> QED
    BY <2>1, <2>2
<1>4. CASE Conn!SetupSaves
  <2>1. PICK r \in Nat : r = config.rev + 1
    BY <1>0 DEF Configs
  <2>2. /\ config' = [config EXCEPT !.rev = r, !.lifecycle = TRUE] /\ slock.pc = "save"
        /\ slock' = Conn!Unlocked /\ tabs' = [tabs EXCEPT ![slock.by] = Conn!Idle]
        /\ UNCHANGED <<credentials, discovery, tests, baseline, schema, answered, storn>>
    BY <1>4, <2>1 DEF Conn!SetupSaves, Conn!Go
  <2>3. config' \in Configs
    BY <1>0, <2>2 DEF Configs
  <2>4. config'.id = config.id /\ config'.version = config.version /\ config'.ref = config.ref
        /\ config'.enabled = config.enabled
    BY <1>0, <2>2 DEF Configs
  <2>5. tabs' \in [Tabs -> Views] /\ \A q \in Tabs : tabs'[q] = tabs[q] \/ tabs'[q].pc = "idle"
    BY <1>0, <2>2, AtRest
  <2>6. ConfigTypes' /\ TestsAreOf'
    BY <1>0, <2>2, <2>3, <2>4, <2>5, AtRest DEF WorkInv, ConfigTypes, TestsAreOf
  <2>7. Assigning' /\ SettingUp' /\ \A q \in Tabs : AskedWith(q)'
    BY <2>2, <2>4, <2>5, AtRest DEF WorkInv, Assigning, SettingUp, AskedWith
  <2>8. Conn!AtWork' /\ Conn!Listed' /\ Conn!Declared'
    <3>1. "mapped" \in schema'.keys
      BY <1>0, <2>2 DEF SettingUp
    <3> QED
      BY <2>2, <2>4, <3>1 DEF WorkInv, Conn!AtWork, Conn!Listed, Conn!Declared
  <2>9. Conn!Grows /\ (config'.enabled => config'.ref.of \in Conns)
    BY <1>0, <2>4 DEF Conn!Grows, WorkInv
  <2> QED
    BY <1>k, <2>6, <2>7, <2>8, <2>9 DEF WorkInv
<1> QED
  BY <1>k, <1>1, <1>2, <1>3, <1>4 DEF Conn!Setup

\* Every step keeps what is at work tested, and undoes nobody's change.
LEMMA ConnSteps ==
  ASSUME WorkInv, [Conn!Next]_(Conn!vars)
  PROVE  WorkInv' /\ Conn!Grows /\ Conn!Kept
<1>0. /\ tabs \in [Tabs -> Views] /\ slock \in Locks /\ baseline \in BOOLEAN
      /\ schema \in [rev : Nat, keys : SUBSET {"mapped", "other"}] /\ schema.rev \in Nat
      /\ schema.keys \in SUBSET {"mapped", "other"} /\ slock.rev \in Nat
  BY DEF WorkInv, ConfigTypes, Locks
<1>k. Conn!Kept
  BY SettingKeepsWork DEF Conn!Kept, Conn!Setup
<1>1. CASE \E p \in Tabs : \/ Conn!Show(p) \/ Conn!Fails(p) \/ Conn!DiscoverBegins(p) \/ Conn!TestBegins(p)
                           \/ Conn!SaveConnection(p) \/ Conn!Convert(p) \/ Conn!DiscoverEnds(p) \/ Conn!TestEnds(p)
                           \/ Conn!AssignBegins(p) \/ Conn!SetupReads(p)
  BY <1>k, <1>1, PagesKeepWork, SavingKeepsWork, ConvertingKeepsWork, AnswersKeepWork, AssigningKeepsWork,
     SettingKeepsWork
<1>2. CASE Conn!AssignEnds \/ Conn!Setup
  BY <1>k, <1>2, AssigningKeepsWork, SettingKeepsWork
<1>3. CASE Conn!AdminEdits
  <2>1. /\ UNCHANGED <<config, credentials, discovery, tests, baseline, slock, tabs, answered, storn>>
        /\ schema' = [rev |-> schema.rev + 1,
                      keys |-> IF "other" \in schema.keys THEN schema.keys \ {"other"} ELSE schema.keys \cup {"other"}]
    BY <1>3 DEF Conn!AdminEdits
  <2>2. /\ schema' \in [rev : Nat, keys : SUBSET {"mapped", "other"}] /\ schema'.rev = schema.rev + 1
        /\ "mapped" \in schema.keys => "mapped" \in schema'.keys
    BY <1>0, <2>1
  <2>3. Assigning' /\ \A q \in Tabs : AskedWith(q)'
    BY <2>1 DEF WorkInv, Assigning, AskedWith, Conn!Ref, Conn!Tested
  <2>4. SettingUp'
    BY <1>0, <2>1, <2>2 DEF WorkInv, SettingUp
  <2> QED
    BY <1>0, <1>k, <2>1, <2>2, <2>3, <2>4, WorkRests
<1>4. CASE Conn!Crash
  <2>1. /\ UNCHANGED <<config, credentials, discovery, tests, schema, answered, storn>>
        /\ tabs' = Conn!Quiet /\ slock' = Conn!Unlocked /\ baseline' \in BOOLEAN /\ (baseline => baseline')
    <3>1. /\ UNCHANGED <<config, credentials, discovery, tests, schema, answered, storn>>
          /\ tabs' = Conn!Quiet /\ slock' = Conn!Unlocked
          /\ baseline' \in {baseline, baseline \/ (slock.pc = "assign" /\ slock.on)}
      BY <1>4 DEF Conn!Crash
    <3> QED
      BY <1>0, <3>1
  <2>2. Assigning' /\ SettingUp' /\ \A q \in Tabs : AskedWith(q)'
    BY <2>1, AtRest DEF Assigning, SettingUp, AskedWith
  <2> QED
    BY <1>0, <1>k, <2>1, <2>2, AtRest, WorkRests
<1>5. CASE UNCHANGED Conn!vars
  <2>1. UNCHANGED <<config, credentials, discovery, tests, baseline, schema, slock, tabs, answered, storn>>
    BY <1>5 DEF Conn!vars
  <2>2. Assigning' /\ SettingUp' /\ \A q \in Tabs : AskedWith(q)'
    BY <2>1 DEF WorkInv, Assigning, SettingUp, AskedWith, Conn!Ref, Conn!Tested
  <2> QED
    BY <1>0, <1>k, <2>1, <2>2, WorkRests
<1> QED
  BY <1>1, <1>2, <1>3, <1>4, <1>5 DEF Conn!Next

\* Nothing is at work that was not tested with the credential it has, a listing is of the
\* credential, what the lifecycle maps is declared, and no request undoes another's
\* (context_service.py): for any connections, keys, tabs, requests and crashes.
LEMMA TestedBeforeUseHolds == Conn!Spec => Conn!TestedBeforeUse
<1>1. Conn!Init => WorkInv
  BY ConnBegins
<1>2. WorkInv /\ [Conn!Next]_(Conn!vars) => WorkInv'
  BY ConnSteps
<1>3. WorkInv /\ [Conn!Next]_(Conn!vars) => [Conn!Grows /\ Conn!Kept]_(Conn!vars)
  BY ConnSteps
<1>4. WorkInv => Conn!AtWork /\ Conn!Listed /\ Conn!Declared
  BY DEF WorkInv
<1> QED
  BY <1>1, <1>2, <1>3, <1>4, PTL DEF Conn!Spec, Conn!TestedBeforeUse

-----------------------------------------------------------------------------
\* Control files and configuration, the two places people change by hand: no change undoes
\* another's, nothing works untested (control.py, keys.py, context_service.py).
THEOREM ChangesAlwaysStand == Control!Spec /\ Conn!Spec => ChangesStand
BY ControlFilesStand, TestedBeforeUseHolds, PTL DEF ChangesStand

-----------------------------------------------------------------------------
-----------------------------------------------------------------------------
(* Identities: who is who in the dossiers *)

PeopleTypes ==
    /\ people \in [PersonIds -> Persons \cup {None}]
    /\ mentioned \subseteq Addresses /\ suppressed \subseteq Addresses
    /\ Who!Known \subseteq used /\ used \subseteq PersonIds /\ revived \subseteq used
    /\ purged \subseteq suppressed /\ withdrawn \subseteq said /\ said \subseteq Words

\* A preview of the present catalog is of what the catalog says.
Previewed ==
    held # None =>
        /\ held \in Previews
        /\ held.current =>
              /\ held.saw = people /\ held.of \in Who!Active
              /\ held.into = None => /\ held.emails \subseteq people[held.of].emails
                                     /\ \A w \in held.words : people[held.of].words[w] # "none"
              /\ held.into # None => held.into \in Who!Active \ {held.of}

\* Redirects lead to somebody there is, and no redirects lead to one another only.
Redirected ==
    /\ \A i \in Who!Known : people[i].to \in Who!Known \cup {None}
    /\ \A S \in SUBSET (Who!Known \ Who!Owners) : S # {} => \E i \in S : people[i].to \notin S

\* A fact lives in one dossier at most, in none before it is told or once it is taken back.
Sayers(w) == {i \in Who!Owners \ revived : people[i].words[w] = "confirmed"}
Once ==
    \A w \in Words :
        /\ \A i, j \in Sayers(w) : i = j
        /\ w \in withdrawn => Sayers(w) = {}
        /\ w \notin said => \A i \in Who!Known : people[i].words[w] = "none"

PeopleInv == PeopleTypes /\ Previewed /\ Redirected /\ Once /\ Who!OneEach

\* Whoever is in the catalog is a person.
LEMMA PeopleAre ==
  ASSUME IdentityConstants, PeopleTypes
  PROVE  /\ \A i \in PersonIds : people[i] \in Persons \cup {None}
         /\ \A i \in Who!Known : i \in PersonIds /\ i \in used /\ people[i] \in Persons
         /\ \A i \in Who!Known : /\ people[i].emails \in SUBSET Addresses /\ people[i].to \in PersonIds \cup {None}
                                 /\ people[i].retired \in BOOLEAN /\ people[i].auto \in BOOLEAN
                                 /\ people[i].words \in [Words -> {"none", "confirmed", "withdrawn"}]
         /\ Who!Owners \subseteq Who!Known /\ Who!Active \subseteq Who!Owners
         /\ \A i \in Who!Owners : people[i].to = None
         /\ \A i \in Who!Known \ Who!Owners : people[i].to # None
         /\ IsFiniteSet(PersonIds) /\ Cardinality(PersonIds) = LastPerson
<1>1. \A i \in PersonIds : people[i] \in Persons \cup {None}
  BY DEF PeopleTypes
<1>2. \A i \in Who!Known : i \in PersonIds /\ i \in used /\ people[i] \in Persons
  BY <1>1 DEF PeopleTypes, Who!Known
<1>3. \A i \in Who!Known : /\ people[i].emails \in SUBSET Addresses /\ people[i].to \in PersonIds \cup {None}
                           /\ people[i].retired \in BOOLEAN /\ people[i].auto \in BOOLEAN
                           /\ people[i].words \in [Words -> {"none", "confirmed", "withdrawn"}]
  BY <1>2 DEF Persons
<1>4. IsFiniteSet(PersonIds) /\ Cardinality(PersonIds) = LastPerson
  <2>1. 1 \in Int /\ LastPerson \in Int /\ LastPerson \in Nat
    BY DEF IdentityConstants
  <2> QED
    BY <2>1, FS_Interval DEF PersonIds
<1> QED
  BY <1>1, <1>2, <1>3, <1>4 DEF Who!Owners, Who!Active

\* At the start the catalog is empty.
LEMMA PeopleBegin == IdentityConstants /\ Who!Init => PeopleInv
<1> SUFFICES ASSUME IdentityConstants, Who!Init PROVE PeopleInv
  OBVIOUS
<1>1. /\ people = [i \in PersonIds |-> None] /\ suppressed = {} /\ mentioned = {} /\ held = None
      /\ used = {} /\ said = {} /\ purged = {} /\ withdrawn = {} /\ revived = {}
  BY DEF Who!Init, Who!Start
<1>2. Who!Known = {} /\ Who!Owners = {}
  BY <1>1 DEF Who!Known, Who!Owners
<1> QED
  BY <1>1, <1>2 DEF PeopleInv, PeopleTypes, Previewed, Redirected, Once, Sayers, Who!OneEach

\* In a set of k + 1 numbers or more there is one that has k below it.
LEMMA KthOfSome ==
  ASSUME LastPerson \in Nat, NEW U \in SUBSET PersonIds, NEW k \in Nat, k < Cardinality(U)
  PROVE  \E i \in U : Cardinality({j \in U : j < i}) = k
<1>0. IsFiniteSet(U) /\ \A V \in SUBSET U : IsFiniteSet(V) /\ Cardinality(V) \in Nat
  <2>1. IsFiniteSet(PersonIds)
    BY FS_Interval DEF PersonIds
  <2> QED
    BY <2>1, FS_Subset, FS_CardinalityType
<1> DEFINE Below(n) == {j \in U : j < n}
           Enough == {n \in 0 .. LastPerson + 1 : Cardinality(Below(n)) > k}
<1>b. \A j \in U : j \in Nat /\ 0 < j /\ j < LastPerson + 1
  BY DEF PersonIds
<1>1. LastPerson + 1 \in Enough
  <2>1. \A j \in U : j < LastPerson + 1
    BY <1>b
  <2>2. Below(LastPerson + 1) = U
    BY <2>1, Zenon
  <2>3. Cardinality(Below(LastPerson + 1)) > k
    BY <2>2, Zenon
  <2> HIDE DEF Below
  <2> QED
    BY <2>3
<1>2. PICK n \in Enough : \A m \in Enough : n <= m
  <2>1. Enough \subseteq Nat /\ Enough # {}
    <3> HIDE DEF Below
    <3>1. Enough \subseteq 0 .. LastPerson + 1
      OBVIOUS
    <3> HIDE DEF Enough
    <3> QED
      BY <1>1, <3>1
  <2> HIDE DEF Enough
  <2> QED
    BY <2>1, FirstOfNat
<1>3. n # 0
  <2>1. Below(0) = {}
    <3>1. \A j \in U : ~(j < 0)
      BY <1>b
    <3> QED
      BY <3>1, Zenon
  <2>2. Cardinality(Below(0)) = 0
    BY <2>1, FS_EmptySet
  <2> QED
    BY <2>2
<1>4. n \in Nat /\ n - 1 \in Nat /\ n - 1 \in 0 .. LastPerson + 1 /\ Cardinality(Below(n)) > k
  BY <1>3
<1>5. Cardinality(Below(n - 1)) <= k
  <2>1. n - 1 \notin Enough
    BY <1>2, <1>4
  <2> QED
    BY <1>0, <1>4, <2>1
<1>6. Below(n) = Below(n - 1) \/ (n - 1 \in U /\ Below(n) = Below(n - 1) \cup {n - 1} /\ n - 1 \notin Below(n - 1))
  <2>1. \A j \in U : (j < n <=> j < n - 1 \/ j = n - 1) /\ ~(n - 1 < n - 1)
    BY <1>b, <1>4
  <2>2. CASE n - 1 \in U
    BY <2>1, <2>2, Zenon
  <2>3. CASE n - 1 \notin U
    <3>1. \A j \in U : j < n <=> j < n - 1
      BY <2>1, <2>3
    <3> QED
      BY <3>1, Zenon
  <2> QED
    BY <2>2, <2>3
<1>7. n - 1 \in U /\ Below(n) = Below(n - 1) \cup {n - 1} /\ n - 1 \notin Below(n - 1)
  BY <1>0, <1>4, <1>5, <1>6
<1>8. Cardinality(Below(n)) = Cardinality(Below(n - 1)) + 1
  BY <1>0, <1>7, FS_AddElement
<1>9. Cardinality(Below(n - 1)) = k
  BY <1>0, <1>4, <1>5, <1>8
<1> QED
  BY <1>7, <1>9

-----------------------------------------------------------------------------
(* What a step must leave alone for a part of the invariant to stand *)

\* Redirects still lead to somebody if a step makes none but to a dossier.
LEMMA RedirectedStays ==
  ASSUME Redirected,
         \A i \in Who!Known' : \/ people'[i].to = None \/ people'[i].to \in Who!Owners'
                               \/ i \in Who!Known /\ people'[i].to = people[i].to /\ people'[i].to \in Who!Known'
  PROVE  Redirected'
<1>0. Who!Owners' = {i \in Who!Known' : people'[i].to = None}
  BY DEF Who!Owners
<1>1. \A i \in Who!Known' : people'[i].to \in Who!Known' \cup {None}
  BY <1>0
<1>2. ASSUME NEW S \in SUBSET (Who!Known' \ Who!Owners'), S # {} PROVE \E i \in S : people'[i].to \notin S
  <2>1. CASE \E i \in S : people'[i].to \in Who!Owners'
    BY <2>1
  <2>2. CASE \A i \in S : people'[i].to \notin Who!Owners'
    <3>1. \A i \in S : i \in Who!Known /\ people'[i].to = people[i].to /\ people[i].to # None
      BY <1>0, <2>2
    <3>2. S \in SUBSET (Who!Known \ Who!Owners)
      BY <3>1 DEF Who!Owners
    <3>3. PICK i \in S : people[i].to \notin S
      BY <1>2, <3>2 DEF Redirected
    <3> QED
      BY <3>1, <3>3
  <2> QED
    BY <2>1, <2>2
<1>3. \A S \in SUBSET (Who!Known' \ Who!Owners') : S # {} => \E i \in S : people'[i].to \notin S
  BY <1>2
<1> QED
  BY <1>1, <1>3 DEF Redirected

\* Addresses stay with one dossier if a step gives none of them away.
LEMMA OneEachStays ==
  ASSUME Who!OneEach,
         \A i \in Who!Owners' \ revived' : i \in Who!Owners \ revived /\ people'[i].emails \subseteq people[i].emails
  PROVE  Who!OneEach'
BY DEF Who!OneEach

\* Nobody says more than before if a step confirms nothing.
LEMMA OnceStays ==
  ASSUME Once, withdrawn' = withdrawn, said' = said,
         \A w \in Words : \A i \in Who!Owners' \ revived' :
            people'[i].words[w] = "confirmed" => i \in Who!Owners \ revived /\ people[i].words[w] = "confirmed",
         \A w \in Words \ said : \A i \in Who!Known' : people'[i].words[w] = "none"
  PROVE  Once'
<1> SUFFICES ASSUME NEW w \in Words
             PROVE  /\ \A i, j \in Sayers(w)' : i = j
                    /\ w \in withdrawn' => Sayers(w)' = {}
                    /\ w \notin said' => \A i \in Who!Known' : people'[i].words[w] = "none"
  BY DEF Once
<1>1. Sayers(w)' = {i \in Who!Owners' \ revived' : people'[i].words[w] = "confirmed"}
  BY DEF Sayers
<1>2. Sayers(w)' \subseteq Sayers(w)
  BY <1>1 DEF Sayers
<1>3. /\ \A i, j \in Sayers(w) : i = j
      /\ w \in withdrawn => Sayers(w) = {}
  BY DEF Once
<1> QED
  BY <1>2, <1>3

\* A save outdates the preview somebody holds.
LEMMA Outdated ==
  ASSUME IdentityConstants, Previewed, Who!Outdates
  PROVE  Previewed' /\ (held # None => held' # None)
<1>1. CASE held = None
  BY <1>1 DEF Who!Outdates, Previewed
<1>2. CASE held # None
  <2>1. held \in Previews /\ held' = [held EXCEPT !.current = FALSE]
    BY <1>2 DEF Previewed, Who!Outdates
  <2>2. held' \in Previews /\ held'.current = FALSE
    BY <2>1 DEF Previews
  <2>3. held' # None
    BY <2>2 DEF IdentityConstants
  <2> QED
    BY <2>2, <2>3 DEF Previewed
<1> QED
  BY <1>1, <1>2

\* What was said still is if whoever says it does, or another.
LEMMA StillHeard ==
  ASSUME \A w \in Words : \A i \in Who!Active : people[i].words[w] = "confirmed"
            => \E j \in Who!Active' : people'[j].words[w] = "confirmed"
  PROVE  Who!Heard
<1>1. ASSUME NEW w \in Who!Spoken PROVE w \in Who!Spoken'
  <2>1. w \in Words /\ \E i \in Who!Active : people[i].words[w] = "confirmed"
    BY <1>1 DEF Who!Spoken, Who!Says
  <2>2. PICK j \in Who!Active' : people'[j].words[w] = "confirmed"
    BY <2>1
  <2> QED
    BY <2>1, <2>2 DEF Who!Spoken, Who!Says
<1>2. Who!Spoken \subseteq Who!Spoken'
  BY <1>1
<1> QED
  BY <1>2 DEF Who!Heard

\* The catalog after one entry of it was written.
LEMMA OneWritten ==
  ASSUME IdentityConstants, PeopleTypes, NEW i \in PersonIds, NEW p \in Persons, people' = [people EXCEPT ![i] = p]
  PROVE  /\ people' \in [PersonIds -> Persons \cup {None}] /\ people'[i] = p
         /\ \A j \in PersonIds \ {i} : people'[j] = people[j]
         /\ Who!Known' = Who!Known \cup {i}
         /\ p.to = None => Who!Owners' = Who!Owners \cup {i}
         /\ Who!Owners' \ {i} = Who!Owners \ {i} /\ Who!Active' \ {i} = Who!Active \ {i}
         /\ i \in Who!Active' <=> p.to = None /\ ~p.retired
<1>1. people \in [PersonIds -> Persons \cup {None}] /\ p # None
  BY DEF PeopleTypes, IdentityConstants
<1>2. /\ people' \in [PersonIds -> Persons \cup {None}] /\ people'[i] = p
      /\ \A j \in PersonIds \ {i} : people'[j] = people[j]
  BY <1>1
<1>3. Who!Known' = Who!Known \cup {i}
  BY <1>1, <1>2 DEF Who!Known
<1>4. \A j \in PersonIds : j \in Who!Owners' <=> (j \in Who!Known' /\ people'[j].to = None)
  BY DEF Who!Owners, Who!Known
<1>5. \A j \in PersonIds : j \in Who!Owners <=> (j \in Who!Known /\ people[j].to = None)
  BY DEF Who!Owners, Who!Known
<1>6. Who!Owners' \subseteq PersonIds /\ Who!Owners \subseteq PersonIds /\ i \in Who!Known'
  BY <1>3 DEF Who!Owners, Who!Known
<1>7. Who!Owners' \ {i} = Who!Owners \ {i}
  BY <1>2, <1>3, <1>4, <1>5, <1>6
<1>8. p.to = None => Who!Owners' = Who!Owners \cup {i}
  BY <1>2, <1>4, <1>6, <1>7
<1>9. Who!Active' \ {i} = Who!Active \ {i}
  BY <1>2, <1>6, <1>7 DEF Who!Active
<1>10. i \in Who!Active' <=> p.to = None /\ ~p.retired
  BY <1>2, <1>4, <1>6 DEF Who!Active
<1> QED
  BY <1>2, <1>3, <1>7, <1>8, <1>9, <1>10

-----------------------------------------------------------------------------
(* Identities that are still to be given *)

LEMMA CountsAlike == \A S : Who!Cardinality(S) = Cardinality(S)
BY DEF Who!Cardinality, Cardinality

LEMMA FreshIs ==
  ASSUME IdentityConstants, PeopleTypes, NEW k \in Nat, k < Cardinality(PersonIds \ used)
  PROVE  /\ Who!Fresh(k) \in PersonIds \ used
         /\ Cardinality({j \in PersonIds \ used : j < Who!Fresh(k)}) = k
<1>1. \E i \in PersonIds \ used : Cardinality({j \in PersonIds \ used : j < i}) = k
  <2>1. PersonIds \ used \in SUBSET PersonIds /\ LastPerson \in Nat
    BY DEF IdentityConstants
  <2> QED
    BY <2>1, KthOfSome
<1>2. \E i \in PersonIds \ used : Who!Cardinality({j \in PersonIds \ used : j < i}) = k
  BY <1>1, CountsAlike, Zenon
<1>3. /\ Who!Fresh(k) \in PersonIds \ used
      /\ Who!Cardinality({j \in PersonIds \ used : j < Who!Fresh(k)}) = k
  BY <1>2, Zenon DEF Who!Fresh
<1> QED
  BY <1>3, CountsAlike, Zenon

\* There is somebody to make, if not everybody was made.
LEMMA FirstFresh ==
  ASSUME IdentityConstants, PeopleTypes, PersonIds \ used # {}
  PROVE  Who!Fresh(0) \in PersonIds \ used /\ people[Who!Fresh(0)] = None /\ Who!Fresh(0) \notin Who!Known /\ Who!Fresh(0) \notin revived
<1>1. IsFiniteSet(PersonIds \ used)
  <2>1. IsFiniteSet(PersonIds)
    BY FS_Interval DEF PersonIds, IdentityConstants
  <2> QED
    BY <2>1, FS_Subset
<1>2. Cardinality(PersonIds \ used) \in Nat /\ Cardinality(PersonIds \ used) # 0
  BY <1>1, FS_CardinalityType, FS_EmptySet
<1>3. 0 < Cardinality(PersonIds \ used) /\ 0 \in Nat
  BY <1>2
<1>4. Who!Fresh(0) \in PersonIds \ used
  BY <1>3, FreshIs
<1> QED
  BY <1>4 DEF PeopleTypes, Who!Known

\* Every stranger a refresh has room for gets an identity nobody had.
LEMMA NewForIs ==
  ASSUME IdentityConstants, PeopleTypes, Cardinality(Who!Strangers) <= Cardinality(PersonIds \ used)
  PROVE  \A a \in Who!Strangers : Who!NewFor(a) \in PersonIds \ used
<1> SUFFICES ASSUME NEW a \in Who!Strangers PROVE Who!NewFor(a) \in PersonIds \ used
  OBVIOUS
<1> DEFINE Less == {b \in Who!Strangers : b < a}
<1>1. Who!Strangers \subseteq Addresses /\ IsFiniteSet(Who!Strangers) /\ IsFiniteSet(PersonIds \ used)
  <2>1. IsFiniteSet(PersonIds) /\ IsFiniteSet(Addresses)
    BY FS_Interval DEF PersonIds, Addresses, IdentityConstants
  <2>2. Who!Strangers \subseteq Addresses
    BY DEF Who!Strangers, PeopleTypes
  <2> QED
    BY <2>1, <2>2, FS_Subset
<1>2. Less \subseteq Who!Strangers /\ Less # Who!Strangers
  <2>1. ~(a < a)
    BY <1>1 DEF Addresses
  <2> QED
    BY <2>1
<1>3. Cardinality(Less) \in Nat /\ Cardinality(Who!Strangers) \in Nat /\ Cardinality(PersonIds \ used) \in Nat
  BY <1>1, <1>2, FS_Subset, FS_CardinalityType
<1>4. Cardinality(Less) < Cardinality(Who!Strangers)
  BY <1>1, <1>2, <1>3, FS_Subset
<1>5. Cardinality(Less) < Cardinality(PersonIds \ used)
  BY <1>3, <1>4
<1>6. PICK k \in Nat : k = Cardinality(Less)
  BY <1>3
<1>7. Who!Fresh(k) \in PersonIds \ used
  BY <1>5, <1>6, FreshIs
<1>8. Who!NewFor(a) = Who!Fresh(k)
  BY <1>6, CountsAlike, Zenon DEF Who!NewFor
<1> QED
  BY <1>7, <1>8

-----------------------------------------------------------------------------
(* Every action keeps the invariant, silences nobody and does only what was seen *)

PeopleActs == Who!Heard /\ Who!AsSeen /\ Who!Forgets

\* What a save that is not a merge, a split or a refresh does without asking.
LEMMA SeenAnyway ==
  ASSUME held # None => held' # None, ~Who!Refresh
  PROVE  Who!AsSeen /\ Who!Forgets
BY DEF Who!AsSeen, Who!Forgets

\* What a refresh makes.
LEMMA RefreshMakes ==
  ASSUME IdentityConstants, PeopleInv, Who!Refresh
  PROVE  \E made \in SUBSET (PersonIds \ used) : \E named \in [made -> Addresses] :
            /\ \A i \in made : Who!NewFor(named[i]) = i /\ named[i] \in Who!Strangers
            /\ used' = used \cup made
            /\ people' = [i \in PersonIds |-> IF i \in made THEN Who!Person({named[i]}, TRUE) ELSE people[i]]
            /\ Who!Outdates
            /\ UNCHANGED <<suppressed, mentioned, said, purged, withdrawn, revived>>
<1> DEFINE made == {Who!NewFor(a) : a \in Who!Strangers}
           name(i) == CHOOSE a \in Who!Strangers : Who!NewFor(a) = i
           named == [i \in made |-> name(i)]
<1>1. made \in SUBSET (PersonIds \ used)
  <2>1. Cardinality(Who!Strangers) <= Cardinality(PersonIds \ used)
    BY CountsAlike DEF Who!Refresh
  <2> QED
    BY <2>1, NewForIs DEF PeopleInv
<1>2. \A i \in made : name(i) \in Who!Strangers /\ Who!NewFor(name(i)) = i
  BY Zenon
<1>3. Who!Strangers \subseteq Addresses
  BY DEF Who!Strangers, PeopleInv, PeopleTypes
<1>4. /\ used' = used \cup made
      /\ people' = [i \in PersonIds |-> IF i \in made THEN Who!Person({name(i)}, TRUE) ELSE people[i]]
      /\ Who!Outdates
      /\ UNCHANGED <<suppressed, mentioned, said, purged, withdrawn, revived>>
  BY Zenon DEF Who!Refresh, Who!Save, Who!history
<1> HIDE DEF made, name
<1>5. /\ named \in [made -> Addresses] /\ \A i \in made : named[i] = name(i)
  BY <1>2, <1>3
<1>6. people' = [i \in PersonIds |-> IF i \in made THEN Who!Person({named[i]}, TRUE) ELSE people[i]]
  BY <1>4, <1>5
<1>7. \A i \in made : Who!NewFor(named[i]) = i /\ named[i] \in Who!Strangers
  BY <1>2, <1>5
<1> HIDE DEF named
<1> QED
  BY <1>1, <1>4, <1>5, <1>6, <1>7, Zenon

LEMMA RefreshKeeps ==
  ASSUME IdentityConstants, PeopleInv, Who!Refresh
  PROVE  PeopleInv' /\ PeopleActs
<1>p. PICK made \in SUBSET (PersonIds \ used) : \E named \in [made -> Addresses] :
            /\ \A i \in made : Who!NewFor(named[i]) = i /\ named[i] \in Who!Strangers
            /\ used' = used \cup made
            /\ people' = [i \in PersonIds |-> IF i \in made THEN Who!Person({named[i]}, TRUE) ELSE people[i]]
            /\ Who!Outdates
            /\ UNCHANGED <<suppressed, mentioned, said, purged, withdrawn, revived>>
  BY RefreshMakes
<1>1. PICK named \in [made -> Addresses] :
            /\ \A i \in made : Who!NewFor(named[i]) = i /\ named[i] \in Who!Strangers
            /\ used' = used \cup made
            /\ people' = [i \in PersonIds |-> IF i \in made THEN Who!Person({named[i]}, TRUE) ELSE people[i]]
            /\ Who!Outdates
            /\ UNCHANGED <<suppressed, mentioned, said, purged, withdrawn, revived>>
  BY <1>p
<1>0. PeopleTypes /\ Previewed /\ Redirected /\ Once /\ Who!OneEach
  BY DEF PeopleInv
<1>2. \A i \in made : /\ people'[i] \in Persons /\ people'[i].emails = {named[i]} /\ people'[i].to = None
                      /\ \A w \in Words : people'[i].words[w] = "none"
  <2> TAKE i \in made
  <2>1. people'[i] = Who!Person({named[i]}, TRUE) /\ {named[i]} \in SUBSET Addresses
    BY <1>1
  <2> QED
    BY <2>1 DEF Who!Person, Who!Silent, Persons
<1>3. \A i \in PersonIds \ made : people'[i] = people[i]
  BY <1>1
<1>4. people' \in [PersonIds -> Persons \cup {None}]
  BY <1>0, <1>1, <1>2, <1>3 DEF PeopleTypes
<1>5. Who!Known' = Who!Known \cup made
  <2>1. \A i \in made : people'[i] # None
    BY <1>2 DEF IdentityConstants
  <2>2. \A i \in PersonIds : people'[i] # None <=> people[i] # None \/ i \in made
    BY <1>0, <1>3, <2>1 DEF PeopleTypes, Who!Known
  <2> QED
    BY <2>2 DEF Who!Known
<1>6. Who!Owners' = Who!Owners \cup made /\ made \cap Who!Known = {}
  <2>1. made \cap Who!Known = {}
    BY <1>0 DEF PeopleTypes
  <2> QED
    BY <2>1, <1>2, <1>3, <1>5 DEF Who!Owners, Who!Known
<1>7. PeopleTypes'
  BY <1>0, <1>1, <1>4, <1>5 DEF PeopleTypes
<1>8. Previewed' /\ (held # None => held' # None)
  BY <1>0, <1>1, Outdated
<1>9. Redirected'
  <2>1. \A i \in Who!Known : people[i].to \in Who!Known \cup {None} /\ i \in PersonIds /\ i \notin made
    BY <1>0, <1>6 DEF Redirected, Who!Known
  <2>2. \A i \in Who!Known' : \/ people'[i].to = None
                              \/ people'[i].to \in Who!Owners'
                              \/ i \in Who!Known /\ people'[i].to = people[i].to /\ people'[i].to \in Who!Known'
    BY <2>1, <1>2, <1>3, <1>5
  <2> QED
    BY <1>0, <2>2, RedirectedStays
<1>10. Once'
  <2>1. \A w \in Words : \A i \in Who!Owners' \ revived' :
            people'[i].words[w] = "confirmed" => i \in Who!Owners \ revived /\ people[i].words[w] = "confirmed"
    BY <1>1, <1>2, <1>3, <1>6 DEF Who!Owners, Who!Known
  <2>2. \A w \in Words \ said : \A i \in Who!Known' : people'[i].words[w] = "none"
    BY <1>0, <1>2, <1>3, <1>5 DEF Once, Who!Known
  <2> QED
    BY <1>0, <1>1, <2>1, <2>2, OnceStays
<1>11. Who!OneEach'
  <2>1. \A i \in made : \A j \in Who!Owners : named[i] \notin people[j].emails
    BY <1>1 DEF Who!Strangers, Who!Taken
  <2>2. \A i, j \in made : i # j => named[i] # named[j]
    BY <1>1
  <2>3. \A i \in Who!Owners : people'[i] = people[i]
    BY <1>3, <1>6 DEF Who!Owners, Who!Known
  <2>4. ASSUME NEW i \in Who!Owners' \ revived', NEW j \in Who!Owners' \ revived', i # j
        PROVE  people'[i].emails \cap people'[j].emails = {}
    <3>1. CASE i \in made /\ j \in made
      BY <3>1, <2>4, <2>2, <1>2
    <3>2. CASE i \in made /\ j \in Who!Owners
      BY <3>2, <2>1, <2>3, <1>2
    <3>3. CASE i \in Who!Owners /\ j \in made
      BY <3>3, <2>1, <2>3, <1>2
    <3>4. CASE i \in Who!Owners /\ j \in Who!Owners
      BY <3>4, <2>4, <2>3, <1>0, <1>1 DEF Who!OneEach
    <3> QED
      BY <2>4, <1>6, <3>1, <3>2, <3>3, <3>4
  <2> QED
    BY <2>4 DEF Who!OneEach
<1>12. Who!Heard
  <2>1. \A i \in Who!Active : i \in Who!Active' /\ people'[i] = people[i]
    BY <1>3, <1>6 DEF Who!Active, Who!Owners, Who!Known
  <2> QED
    BY <2>1, StillHeard
<1>13. Who!AsSeen
  BY <1>8 DEF Who!AsSeen
<1>14. Who!Forgets
  <2>1. \A i \in made : named[i] \notin purged
    BY <1>0, <1>1 DEF Who!Strangers, PeopleTypes
  <2> QED
    BY <2>1, <1>2, <1>5 DEF Who!Forgets
<1> QED
  BY <1>7, <1>8, <1>9, <1>10, <1>11, <1>12, <1>13, <1>14 DEF PeopleInv, PeopleActs

\* Only merges and splits use a preview up.
LEMMA SavesKeepPreviews ==
  ASSUME held # None => held' # None
  PROVE  Who!AsSeen
BY DEF Who!AsSeen

\* One dossier is made or written again, and the addresses it has are nobody else's.
LEMMA OneChanges ==
  ASSUME IdentityConstants, PeopleInv, NEW i \in PersonIds, i \in Who!Owners \/ i \notin Who!Known,
         NEW p \in Persons, p.to = None, people' = [people EXCEPT ![i] = p], Who!Outdates,
         \/ i \in Who!Owners /\ p.emails \subseteq people[i].emails
         \/ \A j \in Who!Owners \ {i} : p.emails \cap people[j].emails = {},
         used' = used \cup {i}, withdrawn' \subseteq said', said' \subseteq Words,
         UNCHANGED <<suppressed, mentioned, purged, revived>>
  PROVE  /\ PeopleTypes' /\ Previewed' /\ Redirected' /\ Who!OneEach' /\ Who!AsSeen
         /\ people'[i] = p /\ \A j \in PersonIds \ {i} : people'[j] = people[j]
         /\ Who!Owners' = Who!Owners \cup {i} /\ Who!Known' = Who!Known \cup {i}
         /\ Who!Owners \subseteq Who!Known /\ Who!Known \subseteq PersonIds
         /\ Who!Active' \ {i} = Who!Active \ {i} /\ (i \in Who!Active' <=> ~p.retired)
<1>0. PeopleTypes /\ Previewed /\ Redirected /\ Once /\ Who!OneEach
  BY DEF PeopleInv
<1>1. /\ people' \in [PersonIds -> Persons \cup {None}] /\ people'[i] = p
      /\ \A j \in PersonIds \ {i} : people'[j] = people[j]
      /\ Who!Known' = Who!Known \cup {i}
      /\ Who!Owners' = Who!Owners \cup {i}
      /\ Who!Active' \ {i} = Who!Active \ {i}
      /\ i \in Who!Active' <=> ~p.retired
  BY <1>0, OneWritten
<1>2. Who!Owners \subseteq Who!Known /\ Who!Known \subseteq PersonIds
  BY DEF Who!Owners, Who!Known
<1>3. PeopleTypes'
  BY <1>0, <1>1 DEF PeopleTypes
<1>4. Previewed' /\ Who!AsSeen
  BY <1>0, Outdated, SavesKeepPreviews
<1>5. Redirected'
  <2>1. \A k \in Who!Known : people[k].to \in Who!Known \cup {None}
    BY <1>0 DEF Redirected
  <2>2. \A k \in Who!Known' : \/ people'[k].to = None
                              \/ people'[k].to \in Who!Owners'
                              \/ k \in Who!Known /\ people'[k].to = people[k].to /\ people'[k].to \in Who!Known'
    BY <2>1, <1>1, <1>2
  <2> QED
    BY <1>0, <2>2, RedirectedStays
<1>6. Who!OneEach'
  <2>1. \A j \in Who!Owners' \ {i} : j \in Who!Owners /\ people'[j] = people[j]
    BY <1>1, <1>2
  <2>2. ASSUME NEW j \in Who!Owners' \ revived', i \notin revived', i # j
        PROVE  people'[i].emails \cap people'[j].emails = {}
    <3>1. j \in Who!Owners \ revived /\ people'[j] = people[j] /\ i \notin revived
      BY <2>1, <2>2
    <3>2. CASE i \in Who!Owners /\ p.emails \subseteq people[i].emails
      <4>1. people[i].emails \cap people[j].emails = {}
        BY <3>1, <3>2, <2>2, <1>0 DEF Who!OneEach
      <4> QED
        BY <3>1, <3>2, <4>1, <1>1
    <3>3. CASE \A k \in Who!Owners \ {i} : p.emails \cap people[k].emails = {}
      BY <3>1, <3>3, <2>2, <1>1
    <3> QED
      BY <3>2, <3>3
  <2>3. ASSUME NEW j \in Who!Owners' \ revived', NEW k \in Who!Owners' \ revived', j # k, j # i, k # i
        PROVE  people'[j].emails \cap people'[k].emails = {}
    BY <2>1, <2>3, <1>0 DEF Who!OneEach
  <2>4. ASSUME NEW j \in Who!Owners' \ revived', NEW k \in Who!Owners' \ revived', j # k
        PROVE  people'[j].emails \cap people'[k].emails = {}
    <3>1. CASE j = i
      BY <3>1, <2>4, <2>2
    <3>2. CASE k = i
      BY <3>2, <2>4, <2>2
    <3> QED
      BY <3>1, <3>2, <2>3, <2>4
  <2> QED
    BY <2>4 DEF Who!OneEach
<1> QED
  BY <1>1, <1>2, <1>3, <1>4, <1>5, <1>6

LEMMA CreateKeeps ==
  ASSUME IdentityConstants, PeopleInv, NEW e \in SUBSET Addresses, Who!Create(e)
  PROVE  PeopleInv' /\ Who!Heard /\ Who!AsSeen
<1>0. PeopleTypes /\ Once
  BY DEF PeopleInv
<1>1. PICK i \in PersonIds \ used : i = Who!Fresh(0) /\ i \notin Who!Known
  BY <1>0, FirstFresh DEF Who!Create
<1>2. PICK p : p = Who!Person(e, FALSE)
  OBVIOUS
<1>3. /\ p \in Persons /\ p.emails = e /\ p.to = None /\ ~p.retired
      /\ \A w \in Words : p.words[w] = "none"
  BY <1>2 DEF Who!Person, Who!Silent, Persons
<1>4. /\ people' = [people EXCEPT ![i] = p] /\ used' = used \cup {i} /\ Who!Outdates
      /\ said' = said /\ withdrawn' = withdrawn /\ UNCHANGED <<suppressed, mentioned, purged, revived>>
      /\ e \cap Who!Taken = {}
  BY <1>1, <1>2, Zenon DEF Who!Create, Who!Save, Who!history
<1>5. \A j \in Who!Owners \ {i} : p.emails \cap people[j].emails = {}
  BY <1>3, <1>4 DEF Who!Taken
<1>6. withdrawn' \subseteq said' /\ said' \subseteq Words
  BY <1>0, <1>4 DEF PeopleTypes
<1>7. /\ PeopleTypes' /\ Previewed' /\ Redirected' /\ Who!OneEach' /\ Who!AsSeen
      /\ people'[i] = p /\ \A j \in PersonIds \ {i} : people'[j] = people[j]
      /\ Who!Owners' = Who!Owners \cup {i} /\ Who!Known' = Who!Known \cup {i}
      /\ Who!Owners \subseteq Who!Known /\ Who!Known \subseteq PersonIds
      /\ Who!Active' \ {i} = Who!Active \ {i} /\ (i \in Who!Active' <=> ~p.retired)
  BY <1>1, <1>3, <1>4, <1>5, <1>6, OneChanges
<1>8. Once'
  <2>1. \A w \in Words : \A j \in Who!Owners' \ revived' :
            people'[j].words[w] = "confirmed" => j \in Who!Owners \ revived /\ people[j].words[w] = "confirmed"
    BY <1>1, <1>3, <1>4, <1>7
  <2>2. \A w \in Words \ said : \A j \in Who!Known' : people'[j].words[w] = "none"
    BY <1>0, <1>1, <1>3, <1>7 DEF Once
  <2> QED
    BY <1>0, <1>4, <2>1, <2>2, OnceStays
<1>9. Who!Heard
  <2>1. \A j \in Who!Active : j \in Who!Active' /\ people'[j] = people[j]
    BY <1>1, <1>7 DEF Who!Active
  <2> QED
    BY <2>1, StillHeard
<1> QED
  BY <1>7, <1>8, <1>9 DEF PeopleInv

\* The addresses of a dossier are set: the words stay.
LEMMA AliasesKeep ==
  ASSUME IdentityConstants, PeopleInv, NEW i \in PersonIds, NEW e \in SUBSET Addresses, Who!Aliases(i, e)
  PROVE  PeopleInv' /\ Who!Heard /\ Who!AsSeen
<1>0. PeopleTypes /\ Once
  BY DEF PeopleInv
<1>1. i \in Who!Active /\ i \in Who!Owners /\ i \in used /\ people[i] \in Persons /\ people[i].to = None /\ ~people[i].retired
  BY <1>0, PeopleAre DEF Who!Aliases, Who!Change, Who!Active
<1>2. PICK p : p = [people[i] EXCEPT !.emails = e]
  OBVIOUS
<1>3. p \in Persons /\ p.emails = e /\ p.to = None /\ ~p.retired /\ p.words = people[i].words
  BY <1>1, <1>2 DEF Persons
<1>4. /\ people' = [people EXCEPT ![i].emails = e] /\ Who!Outdates
      /\ used' = used /\ said' = said /\ withdrawn' = withdrawn /\ UNCHANGED <<suppressed, mentioned, purged, revived>>
      /\ e \cap Who!OfOthers(i) = {}
  BY Zenon DEF Who!Aliases, Who!Save, Who!history, Who!Elsewhere
<1>5. people' = [people EXCEPT ![i] = p] /\ used' = used \cup {i}
  BY <1>0, <1>1, <1>2, <1>4 DEF PeopleTypes
<1>6. \A j \in Who!Owners \ {i} : p.emails \cap people[j].emails = {}
  BY <1>3, <1>4 DEF Who!OfOthers
<1>7. withdrawn' \subseteq said' /\ said' \subseteq Words
  BY <1>0, <1>4 DEF PeopleTypes
<1>8. /\ PeopleTypes' /\ Previewed' /\ Redirected' /\ Who!OneEach' /\ Who!AsSeen
      /\ people'[i] = p /\ \A j \in PersonIds \ {i} : people'[j] = people[j]
      /\ Who!Owners' = Who!Owners \cup {i} /\ Who!Known' = Who!Known \cup {i}
      /\ Who!Owners \subseteq Who!Known /\ Who!Known \subseteq PersonIds
      /\ Who!Active' \ {i} = Who!Active \ {i} /\ (i \in Who!Active' <=> ~p.retired)
  BY <1>1, <1>3, <1>4, <1>5, <1>6, <1>7, OneChanges
<1>9. \A j \in Who!Known' : j \in Who!Known /\ people'[j].words = people[j].words
  BY <1>1, <1>3, <1>8
<1>10. Once'
  <2>1. \A w \in Words : \A j \in Who!Owners' \ revived' :
            people'[j].words[w] = "confirmed" => j \in Who!Owners \ revived /\ people[j].words[w] = "confirmed"
    BY <1>1, <1>4, <1>8, <1>9
  <2>2. \A w \in Words \ said : \A j \in Who!Known' : people'[j].words[w] = "none"
    BY <1>0, <1>9 DEF Once
  <2> QED
    BY <1>0, <1>4, <2>1, <2>2, OnceStays
<1>11. Who!Heard
  <2>1. \A j \in Who!Active : j \in Who!Active' /\ people'[j].words = people[j].words
    BY <1>1, <1>3, <1>8, <1>9 DEF Who!Active
  <2> QED
    BY <2>1, StillHeard
<1> QED
  BY <1>8, <1>10, <1>11 DEF PeopleInv

LEMMA CorrectKeeps ==
  ASSUME IdentityConstants, PeopleInv, NEW i \in PersonIds, NEW w \in Words, Who!Correct(i, w)
  PROVE  PeopleInv' /\ Who!Heard /\ Who!AsSeen
<1>0. PeopleTypes /\ Once
  BY DEF PeopleInv
<1>1. /\ i \in Who!Active /\ i \in Who!Owners /\ i \in Who!Known /\ i \in used /\ people[i] \in Persons
      /\ people[i].to = None /\ ~people[i].retired
      /\ people[i].words \in [Words -> {"none", "confirmed", "withdrawn"}]
  BY <1>0, PeopleAre DEF Who!Correct, Who!Change, Who!Active
<1>2. PICK p : p = [people[i] EXCEPT !.words[w] = "confirmed"]
  OBVIOUS
<1>3. /\ p \in Persons /\ p.emails = people[i].emails /\ p.to = None /\ ~p.retired
      /\ p.words[w] = "confirmed" /\ \A v \in Words \ {w} : p.words[v] = people[i].words[v]
  BY <1>1, <1>2 DEF Persons
<1>4. /\ people' = [people EXCEPT ![i].words[w] = "confirmed"] /\ Who!Outdates
      /\ used' = used /\ said' = said \cup {w} /\ w \notin said /\ withdrawn' = withdrawn
      /\ UNCHANGED <<suppressed, mentioned, purged, revived>>
  BY Zenon DEF Who!Correct, Who!Save, Who!history
<1>5. people' = [people EXCEPT ![i] = p] /\ used' = used \cup {i}
  BY <1>0, <1>1, <1>2, <1>4 DEF PeopleTypes
<1>6. withdrawn' \subseteq said' /\ said' \subseteq Words
  BY <1>0, <1>4 DEF PeopleTypes
<1>7. /\ PeopleTypes' /\ Previewed' /\ Redirected' /\ Who!OneEach' /\ Who!AsSeen
      /\ people'[i] = p /\ \A j \in PersonIds \ {i} : people'[j] = people[j]
      /\ Who!Owners' = Who!Owners \cup {i} /\ Who!Known' = Who!Known \cup {i}
      /\ Who!Owners \subseteq Who!Known /\ Who!Known \subseteq PersonIds
      /\ Who!Active' \ {i} = Who!Active \ {i} /\ (i \in Who!Active' <=> ~p.retired)
  BY <1>1, <1>3, <1>4, <1>5, <1>6, OneChanges
<1>8. \A j \in Who!Known' : j \in Who!Known /\ \A v \in Words \ {w} : people'[j].words[v] = people[j].words[v]
  BY <1>1, <1>3, <1>7
<1>9. \A j \in Who!Known : people[j].words[w] = "none"
  BY <1>0, <1>4 DEF Once
<1>10. Once'
  <2> SUFFICES ASSUME NEW v \in Words
               PROVE  /\ \A j, k \in Sayers(v)' : j = k
                      /\ v \in withdrawn' => Sayers(v)' = {}
                      /\ v \notin said' => \A j \in Who!Known' : people'[j].words[v] = "none"
    BY DEF Once
  <2>1. CASE v = w
    <3>1. Sayers(w)' \subseteq {i}
      BY <1>1, <1>7, <1>9 DEF Sayers
    <3>2. w \notin withdrawn' /\ w \in said'
      BY <1>0, <1>4 DEF PeopleTypes
    <3> QED
      BY <2>1, <3>1, <3>2
  <2>2. CASE v # w
    <3>1. Sayers(v)' \subseteq Sayers(v)
      BY <2>2, <1>1, <1>4, <1>7, <1>8 DEF Sayers
    <3>2. /\ \A j, k \in Sayers(v) : j = k
          /\ v \in withdrawn => Sayers(v) = {}
          /\ v \notin said => \A j \in Who!Known : people[j].words[v] = "none"
      BY <1>0 DEF Once
    <3> QED
      BY <2>2, <3>1, <3>2, <1>4, <1>8
  <2> QED
    BY <2>1, <2>2
<1>11. Who!Heard
  <2>1. \A j \in Who!Active : j \in Who!Active' /\ j \in Who!Known
    BY <1>1, <1>3, <1>7 DEF Who!Active
  <2>2. \A v \in Words : \A j \in Who!Active : people[j].words[v] = "confirmed" => people'[j].words[v] = "confirmed"
    BY <2>1, <1>3, <1>7, <1>8
  <2> QED
    BY <2>1, <2>2, StillHeard
<1> QED
  BY <1>7, <1>10, <1>11 DEF PeopleInv

LEMMA WithdrawKeeps ==
  ASSUME IdentityConstants, PeopleInv, NEW i \in PersonIds, NEW w \in Words, Who!Withdraw(i, w)
  PROVE  PeopleInv' /\ Who!Heard /\ Who!AsSeen
<1>0. PeopleTypes /\ Once
  BY DEF PeopleInv
<1>1. /\ i \in Who!Active /\ i \in Who!Owners /\ i \in Who!Known /\ i \in used /\ people[i] \in Persons
      /\ people[i].to = None /\ ~people[i].retired
      /\ people[i].words \in [Words -> {"none", "confirmed", "withdrawn"}]
  BY <1>0, PeopleAre DEF Who!Withdraw, Who!Change, Who!Active
<1>2. PICK p : p = [people[i] EXCEPT !.words[w] = "withdrawn"]
  OBVIOUS
<1>3. /\ p \in Persons /\ p.emails = people[i].emails /\ p.to = None /\ ~p.retired
      /\ p.words[w] = "withdrawn" /\ \A v \in Words \ {w} : p.words[v] = people[i].words[v]
  BY <1>1, <1>2 DEF Persons
<1>4. /\ people' = [people EXCEPT ![i].words[w] = "withdrawn"] /\ Who!Outdates
      /\ used' = used /\ said' = said /\ withdrawn' = (IF i \in revived THEN withdrawn ELSE withdrawn \cup {w})
      /\ people[i].words[w] = "confirmed"
      /\ UNCHANGED <<suppressed, mentioned, purged, revived>>
  BY Zenon DEF Who!Withdraw, Who!Save
<1>5. people' = [people EXCEPT ![i] = p] /\ used' = used \cup {i}
  BY <1>0, <1>1, <1>2, <1>4 DEF PeopleTypes
<1>w. w \in said
  BY <1>0, <1>1, <1>4 DEF Once
<1>6. withdrawn' \subseteq said' /\ said' \subseteq Words
  BY <1>0, <1>4, <1>w DEF PeopleTypes
<1>7. /\ PeopleTypes' /\ Previewed' /\ Redirected' /\ Who!OneEach' /\ Who!AsSeen
      /\ people'[i] = p /\ \A j \in PersonIds \ {i} : people'[j] = people[j]
      /\ Who!Owners' = Who!Owners \cup {i} /\ Who!Known' = Who!Known \cup {i}
      /\ Who!Owners \subseteq Who!Known /\ Who!Known \subseteq PersonIds
      /\ Who!Active' \ {i} = Who!Active \ {i} /\ (i \in Who!Active' <=> ~p.retired)
  BY <1>1, <1>3, <1>4, <1>5, <1>6, OneChanges
<1>8. \A j \in Who!Known' : j \in Who!Known /\ \A v \in Words \ {w} : people'[j].words[v] = people[j].words[v]
  BY <1>1, <1>3, <1>7
<1>10. Once'
  <2> SUFFICES ASSUME NEW v \in Words
               PROVE  /\ \A j, k \in Sayers(v)' : j = k
                      /\ v \in withdrawn' => Sayers(v)' = {}
                      /\ v \notin said' => \A j \in Who!Known' : people'[j].words[v] = "none"
    BY DEF Once
  <2>1. Sayers(v)' \subseteq Sayers(v) /\ i \notin Sayers(w)'
    <3>1. \A j \in Who!Owners' : people'[j].words[v] = "confirmed" => j \in Who!Owners /\ people[j].words[v] = "confirmed"
      BY <1>1, <1>3, <1>4, <1>7, <1>8
    <3> QED
      BY <3>1, <1>3, <1>4, <1>7 DEF Sayers
  <2>2. /\ \A j, k \in Sayers(v) : j = k
        /\ v \in withdrawn => Sayers(v) = {}
        /\ v \notin said => \A j \in Who!Known : people[j].words[v] = "none"
    BY <1>0 DEF Once
  <2>3. v \in withdrawn' => Sayers(v)' = {}
    <3>1. CASE v \in withdrawn
      BY <3>1, <2>1, <2>2
    <3>2. CASE v = w /\ i \notin revived
      <4>1. i \in Sayers(w)
        BY <3>2, <1>1, <1>4 DEF Sayers
      <4> QED
        BY <3>2, <4>1, <2>1, <2>2
    <3> QED
      BY <3>1, <3>2, <1>4
  <2>4. v \notin said' => \A j \in Who!Known' : people'[j].words[v] = "none"
    BY <2>2, <1>4, <1>8, <1>w
  <2> QED
    BY <2>1, <2>2, <2>3, <2>4
<1>11. Who!Heard
  BY DEF Who!Heard
<1> QED
  BY <1>7, <1>10, <1>11 DEF PeopleInv

LEMMA RetireKeeps ==
  ASSUME IdentityConstants, PeopleInv, NEW i \in PersonIds, Who!Retire(i)
  PROVE  PeopleInv' /\ Who!Heard /\ Who!AsSeen
<1>0. PeopleTypes /\ Once
  BY DEF PeopleInv
<1>1. /\ i \in Who!Owners /\ i \in Who!Known /\ i \in used /\ people[i] \in Persons
      /\ people[i].to = None
  <2>1. i \in Who!Owners
    BY DEF Who!Retire, Who!Change, Who!Active
  <2> QED
    BY <1>0, <2>1, PeopleAre
<1>2. PICK p : p = [people[i] EXCEPT !.retired = TRUE]
  OBVIOUS
<1>3. /\ p \in Persons /\ p.emails = people[i].emails /\ p.to = None /\ p.retired
      /\ p.words = people[i].words
  BY <1>1, <1>2 DEF Persons
<1>4. /\ people' = [people EXCEPT ![i].retired = TRUE] /\ Who!Outdates
      /\ used' = used /\ said' = said /\ withdrawn' = withdrawn
      /\ UNCHANGED <<suppressed, mentioned, purged, revived>>
  BY Zenon DEF Who!Retire, Who!Save, Who!history
<1>5. people' = [people EXCEPT ![i] = p] /\ used' = used \cup {i}
  BY <1>0, <1>1, <1>2, <1>4 DEF PeopleTypes
<1>6. withdrawn' \subseteq said' /\ said' \subseteq Words
  BY <1>0, <1>4 DEF PeopleTypes
<1>7. /\ PeopleTypes' /\ Previewed' /\ Redirected' /\ Who!OneEach' /\ Who!AsSeen
      /\ people'[i] = p /\ \A j \in PersonIds \ {i} : people'[j] = people[j]
      /\ Who!Owners' = Who!Owners \cup {i} /\ Who!Known' = Who!Known \cup {i}
      /\ Who!Owners \subseteq Who!Known /\ Who!Known \subseteq PersonIds
      /\ Who!Active' \ {i} = Who!Active \ {i} /\ (i \in Who!Active' <=> ~p.retired)
  BY <1>1, <1>3, <1>4, <1>5, <1>6, OneChanges
<1>8. \A j \in Who!Known' : j \in Who!Known /\ people'[j].words = people[j].words
  BY <1>1, <1>3, <1>7
<1>10. Once'
  <2>1. \A w \in Words : \A j \in Who!Owners' \ revived' :
            people'[j].words[w] = "confirmed" => j \in Who!Owners \ revived /\ people[j].words[w] = "confirmed"
    BY <1>1, <1>4, <1>7, <1>8
  <2>2. \A w \in Words \ said : \A j \in Who!Known' : people'[j].words[w] = "none"
    BY <1>0, <1>8 DEF Once
  <2> QED
    BY <1>0, <1>4, <2>1, <2>2, OnceStays
<1>11. Who!Heard
  BY DEF Who!Heard
<1> QED
  BY <1>7, <1>10, <1>11 DEF PeopleInv

LEMMA RestoreKeeps ==
  ASSUME IdentityConstants, PeopleInv, NEW i \in PersonIds, Who!Restore(i)
  PROVE  PeopleInv' /\ Who!Heard /\ Who!AsSeen
<1>0. PeopleTypes /\ Once
  BY DEF PeopleInv
<1>1. /\ i \in Who!Owners /\ i \in Who!Known /\ i \in used /\ people[i] \in Persons
      /\ people[i].to = None
  <2>1. i \in Who!Owners
    BY DEF Who!Restore, Who!Active
  <2> QED
    BY <1>0, <2>1, PeopleAre
<1>2. PICK p : p = [people[i] EXCEPT !.retired = FALSE]
  OBVIOUS
<1>3. /\ p \in Persons /\ p.emails = people[i].emails /\ p.to = None /\ ~p.retired
      /\ p.words = people[i].words
  BY <1>1, <1>2 DEF Persons
<1>4. /\ people' = [people EXCEPT ![i].retired = FALSE] /\ Who!Outdates
      /\ used' = used /\ said' = said /\ withdrawn' = withdrawn
      /\ UNCHANGED <<suppressed, mentioned, purged, revived>>
  BY Zenon DEF Who!Restore, Who!Save, Who!history
<1>5. people' = [people EXCEPT ![i] = p] /\ used' = used \cup {i}
  BY <1>0, <1>1, <1>2, <1>4 DEF PeopleTypes
<1>6. withdrawn' \subseteq said' /\ said' \subseteq Words
  BY <1>0, <1>4 DEF PeopleTypes
<1>7. /\ PeopleTypes' /\ Previewed' /\ Redirected' /\ Who!OneEach' /\ Who!AsSeen
      /\ people'[i] = p /\ \A j \in PersonIds \ {i} : people'[j] = people[j]
      /\ Who!Owners' = Who!Owners \cup {i} /\ Who!Known' = Who!Known \cup {i}
      /\ Who!Owners \subseteq Who!Known /\ Who!Known \subseteq PersonIds
      /\ Who!Active' \ {i} = Who!Active \ {i} /\ (i \in Who!Active' <=> ~p.retired)
  BY <1>1, <1>3, <1>4, <1>5, <1>6, OneChanges
<1>8. \A j \in Who!Known' : j \in Who!Known /\ people'[j].words = people[j].words
  BY <1>1, <1>3, <1>7
<1>10. Once'
  <2>1. \A w \in Words : \A j \in Who!Owners' \ revived' :
            people'[j].words[w] = "confirmed" => j \in Who!Owners \ revived /\ people[j].words[w] = "confirmed"
    BY <1>1, <1>4, <1>7, <1>8
  <2>2. \A w \in Words \ said : \A j \in Who!Known' : people'[j].words[w] = "none"
    BY <1>0, <1>8 DEF Once
  <2> QED
    BY <1>0, <1>4, <2>1, <2>2, OnceStays
<1>11. Who!Heard
  <2>1. \A j \in Who!Active : j \in Who!Active' /\ j \in Who!Known
    BY <1>1, <1>3, <1>7 DEF Who!Active
  <2>2. \A w \in Words : \A j \in Who!Active : people[j].words[w] = "confirmed" => people'[j].words[w] = "confirmed"
    BY <2>1, <1>7, <1>8
  <2> QED
    BY <2>1, <2>2, StillHeard
<1> QED
  BY <1>7, <1>10, <1>11 DEF PeopleInv

LEMMA PreviewKeeps ==
  ASSUME IdentityConstants, PeopleInv, NEW i \in PersonIds, Who!Preview(i)
  PROVE  PeopleInv' /\ Who!Heard /\ Who!AsSeen
<1>0. PeopleTypes /\ Previewed /\ Redirected /\ Once /\ Who!OneEach
  BY DEF PeopleInv
<1>1. /\ i \in Who!Active /\ i \in Who!Owners /\ i \in Who!Known /\ i \in used /\ people[i] \in Persons
      /\ people[i].emails \in SUBSET Addresses
  BY <1>0, PeopleAre DEF Who!Preview, Who!Change, Who!Active
<1>2. UNCHANGED <<people, suppressed, mentioned, used, said, purged, withdrawn, revived>>
  BY DEF Who!Preview, Who!history
<1>3. /\ held' \in Previews /\ held'.current /\ held'.saw = people /\ held'.of = i
      /\ held'.into = None => held'.emails \subseteq people[i].emails /\ \A w \in held'.words : people[i].words[w] # "none"
      /\ held'.into # None => held'.into \in Who!Active \ {i}
  <2>1. CASE \E j \in Who!Active \ {i} : held' = [into |-> j, of |-> i, emails |-> {}, words |-> {},
                                               current |-> TRUE, saw |-> people]
    <3>1. PICK j \in Who!Active \ {i} : held' = [into |-> j, of |-> i, emails |-> {}, words |-> {},
                                               current |-> TRUE, saw |-> people]
      BY <2>1
    <3>2. j \in PersonIds /\ j # None
      BY <1>0, PeopleAre DEF IdentityConstants
    <3> QED
      BY <3>1, <3>2, <1>0 DEF Previews, PeopleTypes
  <2>2. CASE \E e \in SUBSET people[i].emails : \E words \in SUBSET {w \in Words : people[i].words[w] # "none"} :
               held' = [into |-> None, of |-> i, emails |-> e, words |-> words, current |-> TRUE, saw |-> people]
    <3>1. PICK e \in SUBSET people[i].emails : \E words \in SUBSET {w \in Words : people[i].words[w] # "none"} :
               held' = [into |-> None, of |-> i, emails |-> e, words |-> words, current |-> TRUE, saw |-> people]
      BY <2>2
    <3>2. PICK words \in SUBSET {w \in Words : people[i].words[w] # "none"} :
               held' = [into |-> None, of |-> i, emails |-> e, words |-> words, current |-> TRUE, saw |-> people]
      BY <3>1
    <3>3. e \in SUBSET Addresses /\ words \in SUBSET Words /\ \A w \in words : people[i].words[w] # "none"
      BY <1>1
    <3> QED
      BY <3>1, <3>2, <3>3, <1>0 DEF Previews, PeopleTypes
  <2> QED
    BY <2>1, <2>2 DEF Who!Preview
<1>4. Who!Known' = Who!Known /\ Who!Owners' = Who!Owners /\ Who!Active' = Who!Active
  BY <1>2 DEF Who!Known, Who!Owners, Who!Active
<1>5. Previewed'
  BY <1>1, <1>2, <1>3, <1>4 DEF Previewed
<1>6. PeopleTypes' /\ Redirected'
  BY <1>0, <1>2, <1>4 DEF PeopleTypes, Redirected
<1>7. Once' /\ Who!OneEach'
  BY <1>0, <1>2, <1>4 DEF Once, Sayers, Who!OneEach
<1>8. Who!Heard
  BY <1>2, <1>4, StillHeard
<1>9. Who!AsSeen
  BY <1>3 DEF Who!AsSeen, IdentityConstants
<1> QED
  BY <1>5, <1>6, <1>7, <1>8, <1>9 DEF PeopleInv

LEMMA NotesChangeKeeps ==
  ASSUME IdentityConstants, PeopleInv, Who!NotesChange
  PROVE  PeopleInv' /\ Who!Heard /\ Who!AsSeen
<1>0. PeopleTypes /\ Previewed /\ Redirected /\ Once /\ Who!OneEach
  BY DEF PeopleInv
<1>2. UNCHANGED <<people, suppressed, held, used, said, purged, withdrawn, revived>> /\ mentioned' \subseteq Addresses
  BY DEF Who!NotesChange, Who!history
<1>4. Who!Known' = Who!Known /\ Who!Owners' = Who!Owners /\ Who!Active' = Who!Active
  BY <1>2 DEF Who!Known, Who!Owners, Who!Active
<1>6. PeopleTypes' /\ Redirected' /\ Previewed'
  BY <1>0, <1>2, <1>4 DEF PeopleTypes, Redirected, Previewed
<1>7. Once' /\ Who!OneEach'
  BY <1>0, <1>2, <1>4 DEF Once, Sayers, Who!OneEach
<1>8. Who!Heard
  BY <1>2, <1>4, StillHeard
<1>9. Who!AsSeen
  BY <1>2 DEF Who!AsSeen
<1> QED
  BY <1>6, <1>7, <1>8, <1>9 DEF PeopleInv

\* What one says of a fact when another joins.
LEMMA Joining ==
  ASSUME NEW mine \in [Words -> {"none", "confirmed", "withdrawn"}],
         NEW others \in [Words -> {"none", "confirmed", "withdrawn"}]
  PROVE  /\ Who!Joined(mine, others) \in [Words -> {"none", "confirmed", "withdrawn"}]
         /\ \A w \in Words : /\ Who!Joined(mine, others)[w] = "confirmed" <=> mine[w] = "confirmed" \/ others[w] = "confirmed"
                             /\ mine[w] = "none" /\ others[w] = "none" => Who!Joined(mine, others)[w] = "none"
BY DEF Who!Joined, Who!Join

LEMMA MergeKeeps ==
  ASSUME IdentityConstants, PeopleInv, Who!Merge
  PROVE  PeopleInv' /\ Who!Heard /\ Who!AsSeen
<1>0. PeopleTypes /\ Previewed /\ Redirected /\ Once /\ Who!OneEach
  BY DEF PeopleInv
<1>1. PICK i, j : i = held.of /\ j = held.into
  OBVIOUS
<1>2. held # None /\ held.current /\ held.saw = people /\ j # None
  BY <1>0, <1>1 DEF Who!Merge, Who!Valid, Who!Unchanged, Previewed
<1>3. i \in Who!Active /\ j \in Who!Active /\ i # j
  BY <1>0, <1>1, <1>2 DEF Previewed
<1>4. /\ i \in Who!Owners /\ i \in Who!Known /\ i \in PersonIds /\ i \in used /\ people[i] \in Persons
      /\ j \in Who!Owners /\ j \in Who!Known /\ j \in PersonIds /\ j \in used /\ people[j] \in Persons
      /\ people[i].to = None /\ people[j].to = None /\ ~people[j].retired
      /\ people[i].words \in [Words -> {"none", "confirmed", "withdrawn"}]
      /\ people[j].words \in [Words -> {"none", "confirmed", "withdrawn"}]
      /\ people[i].emails \in SUBSET Addresses /\ people[j].emails \in SUBSET Addresses
  BY <1>0, <1>3, PeopleAre DEF Who!Active
<1>5. PICK both : both = Who!Joined(people[j].words, people[i].words)
  OBVIOUS
<1>6. /\ both \in [Words -> {"none", "confirmed", "withdrawn"}]
      /\ \A w \in Words : /\ both[w] = "confirmed" <=> people[j].words[w] = "confirmed" \/ people[i].words[w] = "confirmed"
                          /\ people[j].words[w] = "none" /\ people[i].words[w] = "none" => both[w] = "none"
  BY <1>4, <1>5, Joining
<1>7. PICK b : b = [people[j] EXCEPT !.words = both, !.emails = @ \cup people[i].emails]
  OBVIOUS
<1>8. PICK a : a = [people[i] EXCEPT !.to = j]
  OBVIOUS
<1>9. /\ a \in Persons /\ a.to = j /\ a.emails = people[i].emails /\ a.words = people[i].words
      /\ b \in Persons /\ b.to = None /\ b.emails = people[i].emails \cup people[j].emails /\ b.words = both
      /\ ~b.retired
  BY <1>4, <1>6, <1>7, <1>8 DEF Persons
<1>10. /\ people' = [people EXCEPT ![j].words = both, ![j].emails = @ \cup people[i].emails, ![i].to = j]
       /\ revived' = (IF i \in revived THEN revived \cup {j} ELSE revived)
       /\ held' = None /\ UNCHANGED <<suppressed, mentioned, used, said, purged, withdrawn>>
  BY <1>1, <1>5, Zenon DEF Who!Merge, Who!Save, Who!Inherits
<1>11. /\ people' \in [PersonIds -> Persons \cup {None}]
       /\ people'[i] = a /\ people'[j] = b /\ \A k \in PersonIds \ {i, j} : people'[k] = people[k]
  <2>1. people \in [PersonIds -> Persons \cup {None}]
    BY <1>0 DEF PeopleTypes
  <2>2. \A k \in PersonIds : people'[k] = IF k = i THEN a ELSE IF k = j THEN b ELSE people[k]
    BY <2>1, <1>3, <1>4, <1>7, <1>8, <1>10
  <2>3. DOMAIN people' = PersonIds /\ people' = [k \in PersonIds |-> people'[k]]
    BY <2>1, <1>10
  <2>4. \A k \in PersonIds : people'[k] \in Persons \cup {None}
    BY <2>1, <2>2, <1>9
  <2>5. people' \in [PersonIds -> Persons \cup {None}]
    BY <2>3, <2>4
  <2> QED
    BY <2>2, <2>5, <1>3, <1>4
<1>12. a # None /\ b # None
  BY <1>9 DEF IdentityConstants
<1>13. Who!Known' = Who!Known /\ Who!Owners' = Who!Owners \ {i}
  <2>1. \A k \in PersonIds : people'[k] # None <=> people[k] # None
    BY <1>4, <1>11, <1>12 DEF Who!Known
  <2>2. Who!Known' = Who!Known
    BY <2>1 DEF Who!Known
  <2>3. \A k \in Who!Known : people'[k].to = None <=> k # i /\ people[k].to = None
    BY <1>4, <1>9, <1>11 DEF Who!Known, IdentityConstants
  <2> QED
    BY <2>2, <2>3 DEF Who!Owners
<1>14. PeopleTypes'
  BY <1>0, <1>4, <1>10, <1>11, <1>13 DEF PeopleTypes
<1>15. Previewed' /\ Who!AsSeen
  BY <1>2, <1>10 DEF Previewed, Who!AsSeen
<1>16. Redirected'
  <2>1. \A k \in Who!Known : people[k].to \in Who!Known \cup {None} /\ k \in PersonIds
    BY <1>0 DEF Redirected, Who!Known
  <2>2. \A k \in Who!Known' : \/ people'[k].to = None
                              \/ people'[k].to \in Who!Owners'
                              \/ k \in Who!Known /\ people'[k].to = people[k].to /\ people'[k].to \in Who!Known'
    BY <2>1, <1>3, <1>4, <1>9, <1>11, <1>13
  <2> QED
    BY <1>0, <2>2, RedirectedStays
<1>17. /\ j \notin revived' => i \notin revived /\ j \notin revived
       /\ \A k \in Who!Owners' \ revived' : k \in Who!Owners \ revived /\ k # i
       /\ \A k \in Who!Owners \ {i, j} : people'[k] = people[k]
  BY <1>10, <1>11, <1>13 DEF Who!Owners, Who!Known
<1>18. Who!OneEach'
  <2>1. ASSUME NEW k \in Who!Owners \ revived, k # j, k # i, j \notin revived'
        PROVE  people'[k].emails \cap people'[j].emails = {}
    <3>1. people[k].emails \cap people[j].emails = {} /\ people[k].emails \cap people[i].emails = {}
      BY <2>1, <1>0, <1>4, <1>17 DEF Who!OneEach
    <3> QED
      BY <2>1, <3>1, <1>9, <1>11, <1>17
  <2>2. ASSUME NEW k \in Who!Owners' \ revived', NEW l \in Who!Owners' \ revived', k # l
        PROVE  people'[k].emails \cap people'[l].emails = {}
    <3>1. CASE k = j
      BY <3>1, <2>1, <2>2, <1>17
    <3>2. CASE l = j
      BY <3>2, <2>1, <2>2, <1>17
    <3>3. CASE k # j /\ l # j
      BY <3>3, <2>2, <1>0, <1>17 DEF Who!OneEach
    <3> QED
      BY <3>1, <3>2, <3>3
  <2> QED
    BY <2>2 DEF Who!OneEach
<1>19. Once'
  <2> SUFFICES ASSUME NEW w \in Words
               PROVE  /\ \A k, l \in Sayers(w)' : k = l
                      /\ w \in withdrawn' => Sayers(w)' = {}
                      /\ w \notin said' => \A k \in Who!Known' : people'[k].words[w] = "none"
    BY DEF Once
  <2>1. /\ \A k, l \in Sayers(w) : k = l
        /\ w \in withdrawn => Sayers(w) = {}
        /\ w \notin said => \A k \in Who!Known : people[k].words[w] = "none"
    BY <1>0 DEF Once
  <2>2. \A k \in Sayers(w)' : k # j => k \in Sayers(w) /\ k # i
    BY <1>11, <1>17 DEF Sayers
  <2>3. j \in Sayers(w)' => j \in Sayers(w) \/ i \in Sayers(w)
    BY <1>4, <1>6, <1>9, <1>11, <1>17 DEF Sayers
  <2>4. w \notin said' => \A k \in Who!Known' : people'[k].words[w] = "none"
    <3> SUFFICES ASSUME w \notin said, NEW k \in Who!Known PROVE people'[k].words[w] = "none"
      BY <1>10, <1>13
    <3>1. people[k].words[w] = "none" /\ people[i].words[w] = "none" /\ people[j].words[w] = "none" /\ k \in PersonIds
      BY <2>1, <1>4 DEF Who!Known
    <3> QED
      BY <3>1, <1>6, <1>9, <1>11
  <2> QED
    BY <2>1, <2>2, <2>3, <2>4, <1>10
<1>20. Who!Heard
  <2>1. j \in Who!Active' /\ \A k \in Who!Active \ {i, j} : k \in Who!Active' /\ people'[k] = people[k]
    BY <1>3, <1>4, <1>9, <1>11, <1>13, <1>17 DEF Who!Active
  <2>2. ASSUME NEW w \in Words, NEW k \in Who!Active, people[k].words[w] = "confirmed"
        PROVE  \E l \in Who!Active' : people'[l].words[w] = "confirmed"
    <3>1. CASE k \in {i, j}
      <4>1. people'[j].words[w] = "confirmed"
        BY <2>2, <3>1, <1>6, <1>9, <1>11
      <4> QED
        BY <2>1, <4>1
    <3>2. CASE k \notin {i, j}
      BY <3>2, <2>1, <2>2
    <3> QED
      BY <3>1, <3>2
  <2> QED
    BY <2>2, StillHeard
<1> QED
  BY <1>14, <1>15, <1>16, <1>18, <1>19, <1>20 DEF PeopleInv

LEMMA SplitKeeps ==
  ASSUME IdentityConstants, PeopleInv, Who!Split
  PROVE  PeopleInv' /\ Who!Heard /\ Who!AsSeen
<1>0. PeopleTypes /\ Previewed /\ Redirected /\ Once /\ Who!OneEach
  BY DEF PeopleInv
<1>1. PICK i, e, words : i = held.of /\ e = held.emails /\ words = held.words
  OBVIOUS
<1>2. held # None /\ held.current /\ held.saw = people /\ held.into = None
  BY <1>0, <1>1 DEF Who!Split, Who!Valid, Who!Unchanged, Previewed
<1>3. i \in Who!Active /\ e \subseteq people[i].emails /\ words \in SUBSET Words /\ \A w \in words : people[i].words[w] # "none"
  BY <1>0, <1>1, <1>2 DEF Previewed, Previews
<1>4. /\ i \in Who!Owners /\ i \in Who!Known /\ i \in PersonIds /\ i \in used /\ people[i] \in Persons
      /\ people[i].to = None /\ ~people[i].retired
      /\ people[i].words \in [Words -> {"none", "confirmed", "withdrawn"}]
      /\ people[i].emails \in SUBSET Addresses /\ e \in SUBSET Addresses
  BY <1>0, <1>3, PeopleAre DEF Who!Active
<1>5. PICK f \in PersonIds \ used : f = Who!Fresh(0) /\ f \notin Who!Known
  BY <1>0, FirstFresh DEF Who!Split
<1>6. PICK mine : mine = [w \in Words |-> IF w \in words THEN "withdrawn" ELSE people[i].words[w]]
  OBVIOUS
<1>7. PICK theirs : theirs = [w \in Words |-> IF w \in words THEN people[i].words[w] ELSE "none"]
  OBVIOUS
<1>8. PICK a : a = [people[i] EXCEPT !.words = mine, !.emails = @ \ e]
  OBVIOUS
<1>9. PICK p : p = [Who!Person(e, FALSE) EXCEPT !.words = theirs]
  OBVIOUS
<1>10. /\ mine \in [Words -> {"none", "confirmed", "withdrawn"}]
       /\ theirs \in [Words -> {"none", "confirmed", "withdrawn"}]
  BY <1>4, <1>6, <1>7
<1>11. /\ a \in Persons /\ a.to = None /\ a.emails = people[i].emails \ e /\ a.words = mine /\ ~a.retired
  BY <1>4, <1>8, <1>10 DEF Persons
<1>12. p \in Persons /\ p.to = None /\ p.emails = e /\ p.words = theirs /\ ~p.retired
  BY <1>4, <1>9, <1>10 DEF Persons, Who!Person
<1>13. /\ people' = [people EXCEPT ![f] = p, ![i].emails = @ \ e,
                                   ![i].words = [w \in Words |-> IF w \in words THEN "withdrawn" ELSE @[w]]]
       /\ revived' = (IF i \in revived THEN revived \cup {f} ELSE revived) /\ used' = used \cup {f}
       /\ held' = None /\ UNCHANGED <<suppressed, mentioned, said, purged, withdrawn>>
  BY <1>1, <1>5, <1>7, <1>9, Zenon DEF Who!Split, Who!Save, Who!Inherits
<1>14. i # f
  BY <1>4, <1>5
<1>15. /\ people' \in [PersonIds -> Persons \cup {None}]
       /\ people'[i] = a /\ people'[f] = p /\ \A k \in PersonIds \ {i, f} : people'[k] = people[k]
  <2>1. people \in [PersonIds -> Persons \cup {None}]
    BY <1>0 DEF PeopleTypes
  <2>2. \A k \in PersonIds : people'[k] = IF k = i THEN a ELSE IF k = f THEN p ELSE people[k]
    BY <2>1, <1>4, <1>5, <1>6, <1>8, <1>13, <1>14
  <2>3. DOMAIN people' = PersonIds /\ people' = [k \in PersonIds |-> people'[k]]
    BY <2>1, <1>13
  <2>4. \A k \in PersonIds : people'[k] \in Persons \cup {None}
    BY <2>1, <2>2, <1>11, <1>12
  <2>5. people' \in [PersonIds -> Persons \cup {None}]
    BY <2>3, <2>4
  <2> QED
    BY <2>2, <2>5, <1>4, <1>14
<1>16. a # None /\ p # None
  BY <1>11, <1>12 DEF IdentityConstants
<1>17. Who!Known' = Who!Known \cup {f} /\ Who!Owners' = Who!Owners \cup {f} /\ Who!Known \subseteq PersonIds /\ Who!Owners \subseteq Who!Known
  <2>1. \A k \in PersonIds : people'[k] # None <=> people[k] # None \/ k = f
    BY <1>4, <1>15, <1>16 DEF Who!Known
  <2>2. Who!Known' = Who!Known \cup {f}
    BY <2>1 DEF Who!Known
  <2>3. \A k \in Who!Known \cup {f} : people'[k].to = None <=> k = f \/ people[k].to = None
    BY <1>4, <1>11, <1>12, <1>15 DEF Who!Known
  <2> QED
    BY <2>2, <2>3, <1>5 DEF Who!Owners, Who!Known
<1>18. PeopleTypes'
  BY <1>0, <1>4, <1>13, <1>15, <1>17 DEF PeopleTypes
<1>19. Previewed' /\ Who!AsSeen
  BY <1>2, <1>13 DEF Previewed, Who!AsSeen
<1>20. Redirected'
  <2>1. \A k \in Who!Known : people[k].to \in Who!Known \cup {None} /\ k \in PersonIds
    BY <1>0 DEF Redirected, Who!Known
  <2>2. \A k \in Who!Known' : \/ people'[k].to = None
                              \/ people'[k].to \in Who!Owners'
                              \/ k \in Who!Known /\ people'[k].to = people[k].to /\ people'[k].to \in Who!Known'
    BY <2>1, <1>4, <1>11, <1>12, <1>15, <1>17
  <2> QED
    BY <1>0, <2>2, RedirectedStays
<1>21. /\ f \notin revived' => i \notin revived
       /\ \A k \in Who!Owners' \ revived' : k # f => k \in Who!Owners \ revived
       /\ \A k \in Who!Owners \ {i} : people'[k] = people[k] /\ k # f
  BY <1>5, <1>13, <1>15, <1>17
<1>22. Who!OneEach'
  <2>1. ASSUME NEW k \in Who!Owners \ revived, f \notin revived'
        PROVE  people'[k].emails \cap people'[f].emails = {}
    <3>1. CASE k = i
      BY <3>1, <1>11, <1>12, <1>15
    <3>2. CASE k # i
      <4>1. people[k].emails \cap people[i].emails = {}
        BY <3>2, <2>1, <1>0, <1>4, <1>21 DEF Who!OneEach
      <4> QED
        BY <3>2, <4>1, <1>3, <1>12, <1>15, <1>21
    <3> QED
      BY <3>1, <3>2
  <2>2. \A k \in Who!Owners : people'[k].emails \subseteq people[k].emails
    BY <1>11, <1>15, <1>21
  <2>3. ASSUME NEW k \in Who!Owners' \ revived', NEW l \in Who!Owners' \ revived', k # l
        PROVE  people'[k].emails \cap people'[l].emails = {}
    <3>1. CASE k = f
      BY <3>1, <2>1, <2>3, <1>21
    <3>2. CASE l = f
      BY <3>2, <2>1, <2>3, <1>21
    <3>3. CASE k # f /\ l # f
      <4>1. k \in Who!Owners \ revived /\ l \in Who!Owners \ revived
        BY <3>3, <2>3, <1>21
      <4>2. people[k].emails \cap people[l].emails = {}
        BY <4>1, <2>3, <1>0 DEF Who!OneEach
      <4> QED
        BY <4>1, <4>2, <2>2
    <3> QED
      BY <3>1, <3>2, <3>3
  <2> QED
    BY <2>3 DEF Who!OneEach
<1>23. Once'
  <2> SUFFICES ASSUME NEW w \in Words
               PROVE  /\ \A k, l \in Sayers(w)' : k = l
                      /\ w \in withdrawn' => Sayers(w)' = {}
                      /\ w \notin said' => \A k \in Who!Known' : people'[k].words[w] = "none"
    BY DEF Once
  <2>1. /\ \A k, l \in Sayers(w) : k = l
        /\ w \in withdrawn => Sayers(w) = {}
        /\ w \notin said => \A k \in Who!Known : people[k].words[w] = "none"
    BY <1>0 DEF Once
  <2>2. \A k \in Sayers(w)' : k # f => k \in Sayers(w)
    BY <1>6, <1>11, <1>15, <1>21 DEF Sayers
  <2>3. f \in Sayers(w)' => i \in Sayers(w) /\ i \notin Sayers(w)'
    BY <1>4, <1>6, <1>7, <1>11, <1>12, <1>15, <1>21 DEF Sayers
  <2>4. w \notin said' => \A k \in Who!Known' : people'[k].words[w] = "none"
    <3> SUFFICES ASSUME w \notin said, NEW k \in Who!Known \cup {f} PROVE people'[k].words[w] = "none"
      BY <1>13, <1>17
    <3>1. people[i].words[w] = "none" /\ w \notin words /\ (k # f => people[k].words[w] = "none" /\ k \in PersonIds)
      BY <2>1, <1>3, <1>4, <1>17
    <3> QED
      BY <3>1, <1>6, <1>7, <1>11, <1>12, <1>15
  <2> QED
    BY <2>1, <2>2, <2>3, <2>4, <1>13
<1>24. Who!Heard
  <2>1. /\ i \in Who!Active' /\ f \in Who!Active'
        /\ \A k \in Who!Active \ {i} : k \in Who!Active' /\ people'[k] = people[k]
    BY <1>4, <1>11, <1>12, <1>15, <1>17, <1>21 DEF Who!Active
  <2>2. ASSUME NEW w \in Words, NEW k \in Who!Active, people[k].words[w] = "confirmed"
        PROVE  \E l \in Who!Active' : people'[l].words[w] = "confirmed"
    <3>1. CASE k = i /\ w \in words
      <4>1. people'[f].words[w] = "confirmed"
        BY <2>2, <3>1, <1>7, <1>12, <1>15
      <4> QED
        BY <2>1, <4>1
    <3>2. CASE k = i /\ w \notin words
      <4>1. people'[i].words[w] = "confirmed"
        BY <2>2, <3>2, <1>6, <1>11, <1>15
      <4> QED
        BY <2>1, <4>1
    <3>3. CASE k # i
      BY <3>3, <2>1, <2>2
    <3> QED
      BY <3>1, <3>2, <3>3
  <2> QED
    BY <2>2, StillHeard
<1> QED
  BY <1>18, <1>19, <1>20, <1>22, <1>23, <1>24 DEF PeopleInv

LEMMA PurgeKeeps ==
  ASSUME IdentityConstants, PeopleInv, Who!Purge
  PROVE  PeopleInv' /\ Who!Heard /\ Who!AsSeen
<1>0. PeopleTypes /\ Previewed /\ Redirected /\ Once /\ Who!OneEach
  BY DEF PeopleInv
<1>p. PICK gone \in SUBSET Who!Owners : \E forgotten, released :
        /\ forgotten = UNION {people[i].emails : i \in gone} /\ released = Who!Released(gone)
        /\ people' = [i \in PersonIds |-> IF i \in gone THEN None
                                    ELSE IF i \in released THEN [people[i] EXCEPT !.to = None, !.retired = TRUE]
                                    ELSE people[i]]
        /\ suppressed' = suppressed \cup forgotten /\ purged' = purged \cup forgotten
        /\ revived' = revived \cup released /\ mentioned' \in {mentioned, {}}
        /\ Who!Outdates /\ UNCHANGED <<used, said, withdrawn>>
  <2>1. \E gone \in SUBSET ((Who!Owners \ Who!Active) \cup Who!Orphans) \ {{}} :
        /\ people' = [i \in PersonIds |-> IF i \in gone THEN None
                                    ELSE IF i \in Who!Released(gone) THEN [people[i] EXCEPT !.to = None, !.retired = TRUE]
                                    ELSE people[i]]
        /\ suppressed' = suppressed \cup UNION {people[i].emails : i \in gone}
        /\ purged' = purged \cup UNION {people[i].emails : i \in gone}
        /\ revived' = revived \cup Who!Released(gone)
        /\ mentioned' = IF gone \cap Who!Active = {} THEN mentioned ELSE {}
    BY Zenon DEF Who!Purge, Who!Save, Who!Left
  <2>2. PICK gone \in SUBSET ((Who!Owners \ Who!Active) \cup Who!Orphans) \ {{}} :
        /\ people' = [i \in PersonIds |-> IF i \in gone THEN None
                                    ELSE IF i \in Who!Released(gone) THEN [people[i] EXCEPT !.to = None, !.retired = TRUE]
                                    ELSE people[i]]
        /\ suppressed' = suppressed \cup UNION {people[i].emails : i \in gone}
        /\ purged' = purged \cup UNION {people[i].emails : i \in gone}
        /\ revived' = revived \cup Who!Released(gone)
        /\ mentioned' = IF gone \cap Who!Active = {} THEN mentioned ELSE {}
    BY <2>1
  <2>3. gone \in SUBSET Who!Owners
    BY DEF Who!Orphans
  <2>4. Who!Outdates /\ UNCHANGED <<used, said, withdrawn>>
    BY Zenon DEF Who!Purge
  <2>5. mentioned' \in {mentioned, {}}
    BY <2>2
  <2> QED
    BY <2>2, <2>3, <2>4, <2>5, Zenon
<1>1. PICK forgotten, released :
        /\ forgotten = UNION {people[i].emails : i \in gone} /\ released = Who!Released(gone)
        /\ people' = [i \in PersonIds |-> IF i \in gone THEN None
                                    ELSE IF i \in released THEN [people[i] EXCEPT !.to = None, !.retired = TRUE]
                                    ELSE people[i]]
        /\ suppressed' = suppressed \cup forgotten /\ purged' = purged \cup forgotten
        /\ revived' = revived \cup released /\ mentioned' \in {mentioned, {}}
        /\ Who!Outdates /\ UNCHANGED <<used, said, withdrawn>>
  BY <1>p
<1>2. /\ released = {i \in Who!Known \ gone : people[i].to \in gone}
      /\ \A i \in Who!Known : i \in PersonIds /\ people[i] \in Persons /\ people[i].emails \in SUBSET Addresses
      /\ Who!Owners \subseteq Who!Known /\ gone \subseteq Who!Known /\ released \subseteq Who!Known
      /\ gone \cap released = {}
  BY <1>0, <1>1, PeopleAre DEF Who!Released
<1>3. \A i \in released : /\ people'[i] \in Persons /\ people'[i].to = None
                          /\ people'[i].emails = people[i].emails /\ people'[i].words = people[i].words
  <2> TAKE i \in released
  <2>1. people'[i] = [people[i] EXCEPT !.to = None, !.retired = TRUE] /\ people[i] \in Persons
    BY <1>1, <1>2
  <2> QED
    BY <2>1 DEF Persons
<1>4. /\ \A i \in gone : people'[i] = None
      /\ \A i \in PersonIds \ (gone \cup released) : people'[i] = people[i]
  BY <1>1, <1>2
<1>5. people' \in [PersonIds -> Persons \cup {None}]
  <2>1. \A i \in PersonIds : people'[i] \in Persons \cup {None}
    BY <1>0, <1>3, <1>4 DEF PeopleTypes
  <2>2. DOMAIN people' = PersonIds /\ people' = [i \in PersonIds |-> people'[i]]
    BY <1>1
  <2> QED
    BY <2>1, <2>2
<1>6. Who!Known' = Who!Known \ gone
  <2>1. \A i \in released : people'[i] # None /\ people[i] # None
    BY <1>2, <1>3 DEF IdentityConstants
  <2>2. \A i \in PersonIds : people'[i] # None <=> people[i] # None /\ i \notin gone
    BY <1>4, <2>1, <1>2
  <2> QED
    BY <2>2 DEF Who!Known
<1>7. Who!Owners' = (Who!Owners \ gone) \cup released
  <2>1. \A i \in Who!Known \ gone : people'[i].to = None <=> people[i].to = None \/ i \in released
    BY <1>2, <1>3, <1>4
  <2> QED
    BY <2>1, <1>2, <1>6 DEF Who!Owners
<1>8. PeopleTypes'
  <2>1. forgotten \subseteq Addresses
    BY <1>1, <1>2
  <2>2. Who!Known' \subseteq used' /\ revived' \subseteq used' /\ purged' \subseteq suppressed'
    BY <1>0, <1>1, <1>2, <1>6 DEF PeopleTypes
  <2>3. mentioned' \subseteq Addresses /\ suppressed' \subseteq Addresses
    BY <2>1, <1>0, <1>1 DEF PeopleTypes
  <2> QED
    BY <2>2, <2>3, <1>0, <1>1, <1>5 DEF PeopleTypes
<1>9. Previewed' /\ Who!AsSeen
  BY <1>0, <1>1, Outdated, SavesKeepPreviews
<1>10. Redirected'
  <2>1. \A k \in Who!Known : people[k].to \in Who!Known \cup {None}
    BY <1>0 DEF Redirected
  <2>2. \A k \in Who!Known' : \/ people'[k].to = None
                              \/ people'[k].to \in Who!Owners'
                              \/ k \in Who!Known /\ people'[k].to = people[k].to /\ people'[k].to \in Who!Known'
    BY <2>1, <1>2, <1>3, <1>4, <1>6
  <2> QED
    BY <1>0, <2>2, RedirectedStays
<1>11. \A i \in Who!Owners' \ revived' : i \in Who!Owners \ revived /\ people'[i] = people[i]
  BY <1>1, <1>2, <1>4, <1>7
<1>12. Who!OneEach'
  BY <1>0, <1>11, OneEachStays
<1>13. Once'
  <2>1. \A w \in Words \ said : \A j \in Who!Known' : people'[j].words[w] = "none"
    BY <1>0, <1>2, <1>3, <1>4, <1>6 DEF Once
  <2>2. \A w \in Words : \A i \in Who!Owners' \ revived' :
            people'[i].words[w] = "confirmed" => i \in Who!Owners \ revived /\ people[i].words[w] = "confirmed"
    BY <1>11
  <2> QED
    BY <1>0, <1>1, <2>1, <2>2, OnceStays
<1>14. Who!Heard
  BY DEF Who!Heard
<1> QED
  BY <1>8, <1>9, <1>10, <1>12, <1>13, <1>14 DEF PeopleInv

-----------------------------------------------------------------------------
(* Redirects lead to a dossier: a walk longer than there are identities would meet one twice *)

Walked(x) == IF x \in Who!Known \ Who!Owners THEN people[x].to ELSE x

LEMMA WalkedStays ==
  ASSUME IdentityConstants, PeopleTypes, Redirected
  PROVE  \A x \in Who!Known : Walked(x) \in Who!Known
BY DEF Walked, Redirected, Who!Owners

\* There is a walk of any length from whoever is in the catalog.
LEMMA WalkExists ==
  ASSUME IdentityConstants, PeopleTypes, Redirected, NEW i \in Who!Known, NEW N \in Nat
  PROVE  \E f \in [0 .. N -> Who!Known] : f[0] = i /\ \A n \in 1 .. N : f[n] = Walked(f[n - 1])
<1> DEFINE Good(m) == \E f \in [0 .. m -> Who!Known] : f[0] = i /\ \A n \in 1 .. m : f[n] = Walked(f[n - 1])
           Bad == {m \in 0 .. N : ~Good(m)}
<1>1. SUFFICES ASSUME ~Good(N) PROVE FALSE
  OBVIOUS
<1>2. N \in Bad
  BY <1>1
<1>3. PICK m \in Bad : \A k \in Bad : m <= k
  <2>1. Bad \subseteq Nat /\ Bad # {}
    <3> HIDE DEF Good
    <3> QED
      BY <1>2
  <2> HIDE DEF Bad
  <2> QED
    BY <2>1, FirstOfNat
<1>4. Good(0)
  <2> DEFINE f == [n \in 0 .. 0 |-> i]
  <2>1. f \in [0 .. 0 -> Who!Known] /\ f[0] = i /\ \A n \in 1 .. 0 : f[n] = Walked(f[n - 1])
    BY SMT
  <2> QED
    BY <2>1
<1>5. m # 0 /\ m \in 0 .. N /\ ~Good(m)
  <2> HIDE DEF Good
  <2> QED
    BY <1>4
<1>6. m - 1 \in 0 .. N /\ m - 1 \notin Bad /\ m \in Nat /\ m - 1 \in Nat
  <2> HIDE DEF Good
  <2>1. m - 1 \in 0 .. N /\ m \in Nat /\ m - 1 \in Nat /\ ~(m <= m - 1)
    BY <1>5
  <2> HIDE DEF Bad
  <2> QED
    BY <2>1, <1>3
<1>7. Good(m - 1)
  <2> HIDE DEF Good
  <2> QED
    BY <1>6
<1>8. PICK f \in [0 .. m - 1 -> Who!Known] : f[0] = i /\ \A n \in 1 .. m - 1 : f[n] = Walked(f[n - 1])
  BY <1>7
<1>9. PICK next \in Who!Known : next = Walked(f[m - 1])
  <2>1. f[m - 1] \in Who!Known
    BY <1>6, <1>8
  <2> QED
    BY <2>1, WalkedStays
<1> DEFINE g == [n \in 0 .. m |-> IF n = m THEN next ELSE f[n]]
<1>10. /\ g \in [0 .. m -> Who!Known] /\ g[0] = i
       /\ \A n \in 1 .. m : n - 1 \in 0 .. m /\ g[n - 1] = f[n - 1] /\ (n = m \/ n \in 1 .. m - 1)
       /\ g[m] = next /\ \A n \in 1 .. m - 1 : g[n] = f[n]
  BY <1>5, <1>6, <1>8
<1>11. \A n \in 1 .. m : g[n] = Walked(g[n - 1])
  <2> HIDE DEF g
  <2> TAKE n \in 1 .. m
  <2>1. g[n - 1] = f[n - 1]
    BY <1>10
  <2>2. g[n] = Walked(f[n - 1])
    BY <1>8, <1>9, <1>10
  <2> QED
    BY <2>1, <2>2
<1>12. Good(m)
  <2> HIDE DEF g
  <2> QED
    BY <1>10, <1>11
<1> QED
  BY <1>5, <1>12

\* So Follow is the end of such a walk.
LEMMA FollowIs ==
  ASSUME IdentityConstants, PeopleTypes, Redirected, NEW i \in Who!Known
  PROVE  \E f \in [0 .. LastPerson -> Who!Known] :
            /\ f[0] = i /\ \A n \in 1 .. LastPerson : f[n] = Walked(f[n - 1])
            /\ Who!Follow(i) = f[LastPerson]
<1>1. LastPerson \in Nat /\ Who!Cardinality(PersonIds) = LastPerson
  BY PeopleAre, CountsAlike DEF IdentityConstants
<1> DEFINE Is(at) == at = [n \in 0 .. LastPerson |-> IF n = 0 THEN i ELSE Walked(at[n - 1])]
           f == CHOOSE at : Is(at)
<1>2. \E at : Is(at)
  <2>1. PICK g \in [0 .. LastPerson -> Who!Known] : g[0] = i /\ \A n \in 1 .. LastPerson : g[n] = Walked(g[n - 1])
    BY <1>1, WalkExists
  <2>2. \A n \in 0 .. LastPerson : g[n] = IF n = 0 THEN i ELSE Walked(g[n - 1])
    BY <2>1, <1>1
  <2>3. g = [n \in 0 .. LastPerson |-> g[n]]
    BY <2>1
  <2>4. Is(g)
    BY <2>2, <2>3
  <2> HIDE DEF Is
  <2> QED
    BY <2>4
<1>3. Is(f)
  BY <1>2, Zenon
<1>4. Who!Follow(i) = f[LastPerson]
  BY <1>1, Zenon DEF Who!Follow, Walked
<1> HIDE DEF f
<1>5. f[0] = i /\ \A n \in 1 .. LastPerson : f[n] = Walked(f[n - 1])
  BY <1>1, <1>3
<1>6. \A n \in 0 .. LastPerson : f[n] \in Who!Known
  <2> DEFINE Bad == {n \in 0 .. LastPerson : f[n] \notin Who!Known}
  <2>1. SUFFICES ASSUME Bad # {} PROVE FALSE
    OBVIOUS
  <2>2. PICK n \in Bad : \A k \in Bad : n <= k
    <3>1. Bad \subseteq Nat
      OBVIOUS
    <3> HIDE DEF Bad
    <3> QED
      BY <2>1, <3>1, FirstOfNat
  <2>3. n # 0 /\ n - 1 \in 0 .. LastPerson /\ ~(n <= n - 1) /\ n \in 1 .. LastPerson
    BY <1>1, <1>5
  <2>4. f[n - 1] \in Who!Known
    BY <2>2, <2>3
  <2> QED
    BY <2>3, <2>4, <1>5, WalkedStays
<1>7. f \in [0 .. LastPerson -> Who!Known]
  BY <1>3, <1>6
<1> QED
  BY <1>4, <1>5, <1>7

LEMMA RedirectsLead ==
  ASSUME IdentityConstants, PeopleTypes, Redirected
  PROVE  Who!Leads
<1> SUFFICES ASSUME NEW i \in Who!Known PROVE Who!Follow(i) \in Who!Owners
  BY DEF Who!Leads
<1> DEFINE N == LastPerson
           Steps == 0 .. N
<1>1. N \in Nat
  BY DEF IdentityConstants
<1>2. PICK f \in [Steps -> Who!Known] : /\ f[0] = i /\ \A n \in 1 .. N : f[n] = Walked(f[n - 1])
                                        /\ Who!Follow(i) = f[N]
  BY FollowIs
<1>3. SUFFICES ASSUME f[N] \notin Who!Owners PROVE FALSE
  BY <1>2
\* Who has arrived stays: so nobody on the way has.
<1>4. \A n \in Steps : f[n] \in Who!Known \ Who!Owners
  <2> DEFINE Arrived == {n \in Nat : n \in Steps /\ f[N - n] \in Who!Owners}
  <2>1. SUFFICES ASSUME Arrived # {} PROVE FALSE
    <3>1. \A n \in Steps : N - n \in Nat /\ N - n \in Steps /\ N - (N - n) = n
      BY <1>1
    <3>2. \A n \in Steps : f[n] \in Who!Owners => N - n \in Arrived
      BY <3>1
    <3> HIDE DEF Arrived
    <3> QED
      BY <2>1, <3>2, <1>2
  <2>2. PICK n \in Arrived : \A k \in Arrived : n <= k
    <3>1. Arrived \subseteq Nat
      OBVIOUS
    <3> HIDE DEF Arrived
    <3> QED
      BY <2>1, <3>1, FirstOfNat
  <2>3. n # 0
    BY <1>1, <1>3
  <2>4. n - 1 \in Nat /\ n - 1 \in Steps /\ N - n \in Steps /\ N - (n - 1) \in 1 .. N /\ N - (n - 1) - 1 = N - n
        /\ ~(n <= n - 1)
    BY <1>1, <2>3
  <2>5. f[N - (n - 1)] = Walked(f[N - n]) /\ f[N - n] \in Who!Owners
    BY <1>2, <2>4
  <2>6. f[N - (n - 1)] \in Who!Owners
    BY <2>5 DEF Walked
  <2>7. n - 1 \in Arrived
    BY <2>4, <2>6
  <2> HIDE DEF Arrived
  <2> QED
    BY <2>2, <2>4, <2>7
\* One is met twice, and from there the way goes round.
<1>5. PICK m \in Steps : \E n \in Steps : m < n /\ f[m] = f[n]
  <2>1. SUFFICES ASSUME \A m, n \in Steps : m < n => f[m] # f[n] PROVE FALSE
    OBVIOUS
  <2>2. f \in Injection(Steps, PersonIds)
    <3>1. \A m, n \in Steps : m < n \/ n < m \/ m = n
      BY <1>1
    <3>2. \A m, n \in Steps : f[m] = f[n] => m = n
      BY <2>1, <3>1
    <3>3. f \in [Steps -> PersonIds]
      BY <1>2 DEF Who!Known
    <3> QED
      BY <3>2, <3>3 DEF Injection, IsInjective
  <2>3. IsFiniteSet(PersonIds) /\ Cardinality(PersonIds) = N /\ IsFiniteSet(Steps) /\ Cardinality(Steps) = N + 1
    BY <1>1, PeopleAre, FS_Interval
  <2>4. Cardinality(Steps) <= Cardinality(PersonIds)
    BY <2>2, <2>3, FS_Injection
  <2> QED
    BY <1>1, <2>3, <2>4
<1>6. PICK n \in Steps : m < n /\ f[m] = f[n]
  BY <1>5
<1> DEFINE S == {f[k] : k \in m .. n - 1}
<1>7. S \in SUBSET (Who!Known \ Who!Owners) /\ S # {}
  <2>1. m .. n - 1 \subseteq Steps /\ m \in m .. n - 1
    BY <1>1, <1>6
  <2> QED
    BY <2>1, <1>4
<1>8. \A k \in m .. n - 1 : people[f[k]].to \in S
  <2> TAKE k \in m .. n - 1
  <2>1. k \in Steps /\ k + 1 \in 1 .. N /\ (k + 1) - 1 = k /\ (k + 1 = n \/ k + 1 \in m .. n - 1) /\ m \in m .. n - 1
    BY <1>1, <1>6
  <2>2. people[f[k]].to = f[k + 1]
    BY <2>1, <1>2, <1>4 DEF Walked
  <2>3. f[k + 1] = f[m] \/ k + 1 \in m .. n - 1
    BY <2>1, <1>6
  <2> QED
    BY <2>1, <2>2, <2>3
<1>9. \A x \in S : people[x].to \in S
  BY <1>8
<1> HIDE DEF S
<1> QED
  BY <1>7, <1>9 DEF Redirected

-----------------------------------------------------------------------------
THEOREM PeopleStandAlways == Who!Spec => Who!PeopleStand
<1> USE ServicesAssumption
<1>1. Who!Init => PeopleInv
  BY PeopleBegin
<1>2. PeopleInv /\ [Who!Next]_(Who!vars) => PeopleInv' /\ [PeopleActs]_(Who!vars)
  <2> SUFFICES ASSUME PeopleInv, [Who!Next]_(Who!vars) PROVE PeopleInv' /\ [PeopleActs]_(Who!vars)
    OBVIOUS
  <2>1. Who!Forgets
    <3>1. CASE Who!Refresh
      BY <3>1, RefreshKeeps DEF PeopleActs
    <3>2. CASE ~Who!Refresh
      BY <3>2 DEF Who!Forgets
    <3> QED
      BY <3>1, <3>2
  <2>2. CASE Who!Refresh
    BY <2>2, RefreshKeeps
  <2>3. CASE Who!Merge
    BY <2>1, <2>3, MergeKeeps DEF PeopleActs
  <2>4. CASE Who!Split
    BY <2>1, <2>4, SplitKeeps DEF PeopleActs
  <2>5. CASE Who!Purge
    BY <2>1, <2>5, PurgeKeeps DEF PeopleActs
  <2>6. CASE Who!NotesChange
    BY <2>1, <2>6, NotesChangeKeeps DEF PeopleActs
  <2>7. ASSUME NEW e \in SUBSET Addresses, Who!Create(e) \/ \E i \in PersonIds : Who!Aliases(i, e)
        PROVE  PeopleInv' /\ PeopleActs
    BY <2>1, <2>7, CreateKeeps, AliasesKeep DEF PeopleActs
  <2>8. ASSUME NEW i \in PersonIds, Who!Retire(i) \/ Who!Restore(i) \/ Who!Preview(i)
        PROVE  PeopleInv' /\ PeopleActs
    BY <2>1, <2>8, RetireKeeps, RestoreKeeps, PreviewKeeps DEF PeopleActs
  <2>9. ASSUME NEW i \in PersonIds, NEW w \in Words, Who!Correct(i, w) \/ Who!Withdraw(i, w)
        PROVE  PeopleInv' /\ PeopleActs
    BY <2>1, <2>9, CorrectKeeps, WithdrawKeeps DEF PeopleActs
  <2>10. CASE UNCHANGED Who!vars
    <3>1. UNCHANGED <<people, suppressed, mentioned, held, used, said, purged, withdrawn, revived, wleave>>
      BY <2>10 DEF Who!vars
    <3>2. Who!Known' = Who!Known /\ Who!Owners' = Who!Owners /\ Who!Active' = Who!Active
      BY <3>1 DEF Who!Known, Who!Owners, Who!Active
    <3>3. PeopleInv'
      BY <3>1, <3>2 DEF PeopleInv, PeopleTypes, Previewed, Redirected, Once, Sayers, Who!OneEach
    <3> QED
      BY <2>10, <3>3
  <2> QED
    BY <2>2, <2>3, <2>4, <2>5, <2>6, <2>7, <2>8, <2>9, <2>10, Zenon DEF Who!Next
<1>3. PeopleInv => Who!OneEach /\ Who!Leads /\ Who!TakenBack
  <2> SUFFICES ASSUME PeopleInv PROVE Who!OneEach /\ Who!Leads /\ Who!TakenBack
    OBVIOUS
  <2>1. Who!Leads
    BY RedirectsLead DEF PeopleInv
  <2>2. Who!TakenBack
    BY PeopleAre DEF PeopleInv, Once, Sayers, Who!TakenBack, Who!Says, PeopleTypes
  <2> QED
    BY <2>1, <2>2 DEF PeopleInv
<1>4. PeopleActs => Who!Heard /\ Who!AsSeen /\ Who!Forgets
  BY DEF PeopleActs
<1> QED
  BY <1>1, <1>2, <1>3, <1>4, PTL DEF Who!Spec, Who!PeopleStand

-----------------------------------------------------------------------------
(* Artifacts: what a person sees of them is neither replaced nor retired by mistake *)

History == wrote = [taken |-> wrote.taken, early |-> wrote.early, undated |-> wrote.undated,
                    excuses |-> wrote.excuses]
Whole == work = [pc |-> work.pc, i |-> work.i, b |-> work.b, name |-> work.name, p |-> work.p, row |-> work.row,
                 since |-> work.since, then |-> work.then, by |-> work.by]
ArchiveTypes ==
    /\ archive \in [Artifact -> Archived \cup {None}]
    /\ copies \in [CopyPaths -> Copy]
    /\ snapshot \in [head : [CopyPaths -> Copy], gone : [CopyPaths -> Nat], n : Nat]
    /\ rleave \in [requests : Nat, writes : Nat, faults : Nat]
    /\ History
    /\ Whole

\* What an operation has in hand, from one of its steps to the next.
Keen == /\ Arts!Live(work.i) /\ work.i \in Artifact
InHand ==
    /\ work.pc \in {"place", "manifest"} =>
          work.i \in Artifact /\ work.b \in Bytes /\ work.name \in Filenames /\ archive[work.i] = None
    /\ work.pc \in {"place", "manifest", "bring", "replace", "revise"} => work.since \in Nat
    /\ work.pc \in {"bring", "replace", "revise", "record"} =>
          work.i \in Artifact /\ archive[work.i] # None /\ work.b \in Bytes
    /\ work.pc \in {"manifest", "replace", "revise", "record", "moved"} => work.p \in CopyPaths
    /\ work.pc \in {"observe", "search", "ask", "moved", "retire", "unlink", "removed"} => Keen
    /\ work.pc = "commit" => work.i \in Artifact /\ work.then \in {"idle", "forget", "observe"}
                             /\ (work.then = "observe" => Keen)
    /\ work.pc = "forget" => work.i \in Artifact
    /\ work.pc \in {"idle", "place", "manifest", "bring", "replace", "revise", "record", "observe", "search",
                    "ask", "moved", "retire", "unlink", "removed", "commit", "forget"}

\* The copy an operation is about to replace or remove is not a person's, unless a person came late.
Guarded ==
    \/ "late" \in wrote.excuses
    \/ /\ work.pc \in {"replace", "moved"} => copies[work.p] # Edited
       /\ work.pc = "unlink" => copies[archive[work.i].path] # Edited
\* A copy that goes home leaves another place.
GoesHome == work.pc = "moved" => work.p # archive[work.i].path

\* A copy that Git still has and the disk has no longer was taken away since Git looked, and what
\* Git has on record of its place is a removal of this copy or one the request began with.
Seen(i, p) == snapshot.head[p] # None /\ copies[p] = None => <<i, snapshot.n>> \in wrote.taken
Proper(i, p, d) == Seen(i, p) /\ (snapshot.gone[p] >= d => Arts!Recorded(i) \/ Arts!Early(i))
Evidenced(i) == Arts!Recorded(i) \/ Arts!Early(i) \/ Arts!Undated(i)
EvidentLive == \A i \in Artifact : Arts!Live(i) => Arts!Undated(i) \/ Proper(i, archive[i].path, archive[i].at)
Evident ==
    \/ "shared" \in wrote.excuses
    \/ /\ EvidentLive
       /\ work.pc \in {"manifest", "revise"} => Proper(work.i, work.p, work.since)
       /\ work.pc = "revise" => Arts!Undated(work.i)
       /\ work.by = "sweep" /\ work.pc \in {"retire", "unlink", "removed"} => Evidenced(work.i)

ArchiveInv == ArchiveTypes /\ InHand /\ Guarded /\ GoesHome /\ Evident

\* What a step that no device takes does to the places.
Spares == \A p \in CopyPaths : (copies[p] = Edited /\ copies'[p] # Edited /\ rleave'.writes = rleave.writes)
              => wrote'.excuses \cap {"late", "cleanup"} # {}
Retires == \A i \in Artifact :
    (Arts!Live(i) /\ archive'[i] # None /\ archive'[i].removed /\ work.by = "sweep" /\ "shared" \notin wrote.excuses)
       => Evidenced(i)

\* What an operation has in hand after each kind of step.
LEMMA Going ==
  ASSUME ArchiveTypes, NEW q, work' = [work EXCEPT !.pc = q]
  PROVE  /\ work'.pc = q /\ work'.i = work.i /\ work'.b = work.b /\ work'.name = work.name /\ work'.p = work.p
         /\ work'.since = work.since /\ work'.then = work.then /\ work'.by = work.by
         /\ Whole'
BY DEF ArchiveTypes, Whole

LEMMA Placing ==
  ASSUME ArchiveTypes, NEW q, NEW p, work' = [work EXCEPT !.pc = q, !.p = p]
  PROVE  /\ work'.pc = q /\ work'.i = work.i /\ work'.b = work.b /\ work'.name = work.name /\ work'.p = p
         /\ work'.since = work.since /\ work'.by = work.by
         /\ Whole'
BY DEF ArchiveTypes, Whole

LEMMA Mirroring ==
  ASSUME ArchiveTypes, NEW i, NEW row, NEW then, Arts!Mirror(i, row, then)
  PROVE  /\ work'.pc = "commit" /\ work'.i = i /\ work'.then = then /\ work'.by = work.by
         /\ Whole'
BY DEF ArchiveTypes, Whole, Arts!Mirror

LEMMA Releasing ==
  ASSUME Arts!Release
  PROVE  /\ work'.pc = "idle" /\ work'.by = None
         /\ Whole'
BY DEF Arts!Release, Arts!Idle, Whole

LEMMA Concluding ==
  ASSUME ArchiveTypes, NEW state, Arts!Outcome(state)
  PROVE  /\ work'.pc = "idle" \/ (work'.pc = "commit" /\ work'.i = work.i /\ work'.then = "idle")
         /\ work'.by \in {None, work.by}
         /\ Whole'
<1>1. CASE Arts!Release
  BY <1>1, Releasing
<1>2. CASE ~Arts!Release
  <2>1. PICK row : Arts!Mirror(work.i, row, "idle")
    BY <1>2 DEF Arts!Outcome
  <2> QED
    BY <2>1, Mirroring
<1> QED
  BY <1>1, <1>2

LEMMA ArchivesAre ==
  ASSUME ArchiveConstants, ArchiveTypes
  PROVE  /\ \A i \in Artifact : archive[i] # None =>
               /\ archive[i] \in Archived /\ archive[i].path \in CopyPaths /\ archive[i].at \in Nat
               /\ Arts!Current(i) \in Bytes
         /\ \A p \in CopyPaths : copies[p] \in Copy /\ snapshot.gone[p] \in Nat
         /\ snapshot.n \in Nat /\ rleave.writes \in Nat
<1>1. ASSUME NEW i \in Artifact, archive[i] # None
      PROVE  /\ archive[i] \in Archived /\ archive[i].path \in CopyPaths /\ archive[i].at \in Nat
             /\ Arts!Current(i) \in Bytes
  <2>1. archive[i] \in Archived
    BY <1>1 DEF ArchiveTypes
  <2>2. archive[i].revs \in Seq(Bytes) /\ archive[i].revs # <<>> /\ archive[i].path \in CopyPaths /\ archive[i].at \in Nat
    BY <2>1 DEF Archived
  <2>3. archive[i].revs[Len(archive[i].revs)] \in Bytes
    BY <2>2
  <2> QED
    BY <2>1, <2>2, <2>3 DEF Arts!Current, Arts!Last
<1> QED
  BY <1>1 DEF ArchiveTypes

LEMMA ArchiveBegins == ArchiveConstants /\ Arts!Init => ArchiveInv
<1> SUFFICES ASSUME ArchiveConstants, Arts!Init PROVE ArchiveInv
  OBVIOUS
<1>1. /\ archive = [i \in Artifact |-> None] /\ copies = [p \in CopyPaths |-> None]
      /\ snapshot = [head |-> [p \in CopyPaths |-> None], gone |-> [p \in CopyPaths |-> 0], n |-> 0]
      /\ wrote = [taken |-> {}, early |-> {}, undated |-> {}, excuses |-> {}]
      /\ rleave = [requests |-> ArchiveRequests, writes |-> ArchiveWrites, faults |-> ArchiveFaults]
      /\ work = [Arts!Idle EXCEPT !.pc = "idle"]
  BY DEF Arts!Init, Arts!Start
<1>2. /\ Whole
      /\ work.pc = "idle" /\ work.by = None
  BY <1>1 DEF Arts!Idle, Whole
<1>a. History
  BY <1>1 DEF History
<1>3. ArchiveTypes
  BY <1>1, <1>2, <1>a DEF ArchiveTypes, ArchiveConstants, Copy
<1>4. \A i \in Artifact : archive[i] = None /\ ~Arts!Live(i)
  BY <1>1 DEF Arts!Live
<1>5. InHand /\ Guarded /\ GoesHome /\ Evident
  BY <1>1, <1>2, <1>4 DEF InHand, Guarded, GoesHome, Evident, EvidentLive
<1> QED
  BY <1>3, <1>5 DEF ArchiveInv

\* A step of an operation that leaves the manifests, the copies and Git alone.
LEMMA OnlyWork ==
  ASSUME ArchiveConstants, ArchiveInv, UNCHANGED <<archive, copies, snapshot, wrote>>,
         Whole',
         rleave' \in [requests : Nat, writes : Nat, faults : Nat],
         InHand',
         work'.pc \notin {"replace", "unlink"} \/ Guarded',
         work'.pc \notin {"moved", "manifest", "revise"},
         work'.by = "sweep" /\ work'.pc \in {"retire", "unlink", "removed"} =>
            \/ work.by = "sweep" /\ work.pc \in {"retire", "unlink", "removed"} /\ work'.i = work.i
            \/ "shared" \in wrote.excuses \/ Evidenced(work'.i)
  PROVE  ArchiveInv' /\ Spares /\ Retires
<1>0. ArchiveTypes /\ Evident
  BY DEF ArchiveInv
<1>1. ArchiveTypes'
  BY <1>0 DEF ArchiveTypes, History
<1>3. Guarded' /\ GoesHome'
  BY DEF Guarded, GoesHome
<1>4. Evident'
  <2>1. CASE "shared" \in wrote.excuses
    BY <2>1 DEF Evident
  <2>2. CASE "shared" \notin wrote.excuses
    <3>1. EvidentLive'
      BY <1>0, <2>2 DEF Evident, EvidentLive, Proper, Seen, Arts!Live, Arts!Recorded, Arts!Early, Arts!Undated
    <3>2. work'.by = "sweep" /\ work'.pc \in {"retire", "unlink", "removed"} => Evidenced(work.i)'
      BY <1>0, <2>2 DEF Evident, Evidenced, Arts!Recorded, Arts!Early, Arts!Undated
    <3> QED
      BY <3>1, <3>2 DEF Evident
  <2> QED
    BY <2>1, <2>2
<1>5. Spares /\ Retires
  BY DEF Spares, Retires, Arts!Live
<1> QED
  BY <1>1, <1>3, <1>4, <1>5 DEF ArchiveInv

LEMMA Budgets ==
  ASSUME ArchiveTypes, Arts!Request \/ Arts!Fault \/ rleave' = rleave
  PROVE  rleave' \in [requests : Nat, writes : Nat, faults : Nat] /\ rleave'.writes = rleave.writes
BY DEF ArchiveTypes, Arts!Request, Arts!Fault

\* A step that is nobody's in particular.
LEMMA OnlyBooks ==
  ASSUME ArchiveConstants, ArchiveInv, UNCHANGED <<archive, copies, snapshot, wrote, work>>,
         rleave' \in [requests : Nat, writes : Nat, faults : Nat]
  PROVE  ArchiveInv' /\ Spares /\ Retires
<1>0. ArchiveTypes /\ InHand /\ Guarded /\ GoesHome /\ Evident
  BY DEF ArchiveInv
<1>1. ArchiveTypes'
  BY <1>0 DEF ArchiveTypes, History, Whole
<1>2. InHand' /\ Guarded' /\ GoesHome'
  BY <1>0 DEF InHand, Keen, Guarded, GoesHome, Arts!Live
<1>3. Evident'
  BY <1>0 DEF Evident, EvidentLive, Evidenced, Proper, Seen, Arts!Live, Arts!Recorded, Arts!Early, Arts!Undated
<1>4. Spares /\ Retires
  BY DEF Spares, Retires, Arts!Live
<1> QED
  BY <1>1, <1>2, <1>3, <1>4 DEF ArchiveInv

\* A request that meets what is archived ends with its row, another brings the copy.
LEMMA Deciding ==
  ASSUME ArchiveTypes, NEW i, NEW b, NEW name, Arts!Decide(i, b, name)
  PROVE  /\ \/ work'.pc = "commit" /\ work'.i = i /\ work'.then = "idle"
            \/ work'.pc = "bring" /\ work'.i = i /\ work'.b = b /\ work'.since \in Nat
         /\ work'.by = None
         /\ Whole'
<1>0. snapshot.n \in Nat
  BY DEF ArchiveTypes
<1>1. \/ \E row : work' = [Arts!Idle EXCEPT !.pc = "commit", !.i = i, !.row = row]
      \/ \E since \in Arts!Since :
            work' = [Arts!Idle EXCEPT !.pc = "bring", !.i = i, !.b = b, !.name = name, !.since = since]
  <2>1. CASE Arts!Current(i) = b
    BY <2>1 DEF Arts!Decide
  <2>2. CASE Arts!Current(i) # b
    BY <2>2 DEF Arts!Decide
  <2> QED
    BY <2>1, <2>2
<1>2. CASE \E row : work' = [Arts!Idle EXCEPT !.pc = "commit", !.i = i, !.row = row]
  BY <1>2 DEF Arts!Idle, Whole
<1>3. ASSUME NEW since \in Arts!Since,
             work' = [Arts!Idle EXCEPT !.pc = "bring", !.i = i, !.b = b, !.name = name, !.since = since]
      PROVE  work'.pc = "bring" /\ work'.i = i /\ work'.b = b /\ work'.since \in Nat /\ work'.by = None /\ Whole'
  <2>1. since \in Nat
    BY <1>0 DEF Arts!Since
  <2> QED
    BY <1>3, <2>1 DEF Arts!Idle, Whole
<1> QED
  BY <1>1, <1>2, <1>3

LEMMA CreateKeepsArchives ==
  ASSUME ArchiveConstants, ArchiveInv, NEW b \in Bytes, NEW name \in Filenames, Arts!Create(b, name)
  PROVE  ArchiveInv' /\ Spares /\ Retires
<1>0. ArchiveTypes /\ InHand /\ Guarded /\ Evident
  BY DEF ArchiveInv
<1>1. UNCHANGED <<archive, copies, snapshot, wrote>>
  BY DEF Arts!Create, Arts!disk
<1>2. rleave' \in [requests : Nat, writes : Nat, faults : Nat]
  BY <1>0, Budgets DEF Arts!Create
<1>3. /\ \/ work'.pc = "commit" /\ work'.i \in Artifact /\ work'.then = "idle"
         \/ /\ work'.pc = "bring" /\ work'.i \in Artifact /\ archive[work'.i] # None /\ work'.b \in Bytes
            /\ work'.since \in Nat
         \/ /\ work'.pc = "place" /\ work'.i \in Artifact /\ archive[work'.i] = None /\ work'.b \in Bytes
            /\ work'.name \in Filenames /\ work'.since \in Nat
      /\ work'.by = None
      /\ Whole'
  <2>1. CASE Arts!Replays(b, name) # {}
    <3>1. PICK i \in Arts!Replays(b, name) : archive[i] # None /\ Arts!Decide(i, b, name)
      BY <2>1 DEF Arts!Create
    <3>2. i \in Artifact
      BY DEF Arts!Replays
    <3> QED
      BY <1>0, <3>1, <3>2, Deciding
  <2>2. CASE Arts!Replays(b, name) = {}
    <3>1. PICK i \in Artifact, since \in Arts!Since :
            /\ archive[i] = None
            /\ work' = [Arts!Idle EXCEPT !.pc = "place", !.i = i, !.b = b, !.name = name, !.since = since]
      BY <2>2 DEF Arts!Create
    <3>2. since \in Nat
      BY <1>0 DEF Arts!Since, ArchiveTypes
    <3> QED
      BY <3>1, <3>2 DEF Arts!Idle, Whole
  <2> QED
    BY <2>1, <2>2
<1>4. InHand'
  BY <1>0, <1>1, <1>3 DEF InHand, Keen, Arts!Live
<1>5. work'.pc \notin {"replace", "unlink"}
  BY <1>3
<1>6. work'.by = "sweep" => work'.pc \notin {"retire", "unlink", "removed"}
  BY <1>3
<1> QED
  BY <1>1, <1>2, <1>3, <1>4, <1>5, <1>6, OnlyWork

LEMMA ReviseKeepsArchives ==
  ASSUME ArchiveConstants, ArchiveInv, NEW i \in Artifact, NEW b \in Bytes, Arts!Revise(i, b)
  PROVE  ArchiveInv' /\ Spares /\ Retires
<1>0. ArchiveTypes /\ InHand /\ Guarded /\ Evident
  BY DEF ArchiveInv
<1>1. UNCHANGED <<archive, copies, snapshot, wrote>>
  BY DEF Arts!Revise, Arts!disk
<1>2. rleave' \in [requests : Nat, writes : Nat, faults : Nat]
  BY <1>0, Budgets DEF Arts!Revise
<1>3. /\ \/ work'.pc = "commit" /\ work'.i \in Artifact /\ work'.then = "idle"
         \/ /\ work'.pc = "bring" /\ work'.i \in Artifact /\ archive[work'.i] # None /\ work'.b \in Bytes
            /\ work'.since \in Nat
      /\ work'.by = None
      /\ Whole'
  BY <1>0, Deciding DEF Arts!Revise, Arts!Live
<1>4. InHand'
  BY <1>0, <1>1, <1>3 DEF InHand, Keen, Arts!Live
<1>5. work'.pc \notin {"replace", "unlink"}
  BY <1>3
<1>6. work'.by = "sweep" => work'.pc \notin {"retire", "unlink", "removed"}
  BY <1>3
<1> QED
  BY <1>1, <1>2, <1>3, <1>4, <1>5, <1>6, OnlyWork

LEMMA RecordKeepsArchives ==
  ASSUME ArchiveConstants, ArchiveInv, Arts!WriteRecord
  PROVE  ArchiveInv' /\ Spares /\ Retires
<1>0. ArchiveTypes /\ InHand /\ Guarded /\ Evident
  BY DEF ArchiveInv
<1>1. UNCHANGED <<archive, copies, snapshot, wrote>>
  BY DEF Arts!WriteRecord, Arts!disk
<1>2. rleave' \in [requests : Nat, writes : Nat, faults : Nat]
  BY <1>0, Budgets DEF Arts!WriteRecord
<1>3. /\ work'.pc = "commit" /\ work'.i \in Artifact /\ work'.then = "idle"
      /\ Whole'
  <2>1. PICK row : Arts!Mirror(work.i, row, "idle")
    BY DEF Arts!WriteRecord
  <2>2. work.i \in Artifact
    BY <1>0 DEF InHand, Arts!WriteRecord, Arts!At
  <2> QED
    BY <1>0, <2>1, <2>2, Mirroring
<1>4. InHand'
  BY <1>0, <1>1, <1>3 DEF InHand, Keen, Arts!Live
<1>5. work'.pc \notin {"replace", "unlink"}
  BY <1>3
<1>6. work'.by = "sweep" => work'.pc \notin {"retire", "unlink", "removed"}
  BY <1>3
<1> QED
  BY <1>1, <1>2, <1>3, <1>4, <1>5, <1>6, OnlyWork

LEMMA RemoveKeepsArchives ==
  ASSUME ArchiveConstants, ArchiveInv, NEW i \in Artifact, Arts!RemoveArtifact(i)
  PROVE  ArchiveInv' /\ Spares /\ Retires
<1>0. ArchiveTypes /\ InHand /\ Guarded /\ Evident
  BY DEF ArchiveInv
<1>1. UNCHANGED <<archive, copies, snapshot, wrote>>
  BY DEF Arts!RemoveArtifact, Arts!disk
<1>2. rleave' \in [requests : Nat, writes : Nat, faults : Nat]
  BY <1>0, Budgets DEF Arts!RemoveArtifact
<1>3. /\ work'.pc = "retire" /\ work'.i = i /\ work'.by = "person" /\ Arts!Live(i)
      /\ Whole'
  BY DEF Arts!RemoveArtifact, Arts!Idle, Whole
<1>4. InHand'
  BY <1>0, <1>1, <1>3 DEF InHand, Keen, Arts!Live
<1>5. work'.pc \notin {"replace", "unlink"}
  BY <1>3
<1>6. work'.by = "sweep" => work'.pc \notin {"retire", "unlink", "removed"}
  BY <1>3
<1> QED
  BY <1>1, <1>2, <1>3, <1>4, <1>5, <1>6, OnlyWork

LEMMA RetireKeepsArchives ==
  ASSUME ArchiveConstants, ArchiveInv, Arts!Retire
  PROVE  ArchiveInv' /\ Spares /\ Retires
<1>0. ArchiveTypes /\ InHand /\ Guarded /\ Evident
  BY DEF ArchiveInv
<1>1. UNCHANGED <<archive, copies, snapshot, wrote>>
  BY DEF Arts!Retire, Arts!disk
<1>2. rleave' \in [requests : Nat, writes : Nat, faults : Nat]
  BY <1>0, Budgets DEF Arts!Retire
<1>3. /\ work'.pc \in {"unlink", "removed"} /\ work'.i = work.i /\ work'.by = work.by /\ work.pc = "retire" /\ Keen
      /\ work'.pc = "unlink" => copies[archive[work.i].path] = Arts!Current(work.i)
      /\ Whole'
  <2>1. work.pc = "retire" /\ Keen
    BY <1>0 DEF InHand, Arts!Retire, Arts!At
  <2>2. CASE copies[archive[work.i].path] = Arts!Current(work.i)
    <3>1. work' = [work EXCEPT !.pc = "unlink"]
      BY <2>2 DEF Arts!Retire, Arts!Go
    <3> QED
      BY <1>0, <2>1, <2>2, <3>1, Going
  <2>3. CASE copies[archive[work.i].path] # Arts!Current(work.i)
    <3>1. work' = [work EXCEPT !.pc = "removed"]
      BY <2>3 DEF Arts!Retire, Arts!Go
    <3> QED
      BY <1>0, <2>1, <2>3, <3>1, Going
  <2> QED
    BY <2>2, <2>3
<1>4. InHand'
  BY <1>0, <1>1, <1>3 DEF InHand, Keen, Arts!Live
<1>5. Guarded'
  <2>1. work.i \in Artifact /\ archive[work.i] # None
    BY <1>3 DEF Keen, Arts!Live
  <2>2. Arts!Current(work.i) # Edited
    BY <1>0, <2>1, ArchivesAre DEF ArchiveConstants
  <2> QED
    BY <1>1, <1>3, <2>2 DEF Guarded
<1>6. work'.by = "sweep" => work.by = "sweep" /\ work.pc \in {"retire", "unlink", "removed"} /\ work'.i = work.i
  BY <1>3
<1> QED
  BY <1>1, <1>2, <1>3, <1>4, <1>5, <1>6, OnlyWork

LEMMA CommitKeepsArchives ==
  ASSUME ArchiveConstants, ArchiveInv, Arts!Commit
  PROVE  ArchiveInv' /\ Spares /\ Retires
<1>0. ArchiveTypes /\ InHand /\ Guarded /\ Evident
  BY DEF ArchiveInv
<1>1. UNCHANGED <<archive, copies, snapshot, wrote>>
  BY DEF Arts!Commit, Arts!disk
<1>2. rleave' \in [requests : Nat, writes : Nat, faults : Nat]
  BY <1>0, Budgets DEF Arts!Commit
<1>3. /\ \/ work'.pc = "idle"
         \/ work'.pc = "forget" /\ work'.i \in Artifact
         \/ work'.pc = "observe" /\ work'.i = work.i /\ Keen
      /\ Whole'
  <2>1. work.i \in Artifact /\ work.then \in {"idle", "forget", "observe"} /\ (work.then = "observe" => Keen)
    BY <1>0 DEF InHand, Arts!Commit, Arts!At
  <2>2. CASE work.then = "idle"
    BY <2>2, Releasing DEF Arts!Commit
  <2>3. CASE work.then # "idle"
    <3>1. PICK q : q = work.then /\ work' = [work EXCEPT !.pc = q]
      BY <2>3 DEF Arts!Commit, Arts!Go
    <3> QED
      BY <1>0, <2>1, <2>3, <3>1, Going
  <2> QED
    BY <2>2, <2>3
<1>4. InHand'
  BY <1>0, <1>1, <1>3 DEF InHand, Keen, Arts!Live
<1>5. work'.pc \notin {"replace", "unlink"}
  BY <1>3
<1>6. work'.by = "sweep" => work'.pc \notin {"retire", "unlink", "removed"}
  BY <1>3
<1> QED
  BY <1>1, <1>2, <1>3, <1>4, <1>5, <1>6, OnlyWork

LEMMA CommitFailsKeepsArchives ==
  ASSUME ArchiveConstants, ArchiveInv, Arts!CommitFails
  PROVE  ArchiveInv' /\ Spares /\ Retires
<1>0. ArchiveTypes /\ InHand /\ Guarded /\ Evident
  BY DEF ArchiveInv
<1>1. UNCHANGED <<archive, copies, snapshot, wrote>>
  BY DEF Arts!CommitFails, Arts!disk
<1>2. rleave' \in [requests : Nat, writes : Nat, faults : Nat]
  BY <1>0, Budgets DEF Arts!CommitFails
<1>3. /\ work'.pc = "idle"
      /\ Whole'
  BY Releasing DEF Arts!CommitFails
<1>4. InHand'
  BY <1>0, <1>1, <1>3 DEF InHand, Keen, Arts!Live
<1>5. work'.pc \notin {"replace", "unlink"}
  BY <1>3
<1>6. work'.by = "sweep" => work'.pc \notin {"retire", "unlink", "removed"}
  BY <1>3
<1> QED
  BY <1>1, <1>2, <1>3, <1>4, <1>5, <1>6, OnlyWork

LEMMA ReviseFailsKeepsArchives ==
  ASSUME ArchiveConstants, ArchiveInv, Arts!ReviseFails
  PROVE  ArchiveInv' /\ Spares /\ Retires
<1>0. ArchiveTypes /\ InHand /\ Guarded /\ Evident
  BY DEF ArchiveInv
<1>1. UNCHANGED <<archive, copies, snapshot, wrote>>
  BY DEF Arts!ReviseFails, Arts!disk
<1>2. rleave' \in [requests : Nat, writes : Nat, faults : Nat]
  BY <1>0, Budgets DEF Arts!ReviseFails
<1>3. /\ work'.pc = "idle"
      /\ Whole'
  BY Releasing DEF Arts!ReviseFails
<1>4. InHand'
  BY <1>0, <1>1, <1>3 DEF InHand, Keen, Arts!Live
<1>5. work'.pc \notin {"replace", "unlink"}
  BY <1>3
<1>6. work'.by = "sweep" => work'.pc \notin {"retire", "unlink", "removed"}
  BY <1>3
<1> QED
  BY <1>1, <1>2, <1>3, <1>4, <1>5, <1>6, OnlyWork

LEMMA ForgetKeepsArchives ==
  ASSUME ArchiveConstants, ArchiveInv, Arts!Forget
  PROVE  ArchiveInv' /\ Spares /\ Retires
<1>0. ArchiveTypes /\ InHand /\ Guarded /\ Evident
  BY DEF ArchiveInv
<1>1. UNCHANGED <<archive, copies, snapshot, wrote>>
  BY DEF Arts!Forget, Arts!disk
<1>2. rleave' \in [requests : Nat, writes : Nat, faults : Nat]
  BY <1>0, Budgets DEF Arts!Forget
<1>3. /\ work'.pc = "idle"
      /\ Whole'
  BY Releasing DEF Arts!Forget
<1>4. InHand'
  BY <1>0, <1>1, <1>3 DEF InHand, Keen, Arts!Live
<1>5. work'.pc \notin {"replace", "unlink"}
  BY <1>3
<1>6. work'.by = "sweep" => work'.pc \notin {"retire", "unlink", "removed"}
  BY <1>3
<1> QED
  BY <1>1, <1>2, <1>3, <1>4, <1>5, <1>6, OnlyWork

LEMMA VisitKeepsArchives ==
  ASSUME ArchiveConstants, ArchiveInv, NEW i \in Artifact, Arts!Visit(i)
  PROVE  ArchiveInv' /\ Spares /\ Retires
<1>0. ArchiveTypes /\ InHand /\ Guarded /\ Evident
  BY DEF ArchiveInv
<1>1. UNCHANGED <<archive, copies, snapshot, wrote>>
  BY DEF Arts!Visit, Arts!disk
<1>2. rleave' \in [requests : Nat, writes : Nat, faults : Nat]
  BY <1>0, Budgets DEF Arts!Visit
<1>3. /\ \/ work'.pc = "commit" /\ work'.i = i /\ work'.then = "forget"
         \/ work'.pc = "commit" /\ work'.i = i /\ work'.then = "observe" /\ Arts!Live(i)
         \/ work'.pc = "observe" /\ work'.i = i /\ Arts!Live(i)
      /\ Whole'
  <2>1. CASE ~Arts!Live(i)
    <3>1. Arts!Mirror(i, None, "forget")
      BY <2>1 DEF Arts!Visit
    <3> QED
      BY <1>0, <3>1, Mirroring
  <2>2. CASE Arts!Live(i) /\ Arts!RecordCurrent(manifests[i], archive[i])
    <3>1. work' = [Arts!Idle EXCEPT !.pc = "observe", !.i = i]
      BY <2>2 DEF Arts!Visit
    <3> QED
      BY <2>2, <3>1 DEF Arts!Idle, Whole
  <2>3. CASE Arts!Live(i) /\ ~Arts!RecordCurrent(manifests[i], archive[i])
    <3>1. PICK row : Arts!Mirror(i, row, "observe")
      BY <2>3 DEF Arts!Visit
    <3> QED
      BY <1>0, <2>3, <3>1, Mirroring
  <2> QED
    BY <2>1, <2>2, <2>3
<1>4. InHand'
  BY <1>0, <1>1, <1>3 DEF InHand, Keen, Arts!Live
<1>5. work'.pc \notin {"replace", "unlink"}
  BY <1>3
<1>6. work'.by = "sweep" => work'.pc \notin {"retire", "unlink", "removed"}
  BY <1>3
<1> QED
  BY <1>1, <1>2, <1>3, <1>4, <1>5, <1>6, OnlyWork

LEMMA ObserveKeepsArchives ==
  ASSUME ArchiveConstants, ArchiveInv, Arts!Observe
  PROVE  ArchiveInv' /\ Spares /\ Retires
<1>0. ArchiveTypes /\ InHand /\ Guarded /\ Evident
  BY DEF ArchiveInv
<1>1. UNCHANGED <<archive, copies, snapshot, wrote>>
  BY DEF Arts!Observe, Arts!disk
<1>2. rleave' \in [requests : Nat, writes : Nat, faults : Nat]
  BY <1>0, Budgets DEF Arts!Observe
<1>3. /\ \/ work'.pc = "idle"
         \/ work'.pc = "commit" /\ work'.i = work.i /\ work'.then = "idle"
         \/ work'.pc = "search" /\ work'.i = work.i
      /\ Keen
      /\ Whole'
  <2>1. Keen
    BY <1>0 DEF InHand, Arts!Observe, Arts!At
  <2>2. CASE copies[archive[work.i].path] = None
    <3>1. work' = [work EXCEPT !.pc = "search"]
      BY <2>2 DEF Arts!Observe, Arts!Go
    <3> QED
      BY <1>0, <2>1, <3>1, Going
  <2>3. CASE copies[archive[work.i].path] # None
    <3>1. PICK state : Arts!Outcome(state)
      BY <2>3 DEF Arts!Observe
    <3> QED
      BY <1>0, <2>1, <3>1, Concluding
  <2> QED
    BY <2>2, <2>3
<1>4. InHand'
  BY <1>0, <1>1, <1>3 DEF InHand, Keen, Arts!Live
<1>5. work'.pc \notin {"replace", "unlink"}
  BY <1>3
<1>6. work'.by = "sweep" => work'.pc \notin {"retire", "unlink", "removed"}
  BY <1>3
<1> QED
  BY <1>1, <1>2, <1>3, <1>4, <1>5, <1>6, OnlyWork

LEMMA SearchFailsKeepsArchives ==
  ASSUME ArchiveConstants, ArchiveInv, Arts!SearchFails
  PROVE  ArchiveInv' /\ Spares /\ Retires
<1>0. ArchiveTypes /\ InHand /\ Guarded /\ Evident
  BY DEF ArchiveInv
<1>1. UNCHANGED <<archive, copies, snapshot, wrote>>
  BY DEF Arts!SearchFails, Arts!disk
<1>2. rleave' \in [requests : Nat, writes : Nat, faults : Nat]
  BY <1>0, Budgets DEF Arts!SearchFails
<1>3. /\ work'.pc = "idle" \/ (work'.pc = "commit" /\ work'.i = work.i /\ work'.then = "idle")
      /\ Keen
      /\ Whole'
  <2>1. Keen
    BY <1>0 DEF InHand, Arts!SearchFails, Arts!At
  <2> QED
    BY <1>0, <2>1, Concluding DEF Arts!SearchFails
<1>4. InHand'
  BY <1>0, <1>1, <1>3 DEF InHand, Keen, Arts!Live
<1>5. work'.pc \notin {"replace", "unlink"}
  BY <1>3
<1>6. work'.by = "sweep" => work'.pc \notin {"retire", "unlink", "removed"}
  BY <1>3
<1> QED
  BY <1>1, <1>2, <1>3, <1>4, <1>5, <1>6, OnlyWork

LEMMA AskKeepsArchives ==
  ASSUME ArchiveConstants, ArchiveInv, Arts!AskGit
  PROVE  ArchiveInv' /\ Spares /\ Retires
<1>0. ArchiveTypes /\ InHand /\ Guarded /\ Evident
  BY DEF ArchiveInv
<1>1. UNCHANGED <<archive, copies, snapshot, wrote>>
  BY DEF Arts!AskGit, Arts!disk
<1>2. rleave' \in [requests : Nat, writes : Nat, faults : Nat]
  BY <1>0, Budgets DEF Arts!AskGit
<1>3. /\ \/ work'.pc = "idle"
         \/ work'.pc = "commit" /\ work'.i = work.i /\ work'.then = "idle"
         \/ work'.pc = "retire" /\ work'.i = work.i /\ snapshot.gone[archive[work.i].path] >= archive[work.i].at
      /\ Keen
      /\ Whole'
  <2>1. Keen
    BY <1>0 DEF InHand, Arts!AskGit, Arts!At
  <2>2. CASE snapshot.head[archive[work.i].path] = None /\ snapshot.gone[archive[work.i].path] >= archive[work.i].at
    <3>1. work' = [work EXCEPT !.pc = "retire", !.by = "sweep"]
      BY <2>2 DEF Arts!AskGit
    <3> QED
      BY <1>0, <2>1, <2>2, <3>1 DEF ArchiveTypes, Whole
  <2>3. CASE ~(snapshot.head[archive[work.i].path] = None /\ snapshot.gone[archive[work.i].path] >= archive[work.i].at)
    <3>1. Arts!Outcome("missing")
      BY <2>3 DEF Arts!AskGit
    <3> QED
      BY <1>0, <2>1, <3>1, Concluding
  <2> QED
    BY <2>2, <2>3
<1>4. InHand'
  BY <1>0, <1>1, <1>3 DEF InHand, Keen, Arts!Live
<1>5. work'.pc \notin {"replace", "unlink"}
  BY <1>3
<1>6. work'.pc = "retire" => "shared" \in wrote.excuses \/ Evidenced(work'.i)
  BY <1>0, <1>3 DEF Evident, EvidentLive, Evidenced, Proper, Keen
<1>7. work'.pc \notin {"unlink", "removed"}
  BY <1>3
<1> QED
  BY <1>1, <1>2, <1>3, <1>4, <1>5, <1>6, <1>7, OnlyWork

LEMMA BooksKeepArchives ==
  ASSUME ArchiveConstants, ArchiveInv, Arts!SweepBegins \/ Arts!Verify \/ Arts!Recover
  PROVE  ArchiveInv' /\ Spares /\ Retires
<1>1. UNCHANGED <<archive, copies, snapshot, wrote, work>> /\ (Arts!Request \/ rleave' = rleave)
  BY DEF Arts!SweepBegins, Arts!Verify, Arts!Recover, Arts!disk
<1>2. rleave' \in [requests : Nat, writes : Nat, faults : Nat]
  BY <1>1, Budgets DEF ArchiveInv
<1> QED
  BY <1>1, <1>2, OnlyBooks

-----------------------------------------------------------------------------
(* The steps that change a manifest, a copy or what Git has seen *)

\* What is on record of an artifact's copy is not lost.
Kept(i) == /\ \A k : <<i, k>> \in wrote.taken => <<i, k>> \in wrote'.taken
           /\ Arts!Early(i) => Arts!Early(i)'
           /\ Arts!Undated(i) => Arts!Undated(i)'
\* The file at p stays, is another, or was taken from the artifact.
Traced(i, p) == copies'[p] # None \/ copies'[p] = copies[p] \/ <<i, snapshot.n>> \in wrote'.taken

LEMMA ProperStays ==
  ASSUME NEW i, NEW p, NEW d, Proper(i, p, d), Kept(i), Traced(i, p), snapshot' = snapshot
  PROVE  Proper(i, p, d)'
BY DEF Proper, Seen, Kept, Traced, Arts!Recorded

LEMMA EvidenceStays ==
  ASSUME NEW i, Evidenced(i), Kept(i), snapshot' = snapshot
  PROVE  Evidenced(i)'
BY DEF Evidenced, Kept, Arts!Recorded

LEMMA EvidentStays ==
  ASSUME ArchiveInv, snapshot' = snapshot, wrote.excuses \subseteq wrote'.excuses,
         \A i \in Artifact : Arts!Live(i)' =>
            \/ "shared" \in wrote'.excuses \/ Arts!Undated(i)' \/ Proper(i, archive[i].path, archive[i].at)'
            \/ /\ Arts!Live(i) /\ archive'[i].path = archive[i].path /\ archive'[i].at = archive[i].at
               /\ Kept(i) /\ Traced(i, archive[i].path)
  PROVE  "shared" \in wrote'.excuses \/ EvidentLive'
<1> SUFFICES ASSUME "shared" \notin wrote'.excuses, NEW i \in Artifact, Arts!Live(i)'
             PROVE  Arts!Undated(i)' \/ Proper(i, archive[i].path, archive[i].at)'
  BY DEF EvidentLive
<1>1. SUFFICES ASSUME Arts!Live(i), archive'[i].path = archive[i].path, archive'[i].at = archive[i].at,
                      Kept(i), Traced(i, archive[i].path)
               PROVE  Arts!Undated(i)' \/ Proper(i, archive[i].path, archive[i].at)'
  OBVIOUS
<1>2. Arts!Undated(i) \/ Proper(i, archive[i].path, archive[i].at)
  BY <1>1 DEF ArchiveInv, Evident, EvidentLive
<1>3. PICK p, d : p = archive[i].path /\ d = archive[i].at
  OBVIOUS
<1>4. Proper(i, p, d) => Proper(i, p, d)'
  BY <1>1, <1>3, ProperStays
<1>5. Proper(i, p, d)' => Proper(i, archive[i].path, archive[i].at)'
  BY <1>1, <1>3 DEF Proper, Seen
<1> QED
  BY <1>1, <1>2, <1>3, <1>4, <1>5 DEF Kept

LEMMA EvidentFrom ==
  ASSUME "shared" \in wrote'.excuses \/ EvidentLive',
         \/ "shared" \in wrote'.excuses
         \/ /\ work'.pc \in {"manifest", "revise"} => Proper(work.i, work.p, work.since)'
            /\ work'.pc = "revise" => Arts!Undated(work.i)'
            /\ work'.by = "sweep" /\ work'.pc \in {"retire", "unlink", "removed"} => Evidenced(work.i)'
  PROVE  Evident'
BY DEF Evident

\* Copies change while the manifests stay: what that asks of the places.
LEMMA CopiesChange ==
  ASSUME ArchiveConstants, ArchiveInv, UNCHANGED <<archive, snapshot>>, copies' \in [CopyPaths -> Copy],
         rleave' \in [requests : Nat, writes : Nat, faults : Nat],
         History', wrote.excuses \subseteq wrote'.excuses, Whole',
         \A i \in Artifact : Arts!Live(i) =>
            "shared" \in wrote'.excuses \/ Arts!Undated(i)' \/ (Kept(i) /\ Traced(i, archive[i].path))
  PROVE  ArchiveTypes' /\ ("shared" \in wrote'.excuses \/ EvidentLive') /\ Retires
<1>1. ArchiveTypes'
  BY DEF ArchiveInv, ArchiveTypes
<1>2. \A i \in Artifact : Arts!Live(i)' => Arts!Live(i)
  BY DEF Arts!Live
<1>3. "shared" \in wrote'.excuses \/ EvidentLive'
  BY <1>2, EvidentStays
<1>4. Retires
  BY DEF Retires, Arts!Live
<1> QED
  BY <1>1, <1>3, <1>4

\* The store puts a copy of an artifact at p.
LEMMA Putting ==
  ASSUME ArchiveInv, NEW p, NEW undated \in BOOLEAN, snapshot' = snapshot,
         Arts!Puts(Arts!Midway(p), undated), copies'[p] # None
  PROVE  /\ History' /\ wrote'.excuses = wrote.excuses
         /\ \A k \in Artifact : k # work.i => Kept(k)
         /\ \A i, since : i = work.i /\ since = work.since => Proper(i, p, since)'
         /\ undated => \A i : i = work.i => Arts!Undated(i)'
<1>1. /\ History' /\ wrote'.excuses = wrote.excuses
      /\ wrote'.taken = {t \in wrote.taken : t[1] # work.i}
      /\ wrote'.early = IF Arts!Midway(p) THEN wrote.early \cup {work.i} ELSE wrote.early \ {work.i}
      /\ wrote'.undated = IF undated THEN wrote.undated \cup {work.i} ELSE wrote.undated \ {work.i}
  BY DEF ArchiveInv, ArchiveTypes, History, Arts!Puts
<1>2. ASSUME NEW k \in Artifact, k # work.i PROVE Kept(k)
  BY <1>1, <1>2 DEF Kept, Arts!Early, Arts!Undated
<1>3. ASSUME NEW i, NEW since, i = work.i, since = work.since PROVE Proper(i, p, since)'
  BY <1>1, <1>3 DEF Proper, Seen, Arts!Early, Arts!Midway
<1>4. undated => \A i : i = work.i => Arts!Undated(i)'
  BY <1>1 DEF Arts!Undated
<1> QED
  BY <1>1, <1>2, <1>3, <1>4

\* The bytes are placed at a name that is free.
LEMMA PlaceKeepsArchives ==
  ASSUME ArchiveConstants, ArchiveInv, Arts!Place
  PROVE  ArchiveInv' /\ Spares /\ Retires
<1>0. ArchiveTypes /\ InHand /\ Guarded /\ Evident
  BY DEF ArchiveInv
<1>1. work.i \in Artifact /\ work.b \in Bytes /\ work.name \in Filenames
  BY <1>0 DEF InHand, Arts!Place, Arts!At
<1>2. PICK p \in Arts!Free : /\ copies' = [copies EXCEPT ![p] = work.b] /\ work' = [work EXCEPT !.pc = "manifest", !.p = p]
                             /\ Arts!Puts(Arts!Midway(p), FALSE)
  BY DEF Arts!Place
<1>3. p \in CopyPaths /\ copies[p] = None /\ archive[work.i] = None /\ work.since \in Nat
  BY <1>0 DEF Arts!Free, InHand, Arts!Place, Arts!At
<1>4. UNCHANGED <<archive, snapshot, rleave>> /\ rleave' \in [requests : Nat, writes : Nat, faults : Nat]
  BY <1>0 DEF Arts!Place, ArchiveTypes
<1>5. /\ work'.pc = "manifest" /\ work'.i = work.i /\ work'.b = work.b /\ work'.name = work.name /\ work'.p = p
      /\ work'.since = work.since /\ Whole'
  BY <1>0, <1>2, Placing
<1>6. copies' \in [CopyPaths -> Copy] /\ copies'[p] = work.b /\ work.b # None /\ \A q \in CopyPaths \ {p} : copies'[q] = copies[q]
  BY <1>0, <1>1, <1>2, <1>3 DEF ArchiveTypes, Copy, ArchiveConstants
<1>7. /\ History' /\ wrote'.excuses = wrote.excuses
      /\ \A k \in Artifact : k # work.i => Kept(k)
      /\ \A i, since : i = work.i /\ since = work.since => Proper(i, p, since)'
  BY <1>2, <1>4, <1>6, Putting
<1>8. InHand' /\ Guarded' /\ GoesHome'
  BY <1>1, <1>3, <1>4, <1>5 DEF InHand, Guarded, GoesHome
<1>9. \A i \in Artifact : Arts!Live(i) => Kept(i) /\ Traced(i, archive[i].path)
  BY <1>0, <1>3, <1>6, <1>7, ArchivesAre DEF Arts!Live, Traced
<1>10. ArchiveTypes' /\ ("shared" \in wrote'.excuses \/ EvidentLive') /\ Retires
  BY <1>4, <1>5, <1>6, <1>7, <1>9, CopiesChange
<1>11. Evident'
  BY <1>5, <1>7, <1>10, EvidentFrom DEF Proper, Seen
<1>12. Spares
  BY <1>3, <1>6 DEF Spares, ArchiveConstants
<1> QED
  BY <1>8, <1>10, <1>11, <1>12 DEF ArchiveInv

LEMMA ManifestKeepsArchives ==
  ASSUME ArchiveConstants, ArchiveInv, Arts!WriteManifest
  PROVE  ArchiveInv' /\ Spares /\ Retires
<1>0. ArchiveTypes /\ InHand /\ Guarded /\ Evident
  BY DEF ArchiveInv
<1>1. work.pc = "manifest" /\ work.i \in Artifact /\ work.b \in Bytes /\ work.name \in Filenames /\ work.p \in CopyPaths
      /\ work.since \in Nat
  BY <1>0 DEF InHand, Arts!WriteManifest, Arts!At
<1>2. UNCHANGED <<copies, snapshot, wrote, rleave>> /\ work' = [work EXCEPT !.pc = "record"]
  BY DEF Arts!WriteManifest, Arts!Go
<1>3. PICK i : i = work.i
  OBVIOUS
<1>4. PICK a : a = [revs |-> <<work.b>>, name |-> work.name, path |-> work.p, removed |-> FALSE, stray |-> FALSE, at |-> work.since]
  OBVIOUS
<1>5. a \in Archived /\ a.path = work.p /\ a.at = work.since /\ ~a.removed
  <2>1. <<work.b>> \in Seq(Bytes) \ {<<>>}
    BY <1>1
  <2> QED
    BY <2>1, <1>1, <1>4 DEF Archived
<1>6. archive' = [archive EXCEPT ![i] = a]
  BY <1>3, <1>4 DEF Arts!WriteManifest
<1>7. archive' \in [Artifact -> Archived \cup {None}] /\ archive'[i] = a /\ a # None /\ \A k \in Artifact \ {i} : archive'[k] = archive[k]
  <2>1. archive' \in [Artifact -> Archived \cup {None}] /\ archive'[i] = a /\ \A k \in Artifact \ {i} : archive'[k] = archive[k]
    BY <1>0, <1>1, <1>3, <1>5, <1>6 DEF ArchiveTypes
  <2>2. a # None
    BY <1>5 DEF ArchiveConstants, Archived
  <2> QED
    BY <2>1, <2>2
<1>8. /\ work'.pc = "record" /\ work'.i = i /\ work'.b = work.b /\ work'.p = work.p
      /\ Whole'
  BY <1>0, <1>2, <1>3, Going
<1>9. ArchiveTypes'
  BY <1>0, <1>2, <1>7, <1>8 DEF ArchiveTypes, History
<1>10. InHand' /\ Guarded' /\ GoesHome'
  BY <1>0, <1>1, <1>2, <1>3, <1>7, <1>8 DEF InHand, Guarded, GoesHome
<1>12. "shared" \in wrote'.excuses \/ EvidentLive'
  <2>1. "shared" \in wrote.excuses \/ Proper(work.i, work.p, work.since)
    BY <1>0, <1>1 DEF Evident
  <2>2. Proper(work.i, work.p, work.since) => Proper(i, archive[i].path, archive[i].at)'
    BY <1>2, <1>3, <1>5, <1>7 DEF Proper, Seen, Arts!Recorded, Arts!Early
  <2>3. ASSUME NEW k \in Artifact \ {i}, Arts!Live(k)'
        PROVE  /\ Arts!Live(k) /\ archive'[k].path = archive[k].path /\ archive'[k].at = archive[k].at
               /\ Kept(k) /\ Traced(k, archive[k].path)
    BY <2>3, <1>2, <1>7 DEF Arts!Live, Kept, Traced, Arts!Early, Arts!Undated
  <2> QED
    BY <2>1, <2>2, <2>3, <1>2, EvidentStays
<1>13. Evident'
  BY <1>8, <1>12, EvidentFrom
<1>14. Spares
  BY <1>2 DEF Spares
<1>15. Retires
  BY <1>5, <1>7 DEF Retires, Arts!Live
<1> QED
  BY <1>9, <1>10, <1>13, <1>14, <1>15 DEF ArchiveInv

LEMMA RevisionKeepsArchives ==
  ASSUME ArchiveConstants, ArchiveInv, Arts!ReviseManifest
  PROVE  ArchiveInv' /\ Spares /\ Retires
<1>0. ArchiveTypes /\ InHand /\ Guarded /\ Evident
  BY DEF ArchiveInv
<1>1. work.pc = "revise" /\ work.i \in Artifact /\ work.b \in Bytes /\ work.p \in CopyPaths /\ archive[work.i] \in Archived
      /\ work.since \in Nat
  BY <1>0 DEF InHand, Arts!ReviseManifest, Arts!At, ArchiveTypes
<1>2. /\ UNCHANGED <<copies, snapshot, rleave>> /\ wrote' = [wrote EXCEPT !.undated = @ \ {work.i}]
      /\ work' = [work EXCEPT !.pc = "record"]
  BY DEF Arts!ReviseManifest, Arts!Go
<1>b. /\ History' /\ wrote'.taken = wrote.taken /\ wrote'.early = wrote.early /\ wrote'.excuses = wrote.excuses
      /\ wrote'.undated = wrote.undated \ {work.i}
  BY <1>0, <1>2 DEF ArchiveTypes, History
<1>3. PICK i : i = work.i
  OBVIOUS
<1>a. PICK revs : revs = Append(archive[i].revs, work.b)
  OBVIOUS
<1>4. PICK a : a = [archive[i] EXCEPT !.revs = revs, !.path = work.p, !.at = work.since]
  OBVIOUS
<1>5. a \in Archived /\ a.path = work.p /\ a.at = work.since /\ a.removed = archive[i].removed
  <2>1. archive[i].revs \in Seq(Bytes)
    BY <1>1, <1>3 DEF Archived
  <2>2. revs \in Seq(Bytes) /\ Len(revs) = Len(archive[i].revs) + 1 /\ Len(archive[i].revs) \in Nat
    BY <2>1, <1>1, <1>a
  <2>3. revs # <<>>
    BY <2>2
  <2> QED
    BY <2>1, <2>2, <2>3, <1>1, <1>3, <1>4 DEF Archived
<1>6. archive' = [archive EXCEPT ![i] = a]
  <2>1. archive' = [archive EXCEPT ![i] = [archive[i] EXCEPT !.revs = Append(archive[i].revs, work.b), !.path = work.p,
                                                             !.at = work.since]]
    BY <1>3, Zenon DEF Arts!ReviseManifest
  <2> QED
    BY <2>1, <1>4, <1>a
<1>7. archive' \in [Artifact -> Archived \cup {None}] /\ archive'[i] = a /\ a # None /\ \A k \in Artifact \ {i} : archive'[k] = archive[k]
  <2>1. archive' \in [Artifact -> Archived \cup {None}] /\ archive'[i] = a /\ \A k \in Artifact \ {i} : archive'[k] = archive[k]
    BY <1>0, <1>1, <1>3, <1>5, <1>6 DEF ArchiveTypes
  <2>2. a # None
    BY <1>5 DEF ArchiveConstants, Archived
  <2> QED
    BY <2>1, <2>2
<1>8. /\ work'.pc = "record" /\ work'.i = i /\ work'.b = work.b /\ work'.p = work.p
      /\ Whole'
  BY <1>0, <1>2, <1>3, Going
<1>9. ArchiveTypes'
  BY <1>0, <1>2, <1>7, <1>8, <1>b DEF ArchiveTypes
<1>10. InHand' /\ Guarded' /\ GoesHome'
  BY <1>0, <1>1, <1>2, <1>3, <1>7, <1>8, <1>b DEF InHand, Guarded, GoesHome
<1>12. "shared" \in wrote'.excuses \/ EvidentLive'
  <2>1. "shared" \in wrote.excuses \/ Proper(work.i, work.p, work.since)
    BY <1>0, <1>1 DEF Evident
  <2>2. Proper(work.i, work.p, work.since) => Proper(i, archive[i].path, archive[i].at)'
    BY <1>2, <1>3, <1>5, <1>7, <1>b DEF Proper, Seen, Arts!Recorded, Arts!Early
  <2>3. ASSUME NEW k \in Artifact \ {i}, Arts!Live(k)'
        PROVE  /\ Arts!Live(k) /\ archive'[k].path = archive[k].path /\ archive'[k].at = archive[k].at
               /\ Kept(k) /\ Traced(k, archive[k].path)
    BY <2>3, <1>2, <1>3, <1>7, <1>b DEF Arts!Live, Kept, Traced, Arts!Early, Arts!Undated
  <2> QED
    BY <2>1, <2>2, <2>3, <1>2, <1>b, EvidentStays
<1>13. Evident'
  BY <1>8, <1>12, EvidentFrom
<1>14. Spares
  BY <1>2 DEF Spares
<1>15. Retires
  BY <1>1, <1>3, <1>5, <1>7 DEF Retires, Arts!Live, ArchiveInv, Archived
<1> QED
  BY <1>9, <1>10, <1>13, <1>14, <1>15 DEF ArchiveInv

\* A revision's copy: left to be replaced where it is the archived one, else placed anew.
LEMMA BringKeepsArchives ==
  ASSUME ArchiveConstants, ArchiveInv, Arts!Bring
  PROVE  ArchiveInv' /\ Spares /\ Retires
<1>0. ArchiveTypes /\ InHand /\ Guarded /\ Evident
  BY DEF ArchiveInv
<1>1. work.pc = "bring" /\ work.i \in Artifact /\ work.b \in Bytes /\ archive[work.i] # None /\ work.since \in Nat
  BY <1>0 DEF InHand, Arts!Bring, Arts!At
<1>2. archive[work.i].path \in CopyPaths /\ Arts!Current(work.i) \in Bytes
  BY <1>0, <1>1, ArchivesAre
<1>3. UNCHANGED <<archive, snapshot, rleave>>
  BY DEF Arts!Bring
<1>4. rleave' \in [requests : Nat, writes : Nat, faults : Nat]
  BY <1>0, <1>3 DEF ArchiveTypes
<1>5. CASE archive[work.i].stray
  <2>1. Arts!Release /\ copies' = copies /\ wrote' = wrote
    BY <1>5 DEF Arts!Bring
  <2>2. work'.pc = "idle" /\ work'.by = None /\ Whole'
    BY <2>1, Releasing
  <2>3. InHand'
    BY <2>2 DEF InHand
  <2> QED
    BY <1>3, <1>4, <2>1, <2>2, <2>3, OnlyWork
<1>6. CASE ~archive[work.i].stray /\ copies[archive[work.i].path] = Arts!Current(work.i)
  <2>1. PICK p : p = archive[work.i].path
    OBVIOUS
  <2>2. work' = [work EXCEPT !.pc = "replace", !.p = p] /\ copies' = copies /\ wrote' = wrote
    BY <1>6, <2>1 DEF Arts!Bring
  <2>3. /\ work'.pc = "replace" /\ work'.i = work.i /\ work'.b = work.b /\ work'.p = p /\ work'.since = work.since
        /\ Whole'
    BY <1>0, <2>2, Placing
  <2>4. InHand'
    BY <1>1, <1>2, <1>3, <2>1, <2>3 DEF InHand
  <2>5. Guarded'
    BY <1>2, <1>6, <2>1, <2>2, <2>3 DEF Guarded, ArchiveConstants
  <2> QED
    BY <1>3, <1>4, <2>2, <2>3, <2>4, <2>5, OnlyWork
<1>7. CASE ~archive[work.i].stray /\ copies[archive[work.i].path] # Arts!Current(work.i)
  <2>1. PICK p \in Arts!Free : /\ copies' = [copies EXCEPT ![p] = work.b] /\ work' = [work EXCEPT !.pc = "revise", !.p = p]
                               /\ Arts!Puts(Arts!Midway(p), TRUE)
    BY <1>7 DEF Arts!Bring
  <2>2. p \in CopyPaths /\ copies[p] = None
    BY DEF Arts!Free
  <2>3. copies' \in [CopyPaths -> Copy] /\ copies'[p] = work.b /\ work.b # None /\ \A q \in CopyPaths \ {p} : copies'[q] = copies[q]
    BY <1>0, <1>1, <2>1, <2>2 DEF ArchiveTypes, Copy, ArchiveConstants
  <2>4. /\ work'.pc = "revise" /\ work'.i = work.i /\ work'.b = work.b /\ work'.p = p /\ work'.since = work.since
        /\ Whole'
    BY <1>0, <2>1, Placing
  <2>5. /\ History' /\ wrote'.excuses = wrote.excuses
        /\ \A k \in Artifact : k # work.i => Kept(k)
        /\ \A i, since : i = work.i /\ since = work.since => Proper(i, p, since)'
        /\ \A i : i = work.i => Arts!Undated(i)'
    BY <1>3, <2>1, <2>3, Putting
  <2>8. \A i \in Artifact : Arts!Live(i) => Arts!Undated(i)' \/ (Kept(i) /\ Traced(i, archive[i].path))
    BY <1>0, <2>3, <2>5, ArchivesAre DEF Arts!Live, Traced
  <2>6. ArchiveTypes' /\ ("shared" \in wrote'.excuses \/ EvidentLive') /\ Retires
    BY <1>3, <1>4, <2>3, <2>4, <2>5, <2>8, CopiesChange
  <2>7. InHand' /\ Guarded' /\ GoesHome'
    BY <1>1, <1>3, <2>2, <2>4 DEF InHand, Guarded, GoesHome
  <2>9. Evident'
    BY <2>4, <2>5, <2>6, EvidentFrom DEF Proper, Seen, Arts!Undated
  <2>10. Spares
    BY <2>2, <2>3 DEF Spares, ArchiveConstants
  <2> QED
    BY <2>6, <2>7, <2>9, <2>10 DEF ArchiveInv
<1> QED
  BY <1>5, <1>6, <1>7

LEMMA ReplaceKeepsArchives ==
  ASSUME ArchiveConstants, ArchiveInv, Arts!Replace
  PROVE  ArchiveInv' /\ Spares /\ Retires
<1>0. ArchiveTypes /\ InHand /\ Guarded /\ Evident
  BY DEF ArchiveInv
<1>1. /\ work.pc = "replace" /\ work.i \in Artifact /\ work.b \in Bytes /\ archive[work.i] # None
      /\ work.since \in Nat
  BY <1>0 DEF InHand, Arts!Replace, Arts!At
<1>2. PICK p \in CopyPaths : p = work.p
  BY <1>0 DEF InHand, Arts!Replace, Arts!At
<1>3. /\ UNCHANGED <<archive, snapshot, rleave>> /\ copies' = [copies EXCEPT ![p] = work.b]
      /\ work' = [work EXCEPT !.pc = "revise"] /\ Arts!Puts(Arts!Midway(p), TRUE)
      /\ rleave' \in [requests : Nat, writes : Nat, faults : Nat]
  BY <1>0, <1>2 DEF Arts!Replace, Arts!Go, ArchiveTypes
<1>4. copies' \in [CopyPaths -> Copy] /\ copies'[p] = work.b /\ work.b # None /\ \A q \in CopyPaths \ {p} : copies'[q] = copies[q]
  BY <1>0, <1>1, <1>2, <1>3 DEF ArchiveTypes, Copy, ArchiveConstants
<1>5. /\ work'.pc = "revise" /\ work'.i = work.i /\ work'.b = work.b /\ work'.p = p /\ work'.since = work.since
      /\ Whole'
  BY <1>0, <1>2, <1>3, Going
<1>6. /\ History' /\ wrote'.excuses = wrote.excuses
      /\ \A k \in Artifact : k # work.i => Kept(k)
      /\ \A i, since : i = work.i /\ since = work.since => Proper(i, p, since)'
      /\ \A i : i = work.i => Arts!Undated(i)'
  BY <1>3, <1>4, Putting
<1>7. \A i \in Artifact : Arts!Live(i) => Arts!Undated(i)' \/ (Kept(i) /\ Traced(i, archive[i].path))
  BY <1>0, <1>4, <1>6, ArchivesAre DEF Arts!Live, Traced
<1>8. ArchiveTypes' /\ ("shared" \in wrote'.excuses \/ EvidentLive') /\ Retires
  BY <1>3, <1>4, <1>5, <1>6, <1>7, CopiesChange
<1>9. InHand' /\ Guarded' /\ GoesHome' /\ Evident'
  <2>1. InHand' /\ Guarded' /\ GoesHome'
    BY <1>1, <1>3, <1>5 DEF InHand, Guarded, GoesHome
  <2>2. Evident'
    BY <1>5, <1>6, <1>8, EvidentFrom DEF Proper, Seen, Arts!Undated
  <2> QED
    BY <2>1, <2>2
<1>10. Spares
  BY <1>0, <1>1, <1>2, <1>4, <1>6 DEF Spares, Guarded
<1> QED
  BY <1>8, <1>9, <1>10 DEF ArchiveInv

\* A failed creation takes its copy back by the copy's name, whoever has it by then.
LEMMA CreateFailsKeepsArchives ==
  ASSUME ArchiveConstants, ArchiveInv, Arts!CreateFails
  PROVE  ArchiveInv' /\ Spares /\ Retires
<1>0. ArchiveTypes /\ InHand /\ Guarded /\ Evident
  BY DEF ArchiveInv
<1>1. work.i \in Artifact /\ work.b \in Bytes /\ work.p \in CopyPaths
  BY <1>0 DEF InHand, Arts!CreateFails, Arts!At
<1>2. /\ archive' = [archive EXCEPT ![work.i] = None] /\ copies' = [copies EXCEPT ![work.p] = None]
      /\ wrote' = [wrote EXCEPT !.excuses = @ \cup Arts!Shared(work.p)
                                            \cup (IF copies[work.p] = work.b THEN {} ELSE {"cleanup"})]
      /\ snapshot' = snapshot /\ Arts!Release /\ Arts!Fault
  BY DEF Arts!CreateFails
<1>3. rleave' \in [requests : Nat, writes : Nat, faults : Nat] /\ rleave'.writes = rleave.writes
  BY <1>0, <1>2, Budgets
<1>4. /\ History' /\ wrote'.taken = wrote.taken /\ wrote'.early = wrote.early /\ wrote'.undated = wrote.undated
      /\ wrote'.excuses = (wrote.excuses \cup Arts!Shared(work.p)) \cup (IF copies[work.p] = work.b THEN {} ELSE {"cleanup"})
  BY <1>0, <1>2 DEF ArchiveTypes, History
<1>5. copies' \in [CopyPaths -> Copy] /\ copies'[work.p] = None /\ \A q \in CopyPaths \ {work.p} : copies'[q] = copies[q]
  BY <1>0, <1>1, <1>2 DEF ArchiveTypes, Copy
<1>6. archive' \in [Artifact -> Archived \cup {None}] /\ archive'[work.i] = None /\ \A k \in Artifact \ {work.i} : archive'[k] = archive[k]
  BY <1>0, <1>1, <1>2 DEF ArchiveTypes
<1>7. work'.pc = "idle" /\ work'.by = None /\ Whole'
  BY <1>2, Releasing
<1>8. ArchiveTypes'
  BY <1>0, <1>2, <1>3, <1>4, <1>5, <1>6, <1>7 DEF ArchiveTypes
<1>9. InHand' /\ Guarded' /\ GoesHome'
  BY <1>7 DEF InHand, Guarded, GoesHome
<1>10. "shared" \in wrote'.excuses \/ EvidentLive'
  <2>1. ASSUME NEW k \in Artifact, Arts!Live(k)'
        PROVE  \/ "shared" \in wrote'.excuses
               \/ /\ Arts!Live(k) /\ archive'[k].path = archive[k].path /\ archive'[k].at = archive[k].at
                  /\ Kept(k) /\ Traced(k, archive[k].path)
    <3>1. k # work.i /\ archive'[k] = archive[k] /\ Arts!Live(k)
      BY <2>1, <1>6 DEF Arts!Live
    <3>2. archive[k].path \in CopyPaths
      BY <1>0, <3>1, ArchivesAre DEF Arts!Live
    <3>3. CASE archive[k].path = work.p
      <4>1. "shared" \in Arts!Shared(work.p)
        BY <3>1, <3>3 DEF Arts!Shared
      <4> QED
        BY <4>1, <1>4
    <3>4. CASE archive[k].path # work.p
      BY <3>1, <3>2, <3>4, <1>4, <1>5 DEF Kept, Traced, Arts!Early, Arts!Undated
    <3> QED
      BY <3>3, <3>4
  <2> QED
    BY <2>1, <1>2, <1>4, EvidentStays
<1>11. Evident'
  BY <1>7, <1>10, EvidentFrom
<1>12. Spares
  <2>1. \A p \in CopyPaths : copies[p] = Edited /\ copies'[p] # Edited => p = work.p
    BY <1>5
  <2>2. copies[work.p] = Edited => "cleanup" \in wrote'.excuses
    BY <1>1, <1>4 DEF ArchiveConstants
  <2> QED
    BY <2>1, <2>2 DEF Spares
<1>13. Retires
  BY <1>0, <1>6 DEF Retires, Arts!Live
<1> QED
  BY <1>8, <1>9, <1>11, <1>12, <1>13 DEF ArchiveInv

LEMMA UnlinkKeepsArchives ==
  ASSUME ArchiveConstants, ArchiveInv, Arts!Unlink
  PROVE  ArchiveInv' /\ Spares /\ Retires
<1>0. ArchiveTypes /\ InHand /\ Guarded /\ Evident
  BY DEF ArchiveInv
<1>1. work.pc = "unlink" /\ Keen
  BY <1>0 DEF InHand, Arts!Unlink, Arts!At
<1>2. PICK p : p = archive[work.i].path
  OBVIOUS
<1>3. p \in CopyPaths
  BY <1>0, <1>1, <1>2, ArchivesAre DEF Keen, Arts!Live
<1>4. /\ copies' = [copies EXCEPT ![p] = None]
      /\ wrote' = [wrote EXCEPT !.taken = @ \cup Arts!TakenFrom(p), !.excuses = @ \cup Arts!Shared(p)]
      /\ UNCHANGED <<archive, snapshot, rleave>> /\ work' = [work EXCEPT !.pc = "removed"]
  BY <1>2 DEF Arts!Unlink, Arts!Go
<1>5. rleave' \in [requests : Nat, writes : Nat, faults : Nat]
  BY <1>0, <1>4 DEF ArchiveTypes
<1>6. /\ History' /\ wrote.excuses \subseteq wrote'.excuses
      /\ wrote'.taken = wrote.taken \cup Arts!TakenFrom(p) /\ wrote'.early = wrote.early /\ wrote'.undated = wrote.undated
  BY <1>0, <1>4 DEF ArchiveTypes, History
<1>7. copies' \in [CopyPaths -> Copy] /\ copies'[p] = None /\ \A q \in CopyPaths \ {p} : copies'[q] = copies[q]
  BY <1>0, <1>3, <1>4 DEF ArchiveTypes, Copy
<1>8. /\ work'.pc = "removed" /\ work'.i = work.i /\ work'.by = work.by
      /\ Whole'
  BY <1>0, <1>4, Going
<1>a. \A i : Kept(i)
  BY <1>6 DEF Kept, Arts!Early, Arts!Undated
<1>b. \A i \in Artifact : Arts!Live(i) => Traced(i, archive[i].path)
  BY <1>0, <1>1, <1>6, <1>7, ArchivesAre DEF Traced, Arts!Live, Arts!TakenFrom, Arts!Owners
<1>9. ArchiveTypes' /\ ("shared" \in wrote'.excuses \/ EvidentLive') /\ Retires
  BY <1>4, <1>5, <1>6, <1>7, <1>8, <1>a, <1>b, CopiesChange
<1>10. InHand' /\ Guarded' /\ GoesHome'
  BY <1>1, <1>4, <1>8 DEF InHand, Keen, Guarded, GoesHome, Arts!Live
<1>11. Evident'
  <2>1. PICK i : i = work.i
    OBVIOUS
  <2>2. "shared" \in wrote.excuses \/ (work.by = "sweep" => Evidenced(i))
    BY <1>0, <1>1, <2>1 DEF Evident
  <2>3. Evidenced(i) => Evidenced(i)'
    BY <1>4, <1>a, EvidenceStays
  <2> QED
    BY <2>1, <2>2, <2>3, <1>6, <1>8, <1>9, EvidentFrom DEF Evidenced, Arts!Recorded, Arts!Early, Arts!Undated
<1>12. Spares
  <2>1. "late" \in wrote.excuses \/ copies[p] # Edited
    BY <1>0, <1>1, <1>2 DEF Guarded
  <2> QED
    BY <2>1, <1>6, <1>7 DEF Spares
<1> QED
  BY <1>9, <1>10, <1>11, <1>12 DEF ArchiveInv

\* The step that retires.
LEMMA MarkKeepsArchives ==
  ASSUME ArchiveConstants, ArchiveInv, Arts!MarkRemoved
  PROVE  ArchiveInv' /\ Spares /\ Retires
<1>0. ArchiveTypes /\ InHand /\ Guarded /\ Evident
  BY DEF ArchiveInv
<1>1. work.pc = "removed" /\ Keen
  BY <1>0 DEF InHand, Arts!MarkRemoved, Arts!At
<1>2. PICK i \in Artifact : i = work.i /\ archive[i] # None /\ archive[i] \in Archived
  BY <1>0, <1>1 DEF Keen, Arts!Live, ArchiveTypes
<1>3. PICK a : a = [archive[i] EXCEPT !.removed = TRUE]
  OBVIOUS
<1>4. a \in Archived /\ a.removed /\ a.at = archive[i].at
  BY <1>2, <1>3 DEF Archived
<1>5. /\ archive' = [archive EXCEPT ![i].removed = TRUE]
      /\ UNCHANGED <<copies, snapshot, wrote, rleave>> /\ Arts!Mirror(i, None, "idle")
  BY <1>2 DEF Arts!MarkRemoved
<1>6. archive' \in [Artifact -> Archived \cup {None}] /\ archive'[i] = a /\ \A k \in Artifact \ {i} : archive'[k] = archive[k]
  BY <1>0, <1>2, <1>3, <1>4, <1>5 DEF ArchiveTypes
<1>7. /\ work'.pc = "commit" /\ work'.i = i /\ work'.then = "idle" /\ work'.by = work.by
      /\ Whole'
  BY <1>0, <1>5, Mirroring
<1>8. ArchiveTypes'
  BY <1>0, <1>2, <1>4, <1>5, <1>6, <1>7 DEF ArchiveTypes, History
<1>9. InHand' /\ Guarded' /\ GoesHome'
  BY <1>7 DEF InHand, Guarded, GoesHome
<1>10. Evident'
  <2>1. ASSUME NEW k \in Artifact, Arts!Live(k)'
        PROVE  /\ Arts!Live(k) /\ archive'[k].path = archive[k].path /\ archive'[k].at = archive[k].at
               /\ Kept(k) /\ Traced(k, archive[k].path)
    BY <2>1, <1>4, <1>5, <1>6 DEF Arts!Live, Kept, Traced, Arts!Early, Arts!Undated
  <2>2. "shared" \in wrote'.excuses \/ EvidentLive'
    BY <2>1, <1>5, EvidentStays
  <2> QED
    BY <2>2, <1>7, EvidentFrom
<1>11. Spares
  BY <1>5 DEF Spares
<1>12. Retires
  <2>1. work.by = "sweep" /\ "shared" \notin wrote.excuses => Evidenced(i)
    BY <1>0, <1>1, <1>2 DEF Evident
  <2>2. \A k \in Artifact \ {i} : Arts!Live(k) => ~archive'[k].removed
    BY <1>6 DEF Arts!Live
  <2> QED
    BY <2>1, <2>2 DEF Retires
<1> QED
  BY <1>8, <1>9, <1>10, <1>11, <1>12 DEF ArchiveInv

LEMMA RestartKeepsArchives ==
  ASSUME ArchiveConstants, ArchiveInv, Arts!Restart
  PROVE  ArchiveInv' /\ Spares /\ Retires
<1>0. ArchiveTypes /\ InHand
  BY DEF ArchiveInv
<1>1. UNCHANGED <<copies, snapshot, wrote>> /\ Arts!Release /\ Arts!Fault
  BY DEF Arts!Restart
<1>2. rleave' \in [requests : Nat, writes : Nat, faults : Nat]
  BY <1>0, <1>1, Budgets
<1>3. work'.pc = "idle" /\ work'.by = None /\ Whole'
  BY <1>1, Releasing
<1>4. /\ archive' \in [Artifact -> Archived \cup {None}]
      /\ \A k \in Artifact : archive'[k] # None =>
            archive[k] # None /\ archive'[k].removed = archive[k].removed
               /\ archive'[k].path = archive[k].path /\ archive'[k].at = archive[k].at
  <2>1. CASE work.pc \in {"replace", "revise"}
    <3>1. PICK i \in Artifact : i = work.i /\ archive[i] # None /\ archive[i] \in Archived
      BY <1>0, <2>1 DEF InHand, ArchiveTypes
    <3>2. PICK a : a = [archive[i] EXCEPT !.stray = TRUE]
      OBVIOUS
    <3>3. a \in Archived /\ a.removed = archive[i].removed /\ a.path = archive[i].path /\ a.at = archive[i].at
      BY <3>1, <3>2 DEF Archived
    <3>4. archive' = [archive EXCEPT ![i].stray = TRUE]
      BY <2>1, <3>1 DEF Arts!Restart, Arts!At
    <3>5. archive' \in [Artifact -> Archived \cup {None}] /\ archive'[i] = a /\ \A k \in Artifact \ {i} : archive'[k] = archive[k]
      BY <1>0, <3>1, <3>2, <3>3, <3>4 DEF ArchiveTypes
    <3> QED
      BY <3>1, <3>3, <3>5
  <2>2. CASE work.pc \notin {"replace", "revise"}
    BY <1>0, <2>2 DEF Arts!Restart, Arts!At, ArchiveTypes
  <2> QED
    BY <2>1, <2>2
<1>5. ArchiveTypes'
  BY <1>0, <1>1, <1>2, <1>3, <1>4 DEF ArchiveTypes, History
<1>6. InHand' /\ Guarded' /\ GoesHome'
  BY <1>3 DEF InHand, Guarded, GoesHome
<1>7. Evident'
  <2>1. ASSUME NEW k \in Artifact, Arts!Live(k)'
        PROVE  /\ Arts!Live(k) /\ archive'[k].path = archive[k].path /\ archive'[k].at = archive[k].at
               /\ Kept(k) /\ Traced(k, archive[k].path)
    BY <2>1, <1>1, <1>4 DEF Arts!Live, Kept, Traced, Arts!Early, Arts!Undated
  <2>2. "shared" \in wrote'.excuses \/ EvidentLive'
    BY <2>1, <1>1, EvidentStays
  <2> QED
    BY <2>2, <1>3, EvidentFrom
<1>8. Spares /\ Retires
  BY <1>1, <1>4 DEF Spares, Retires, Arts!Live
<1> QED
  BY <1>5, <1>6, <1>7, <1>8 DEF ArchiveInv

\* A copy found elsewhere comes home, while its own place is empty.
LEMMA SearchKeepsArchives ==
  ASSUME ArchiveConstants, ArchiveInv, Arts!Search
  PROVE  ArchiveInv' /\ Spares /\ Retires
<1>0. ArchiveTypes /\ InHand /\ Guarded /\ Evident
  BY DEF ArchiveInv
<1>1. work.pc = "search" /\ Keen
  BY <1>0 DEF InHand, Arts!Search, Arts!At
<1>2. UNCHANGED <<archive, snapshot, rleave>>
  BY DEF Arts!Search
<1>3. rleave' \in [requests : Nat, writes : Nat, faults : Nat]
  BY <1>0, <1>2 DEF ArchiveTypes
<1>4. PICK home : home = archive[work.i].path
  OBVIOUS
<1>5. home \in CopyPaths /\ Arts!Current(work.i) \in Bytes
  BY <1>0, <1>1, <1>4, ArchivesAre DEF Keen, Arts!Live
<1>6. CASE Arts!Go("ask") /\ copies' = copies /\ wrote' = wrote
  <2>1. work' = [work EXCEPT !.pc = "ask"] /\ copies' = copies /\ wrote' = wrote
    BY <1>6 DEF Arts!Go
  <2>2. /\ work'.pc = "ask" /\ work'.i = work.i
        /\ Whole'
    BY <1>0, <2>1, Going
  <2>3. InHand'
    BY <1>1, <1>2, <2>2 DEF InHand, Keen, Arts!Live
  <2> QED
    BY <1>2, <1>3, <2>1, <2>2, <2>3, OnlyWork
<1>7. CASE Arts!ComesHome(home) /\ copies[home] # None
  <2>1. Arts!Outcome("missing") /\ copies' = copies /\ wrote' = wrote
    BY <1>7 DEF Arts!ComesHome
  <2>2. /\ work'.pc = "idle" \/ (work'.pc = "commit" /\ work'.i = work.i /\ work'.then = "idle")
        /\ Whole'
    BY <1>0, <2>1, Concluding
  <2>3. InHand'
    BY <1>1, <1>2, <2>2 DEF InHand, Keen, Arts!Live
  <2>4. work'.pc \notin {"replace", "unlink", "moved", "manifest", "revise", "retire", "removed"}
    BY <2>2
  <2> QED
    BY <1>2, <1>3, <2>1, <2>2, <2>3, <2>4, OnlyWork
<1>8. CASE Arts!ComesHome(home) /\ copies[home] = None
  <2>1. PICK p \in Arts!Elsewhere : /\ copies' = [copies EXCEPT ![home] = Arts!Current(work.i)]
                                    /\ work' = [work EXCEPT !.pc = "moved", !.p = p] /\ Arts!Puts(FALSE, TRUE)
    BY <1>8 DEF Arts!ComesHome
  <2>2. p \in CopyPaths /\ copies[p] = Arts!Current(work.i)
    BY DEF Arts!Elsewhere
  <2>3. p # home /\ copies[p] # Edited
    BY <1>5, <1>8, <2>2 DEF ArchiveConstants
  <2>4. /\ copies' \in [CopyPaths -> Copy] /\ copies'[home] = Arts!Current(work.i) /\ copies'[home] # None
        /\ \A q \in CopyPaths \ {home} : copies'[q] = copies[q]
    BY <1>0, <1>5, <2>1 DEF ArchiveTypes, Copy, ArchiveConstants
  <2>5. /\ work'.pc = "moved" /\ work'.i = work.i /\ work'.p = p
        /\ Whole'
    BY <1>0, <2>1, Placing
  <2>a. /\ History' /\ wrote'.excuses = wrote.excuses /\ wrote'.undated = wrote.undated \cup {work.i}
        /\ wrote'.taken = {t \in wrote.taken : t[1] # work.i} /\ wrote'.early = wrote.early \ {work.i}
    BY <1>0, <2>1 DEF Arts!Puts, ArchiveTypes, History
  <2>b. \A i \in Artifact : Arts!Live(i) => Arts!Undated(i)' \/ (Kept(i) /\ Traced(i, archive[i].path))
    BY <1>0, <2>4, <2>a, ArchivesAre DEF Arts!Live, Kept, Traced, Arts!Early, Arts!Undated
  <2>6. ArchiveTypes' /\ ("shared" \in wrote'.excuses \/ EvidentLive') /\ Retires
    BY <1>2, <1>3, <2>4, <2>5, <2>a, <2>b, CopiesChange
  <2>7. InHand' /\ Guarded' /\ GoesHome'
    BY <1>1, <1>2, <1>4, <2>2, <2>3, <2>4, <2>5 DEF InHand, Keen, Guarded, GoesHome, Arts!Live
  <2>8. Evident'
    BY <2>5, <2>6, EvidentFrom
  <2>9. Spares
    BY <1>8, <2>4 DEF Spares, ArchiveConstants
  <2> QED
    BY <2>6, <2>7, <2>8, <2>9 DEF ArchiveInv
<1> QED
  BY <1>4, <1>6, <1>7, <1>8 DEF Arts!Search, Arts!ComesHome

LEMMA MovedKeepsArchives ==
  ASSUME ArchiveConstants, ArchiveInv, Arts!MovedBack
  PROVE  ArchiveInv' /\ Spares /\ Retires
<1>0. ArchiveTypes /\ InHand /\ Guarded /\ GoesHome /\ Evident
  BY DEF ArchiveInv
<1>1. work.pc = "moved" /\ Keen /\ work.p \in CopyPaths
  BY <1>0 DEF InHand, Arts!MovedBack, Arts!At
<1>2. /\ UNCHANGED <<archive, snapshot, rleave>> /\ copies' = [copies EXCEPT ![work.p] = None]
      /\ wrote' = [wrote EXCEPT !.excuses = @ \cup Arts!Shared(work.p)] /\ Arts!Outcome("ok")
  BY DEF Arts!MovedBack
<1>3. /\ rleave' \in [requests : Nat, writes : Nat, faults : Nat] /\ History'
      /\ wrote'.taken = wrote.taken /\ wrote'.early = wrote.early /\ wrote'.undated = wrote.undated
      /\ wrote'.excuses = wrote.excuses \cup Arts!Shared(work.p)
  BY <1>0, <1>2 DEF ArchiveTypes, History
<1>4. copies' \in [CopyPaths -> Copy] /\ copies'[work.p] = None /\ \A q \in CopyPaths \ {work.p} : copies'[q] = copies[q]
  BY <1>0, <1>1, <1>2 DEF ArchiveTypes, Copy
<1>5. /\ work'.pc = "idle" \/ (work'.pc = "commit" /\ work'.i = work.i /\ work'.then = "idle")
      /\ Whole'
  BY <1>0, <1>2, Concluding
<1>6. "shared" \in wrote'.excuses \/ \A i \in Artifact : Arts!Live(i) => archive[i].path # work.p
  <2>1. ASSUME NEW i \in Artifact, Arts!Live(i), archive[i].path = work.p PROVE "shared" \in wrote'.excuses
    <3>1. i # work.i
      BY <1>0, <1>1, <2>1 DEF GoesHome
    <3>2. "shared" \in Arts!Shared(work.p)
      BY <2>1, <3>1 DEF Arts!Shared
    <3> QED
      BY <3>2, <1>3
  <2> QED
    BY <2>1
<1>a. \A i \in Artifact : Arts!Live(i) => "shared" \in wrote'.excuses \/ (Kept(i) /\ Traced(i, archive[i].path))
  BY <1>0, <1>3, <1>4, <1>6, ArchivesAre DEF Arts!Live, Kept, Traced, Arts!Early, Arts!Undated
<1>7. ArchiveTypes' /\ ("shared" \in wrote'.excuses \/ EvidentLive') /\ Retires
  BY <1>2, <1>3, <1>4, <1>5, <1>a, CopiesChange
<1>8. InHand' /\ Guarded' /\ GoesHome'
  BY <1>1, <1>2, <1>5 DEF InHand, Keen, Guarded, GoesHome, Arts!Live
<1>9. work'.pc \notin {"manifest", "revise", "retire", "unlink", "removed"}
  BY <1>5
<1>10. Evident'
  BY <1>7, <1>9, EvidentFrom
<1>11. Spares
  BY <1>0, <1>1, <1>3, <1>4 DEF Spares, Guarded
<1> QED
  BY <1>7, <1>8, <1>10, <1>11 DEF ArchiveInv

\* What a device does: every copy that leaves its place is taken from it.
LEMMA TakeKeepsArchives ==
  ASSUME ArchiveConstants, ArchiveInv, NEW p \in CopyPaths, NEW files \in [CopyPaths -> Copy], Arts!Take(p, files),
         \A q \in CopyPaths \ {p} : files[q] = copies[q] \/ files[q] # None
  PROVE  ArchiveInv' /\ Spares /\ Retires
<1>0. ArchiveTypes /\ InHand /\ Guarded /\ GoesHome /\ Evident
  BY DEF ArchiveInv
<1>1. /\ UNCHANGED <<archive, snapshot, work>> /\ copies' = files
      /\ rleave.writes > 0 /\ rleave' = [rleave EXCEPT !.writes = @ - 1]
      /\ wrote' = [wrote EXCEPT !.taken = @ \cup Arts!TakenFrom(p),
                     !.excuses = @ \cup (IF work.pc \in {"replace", "unlink", "moved"} THEN {"late"} ELSE {})]
  BY DEF Arts!Take
<1>2. rleave' \in [requests : Nat, writes : Nat, faults : Nat] /\ rleave'.writes # rleave.writes
  BY <1>0, <1>1 DEF ArchiveTypes
<1>3. /\ History' /\ wrote'.taken = wrote.taken \cup Arts!TakenFrom(p)
      /\ wrote'.early = wrote.early /\ wrote'.undated = wrote.undated
      /\ wrote'.excuses = wrote.excuses \cup (IF work.pc \in {"replace", "unlink", "moved"} THEN {"late"} ELSE {})
  BY <1>0, <1>1 DEF ArchiveTypes, History
<1>4. Whole'
  BY <1>0, <1>1 DEF ArchiveTypes, Whole
<1>5. /\ \A i : Kept(i)
      /\ \A i \in Artifact, q \in CopyPaths : (q = p => i \in Arts!Owners(p)) => Traced(i, q)
  <2>1. \A i : Kept(i)
    BY <1>3 DEF Kept, Arts!Early, Arts!Undated
  <2>2. ASSUME NEW i \in Artifact, NEW q \in CopyPaths, q = p => i \in Arts!Owners(p) PROVE Traced(i, q)
    BY <2>2, <1>1, <1>3 DEF Traced, Arts!TakenFrom
  <2> QED
    BY <2>1, <2>2
<1>a. \A i \in Artifact : Arts!Live(i) =>
         "shared" \in wrote'.excuses \/ Arts!Undated(i)' \/ (Kept(i) /\ Traced(i, archive[i].path))
  <2> SUFFICES ASSUME NEW i \in Artifact, Arts!Live(i), "shared" \notin wrote.excuses
               PROVE  Arts!Undated(i)' \/ (Kept(i) /\ Traced(i, archive[i].path))
    BY <1>3
  <2>1. archive[i] # None /\ archive[i].path \in CopyPaths
    BY <1>0, ArchivesAre DEF Arts!Live
  <2>2. CASE i = work.i /\ work.pc \in {"manifest", "revise"}
    BY <1>0, <1>5, <2>1, <2>2 DEF InHand, Evident, Kept
  <2>3. CASE ~(i = work.i /\ work.pc \in {"manifest", "revise"})
    BY <1>5, <2>1, <2>3 DEF Arts!Owners
  <2> QED
    BY <2>2, <2>3
<1>6. ArchiveTypes' /\ ("shared" \in wrote'.excuses \/ EvidentLive') /\ Retires
  BY <1>1, <1>2, <1>3, <1>4, <1>a, CopiesChange
<1>7. InHand'
  BY <1>0, <1>1 DEF InHand, Keen, Arts!Live
<1>8. Guarded' /\ GoesHome'
  BY <1>0, <1>1, <1>3 DEF Guarded, GoesHome
<1>9. Evident'
  <2>1. PICK i, q, since : i = work.i /\ q = work.p /\ since = work.since
    OBVIOUS
  <2>2. CASE "shared" \in wrote.excuses
    BY <2>2, <1>3, <1>6, EvidentFrom
  <2>3. CASE "shared" \notin wrote.excuses
    <3>1. work.pc \in {"manifest", "revise"} => Proper(i, q, since)'
      <4>1. SUFFICES ASSUME work.pc \in {"manifest", "revise"} PROVE Proper(i, q, since)'
        OBVIOUS
      <4>2. i \in Artifact /\ q \in CopyPaths /\ (q = p => i \in Arts!Owners(p)) /\ Proper(i, q, since)
        BY <1>0, <2>1, <2>3, <4>1 DEF InHand, Evident, Arts!Owners
      <4> QED
        BY <1>1, <1>5, <4>2, ProperStays
    <3>2. work.pc = "revise" => Arts!Undated(i)'
      BY <1>0, <1>5, <2>1, <2>3 DEF Evident, Kept
    <3>3. work.by = "sweep" /\ work.pc \in {"retire", "unlink", "removed"} => Evidenced(i)'
      BY <1>0, <1>1, <1>5, <2>1, <2>3, EvidenceStays DEF Evident
    <3>4. work'.i = i /\ work'.p = q /\ work'.since = since
      BY <1>1, <2>1
    <3> QED
      BY <1>1, <1>6, <3>1, <3>2, <3>3, <3>4, EvidentFrom
         DEF Proper, Seen, Evidenced, Arts!Recorded, Arts!Early, Arts!Undated
  <2> QED
    BY <2>2, <2>3
<1>10. Spares
  BY <1>2 DEF Spares
<1> QED
  BY <1>6, <1>7, <1>8, <1>9, <1>10 DEF ArchiveInv

LEMMA DeviceKeepsArchives ==
  ASSUME ArchiveConstants, ArchiveInv, Arts!Device
  PROVE  ArchiveInv' /\ Spares /\ Retires
<1>0. copies \in [CopyPaths -> Copy] /\ None \in Copy /\ Edited \in Copy /\ Edited # None
  BY DEF ArchiveInv, ArchiveTypes, Copy, ArchiveConstants
<1>1. PICK p \in CopyPaths :
        \/ Arts!Take(p, [copies EXCEPT ![p] = None])
        \/ Arts!Take(p, [copies EXCEPT ![p] = Edited])
        \/ \E q \in CopyPaths : copies[q] = None /\ copies[p] # None
                                /\ Arts!Take(p, [copies EXCEPT ![p] = None, ![q] = copies[p]])
  BY Zenon DEF Arts!Device
<1>2. CASE Arts!Take(p, [copies EXCEPT ![p] = None])
  <2>1. PICK files : files = [copies EXCEPT ![p] = None]
    OBVIOUS
  <2>2. files \in [CopyPaths -> Copy] /\ \A q \in CopyPaths \ {p} : files[q] = copies[q]
    BY <1>0, <2>1
  <2> QED
    BY <1>2, <2>1, <2>2, TakeKeepsArchives
<1>3. CASE Arts!Take(p, [copies EXCEPT ![p] = Edited])
  <2>1. PICK files : files = [copies EXCEPT ![p] = Edited]
    OBVIOUS
  <2>2. files \in [CopyPaths -> Copy] /\ \A q \in CopyPaths \ {p} : files[q] = copies[q]
    BY <1>0, <2>1
  <2> QED
    BY <1>3, <2>1, <2>2, TakeKeepsArchives
<1>4. ASSUME NEW q \in CopyPaths, copies[q] = None, copies[p] # None,
             Arts!Take(p, [copies EXCEPT ![p] = None, ![q] = copies[p]])
      PROVE  ArchiveInv' /\ Spares /\ Retires
  <2>1. PICK files : files = [copies EXCEPT ![p] = None, ![q] = copies[p]]
    OBVIOUS
  <2>2. files \in [CopyPaths -> Copy] /\ \A k \in CopyPaths \ {p} : files[k] = copies[k] \/ files[k] # None
    BY <1>0, <1>4, <2>1
  <2> QED
    BY <1>4, <2>1, <2>2, TakeKeepsArchives
<1> QED
  BY <1>1, <1>2, <1>3, <1>4

\* Git's next commit: what it no longer finds was taken since the one before.
LEMMA SnapshotKeepsArchives ==
  ASSUME ArchiveConstants, ArchiveInv, Arts!Snapshot
  PROVE  ArchiveInv' /\ Spares /\ Retires
<1>0. ArchiveTypes /\ InHand /\ Guarded /\ GoesHome /\ Evident
  BY DEF ArchiveInv
<1>1. /\ UNCHANGED <<archive, copies, work, wrote, rleave>>
      /\ snapshot' = [head |-> copies, n |-> snapshot.n + 1,
                      gone |-> [p \in CopyPaths |-> IF snapshot.head[p] # None /\ copies[p] = None
                                                    THEN snapshot.n + 1 ELSE snapshot.gone[p]]]
  BY DEF Arts!Snapshot, Arts!disk
<1>2. copies \in [CopyPaths -> Copy] /\ snapshot.n \in Nat /\ snapshot.gone \in [CopyPaths -> Nat]
  BY <1>0 DEF ArchiveTypes
<1>3. /\ snapshot'.head = copies /\ snapshot'.n = snapshot.n + 1
      /\ \A p \in CopyPaths : snapshot'.gone[p] = IF snapshot.head[p] # None /\ copies[p] = None
                                                  THEN snapshot.n + 1 ELSE snapshot.gone[p]
  BY <1>1
<1>4. snapshot' \in [head : [CopyPaths -> Copy], gone : [CopyPaths -> Nat], n : Nat]
  BY <1>1, <1>2
<1>5. ArchiveTypes'
  BY <1>0, <1>1, <1>4 DEF ArchiveTypes, History, Whole
<1>7. InHand' /\ Guarded' /\ GoesHome'
  BY <1>0, <1>1 DEF InHand, Keen, Guarded, GoesHome, Arts!Live
<1>8. Spares /\ Retires
  BY <1>1 DEF Spares, Retires, Arts!Live
<1>9. CASE "shared" \in wrote.excuses
  <2>1. Evident'
    BY <1>9, <1>1 DEF Evident
  <2> QED
    BY <2>1, <1>5, <1>7, <1>8 DEF ArchiveInv
<1>10. CASE "shared" \notin wrote.excuses
  <2>1. ASSUME NEW i, Arts!Recorded(i) PROVE Arts!Recorded(i)'
    BY <2>1, <1>1, <1>2, <1>3 DEF Arts!Recorded
  <2>2. \A i : (Arts!Early(i)' <=> Arts!Early(i)) /\ (Arts!Undated(i)' <=> Arts!Undated(i))
    BY <1>1 DEF Arts!Early, Arts!Undated
  <2>3. ASSUME NEW i, NEW p \in CopyPaths, NEW d, Proper(i, p, d) PROVE Proper(i, p, d)'
    <3>1. Seen(i, p)'
      BY <1>1, <1>3 DEF Seen
    <3>2. CASE snapshot.head[p] # None /\ copies[p] = None
      <4>1. <<i, snapshot.n>> \in wrote.taken /\ snapshot.n \in 0 .. snapshot'.n - 1
        BY <1>2, <1>3, <2>3, <3>2 DEF Proper, Seen
      <4>2. Arts!Recorded(i)'
        BY <1>1, <4>1 DEF Arts!Recorded
      <4> QED
        BY <3>1, <4>2 DEF Proper
    <3>3. CASE ~(snapshot.head[p] # None /\ copies[p] = None)
      <4>1. snapshot'.gone[p] = snapshot.gone[p]
        BY <1>3, <3>3
      <4> QED
        BY <2>1, <2>2, <2>3, <3>1, <4>1 DEF Proper
    <3> QED
      BY <3>2, <3>3
  <2>4. EvidentLive'
    <3>1. ASSUME NEW i \in Artifact, Arts!Live(i) PROVE Arts!Undated(i)' \/ Proper(i, archive[i].path, archive[i].at)'
      <4>1. PICK p, d : p = archive[i].path /\ d = archive[i].at /\ p \in CopyPaths
        BY <1>0, <3>1, ArchivesAre DEF Arts!Live
      <4>2. Arts!Undated(i)' \/ Proper(i, p, d)'
        BY <1>0, <1>10, <2>2, <2>3, <3>1, <4>1 DEF Evident, EvidentLive
      <4> QED
        BY <1>1, <4>1, <4>2 DEF Proper, Seen
    <3> QED
      BY <1>1, <3>1 DEF EvidentLive, Arts!Live
  <2>5. /\ work.pc \in {"manifest", "revise"} => Proper(work.i, work.p, work.since)'
        /\ work.pc = "revise" => Arts!Undated(work.i)'
        /\ work.by = "sweep" /\ work.pc \in {"retire", "unlink", "removed"} => Evidenced(work.i)'
    <3>1. PICK i, q, since : i = work.i /\ q = work.p /\ since = work.since
      OBVIOUS
    <3>2. /\ work.pc \in {"manifest", "revise"} => Proper(i, q, since)'
          /\ work.pc = "revise" => Arts!Undated(i)'
          /\ work.by = "sweep" /\ work.pc \in {"retire", "unlink", "removed"} => Evidenced(i)'
      BY <1>0, <1>10, <2>1, <2>2, <2>3, <3>1 DEF Evident, InHand, Evidenced
    <3>3. work'.i = i /\ work'.p = q /\ work'.since = since
      BY <1>1, <3>1
    <3> QED
      BY <3>2, <3>3 DEF Proper, Seen, Evidenced, Arts!Recorded, Arts!Early, Arts!Undated
  <2>6. Evident'
    BY <1>1, <2>4, <2>5, EvidentFrom
  <2> QED
    BY <2>6, <1>5, <1>7, <1>8 DEF ArchiveInv
<1> QED
  BY <1>9, <1>10

-----------------------------------------------------------------------------
LEMMA WorksKeepArchives ==
  ASSUME ArchiveConstants, ArchiveInv, Arts!Works
  PROVE  ArchiveInv' /\ Spares /\ Retires
<1>1. CASE Arts!Place \/ Arts!WriteManifest \/ Arts!WriteRecord
  BY <1>1, PlaceKeepsArchives, ManifestKeepsArchives, RecordKeepsArchives
<1>2. CASE Arts!Bring \/ Arts!Replace \/ Arts!ReviseManifest
  BY <1>2, BringKeepsArchives, ReplaceKeepsArchives, RevisionKeepsArchives
<1>3. CASE Arts!Retire \/ Arts!Unlink \/ Arts!MarkRemoved \/ Arts!Commit
  BY <1>3, RetireKeepsArchives, UnlinkKeepsArchives, MarkKeepsArchives, CommitKeepsArchives
<1>4. CASE Arts!Forget \/ Arts!Observe \/ Arts!Search \/ Arts!MovedBack \/ Arts!AskGit
  BY <1>4, ForgetKeepsArchives, ObserveKeepsArchives, SearchKeepsArchives, MovedKeepsArchives, AskKeepsArchives
<1> QED
  BY <1>1, <1>2, <1>3, <1>4 DEF Arts!Works

\* The sweep retires only what was taken away, and what a person wrote stays at its place.
THEOREM ArtifactsAlwaysStand == Arts!Spec => ArtifactsStand
<1> USE ServicesAssumption
<1>1. Arts!Init => ArchiveInv
  BY ArchiveBegins DEF ServicesAssumption
<1>2. ArchiveInv /\ [Arts!Next]_(Arts!vars) => ArchiveInv' /\ [Spares]_(Arts!vars) /\ [Retires]_(Arts!vars)
  <2> SUFFICES ASSUME ArchiveInv, [Arts!Next]_(Arts!vars)
               PROVE  ArchiveInv' /\ [Spares]_(Arts!vars) /\ [Retires]_(Arts!vars)
    OBVIOUS
  <2>0. ArchiveConstants
    BY DEF ServicesAssumption
  <2>1. CASE Arts!Works
    BY <2>0, <2>1, WorksKeepArchives
  <2>2. CASE Arts!Sweeps
    BY <2>0, <2>2, BooksKeepArchives, VisitKeepsArchives DEF Arts!Sweeps
  <2>3. CASE Arts!Recover
    BY <2>0, <2>3, BooksKeepArchives
  <2>4. CASE Arts!Requests
    BY <2>0, <2>4, CreateKeepsArchives, RemoveKeepsArchives, ReviseKeepsArchives, BooksKeepArchives DEF Arts!Requests
  <2>5. CASE Arts!Faults
    BY <2>0, <2>5, CreateFailsKeepsArchives, ReviseFailsKeepsArchives, CommitFailsKeepsArchives,
       SearchFailsKeepsArchives, RestartKeepsArchives DEF Arts!Faults
  <2>6. CASE Arts!Device
    BY <2>0, <2>6, DeviceKeepsArchives
  <2>7. CASE Arts!Snapshot
    BY <2>0, <2>7, SnapshotKeepsArchives
  <2>8. CASE UNCHANGED Arts!vars
    <3>1. UNCHANGED <<archive, copies, snapshot, wrote, work, rleave>>
      BY <2>8 DEF Arts!vars
    <3>2. rleave' \in [requests : Nat, writes : Nat, faults : Nat]
      BY <3>1 DEF ArchiveInv, ArchiveTypes
    <3> QED
      BY <2>0, <3>1, <3>2, OnlyBooks
  <2> QED
    BY <2>1, <2>2, <2>3, <2>4, <2>5, <2>6, <2>7, <2>8 DEF Arts!Next
<1>3. Arts!Spec => [][Spares]_(Arts!vars) /\ [][Retires]_(Arts!vars)
  BY <1>1, <1>2, PTL DEF Arts!Spec
<1>4. [][Spares]_(Arts!vars) => Arts!PersonsBytesStay
  BY PTL DEF Arts!PersonsBytesStay, Spares
<1>5. [][Retires]_(Arts!vars) => Arts!RetiredWasRemoved
  <2>1. Retires => \A i \in Artifact : Arts!SweepRetires(i) =>
                      Arts!Recorded(i) \/ Arts!Early(i) \/ Arts!Undated(i) \/ Arts!SharedPlace
    BY DEF Retires, Evidenced, Arts!SweepRetires, Arts!SharedPlace
  <2> QED
    BY <2>1, PTL DEF Arts!RetiredWasRemoved
<1> QED
  BY <1>3, <1>4, <1>5 DEF ArtifactsStand, Arts!ArtifactsStand

-----------------------------------------------------------------------------
(* Dossiers: what the owner says is heard, and nobody else is taken for the owner *)

OwnersTexts == {"word", "asked"} \X Nat
States == [state : {"confirmed", "withdrawn"}, why : {None, "evidence"}]

\* The words there have been so far; the next ones of the owner are none of them.
Expects == job.pc = "change" \/ job.then = "change"
Spent == {w \in Texts : /\ w[1] = "word" => w[2] > dleave.edits
                        /\ w[1] = "asked" => w[2] > dleave.changes \/ (w[2] = dleave.changes /\ ~Expects)}

\* A page, of the words S.
WellFormed(b, S) ==
    /\ b = Doss!Block(b.lines, b.rest, b.retired) /\ b.retired \in BOOLEAN /\ b.rest \subseteq S
    /\ \A l \in b.lines : l = Doss!Line(l.id, l.text) /\ l.id \subseteq S /\ l.text \subseteq S /\ l.text # {}
    /\ \A l, m \in b.lines : l.id = m.id => l = m
    /\ b.retired => b.lines = {}
    /\ \A l \in b.lines, v \in Editions : l.id = Doss!Mention(v) => Doss!Evidence(v) \in b.rest
Drawn(b, c) ==
    /\ \A l \in b.lines : l.text = l.id /\ l.id \in Doss!Ids(c)
    /\ \A w \in b.rest : \E v \in Editions : w = Doss!Evidence(v)

\* A catalog, by what the owner o has said: what it silences and what it has in the owner's words.
Shaped(c) ==
    /\ c = [facts |-> c.facts, generated |-> c.generated, pending |-> c.pending, retired |-> c.retired]
    /\ c.facts \in [Doss!Ids(c) -> States] /\ c.retired \in BOOLEAN
Silenced(c, id) == id \in Doss!Ids(c) /\ c.facts[id] = Doss!Fact("withdrawn", None)
InFact(c, w) == \E id \in Doss!Ids(c) : w \in id
Planned(c) == c.generated # None =>
    \A o \in c.generated.lines : \/ o \in c.pending.lines \/ Silenced(c, o.id) \/ c.pending.retired
                                 \/ \E v \in Editions : o.id = Doss!Mention(v) /\ Doss!Evidence(v) \notin c.pending.rest
Sound(c, o, S) ==
    /\ Shaped(c)
    /\ \A id \in Doss!Ids(c) : id # {} /\ id \subseteq S
    /\ c.generated # None => /\ WellFormed(c.generated, S)
                             /\ \A l \in c.generated.lines : l.id \in Doss!Ids(c) /\ (l.text = l.id \/ Silenced(c, l.id))
    /\ c.pending # None => WellFormed(c.pending, S) /\ Drawn(c.pending, c) /\ Planned(c)
    /\ \A id \in Doss!Ids(c) : /\ ~Doss!OfNote(id) => id \subseteq o.wrote /\ c.facts[id].why = None
                               /\ Silenced(c, id) => id \in o.gone

\* A page that is there is the one the catalog knows with the owner's edits, all of which the next
\* reading hears; where it is gone, the catalog has heard everything.
Follows(c, p, o) ==
    /\ c.generated # None /\ p.retired = c.generated.retired
    /\ \A l \in c.generated.lines \ p.lines : l.id \in o.gone
    /\ c.generated.rest \subseteq p.rest
    /\ \A w \in p.rest \ c.generated.rest : w \in o.wrote /\ ~InFact(c, w)
    /\ \A l \in p.lines \ c.generated.lines :
         /\ \E m \in c.generated.lines \ p.lines : m.id = l.id /\ m.text # l.text
         /\ \A w \in l.text : w \in o.wrote /\ ~InFact(c, w)
    /\ \A id \in o.gone : Silenced(c, id) \/ \E l \in c.generated.lines \ p.lines : l.id = id
    /\ \A w \in o.wrote \ o.took :
         InFact(c, w) \/ w \in p.rest \ c.generated.rest \/ \E l \in p.lines \ c.generated.lines : w \in l.text
Alone(c, o) == /\ \A id \in o.gone : Silenced(c, id)
               /\ \A w \in o.wrote \ o.took : InFact(c, w)
Book(c, p, o, S) == /\ Sound(c, o, S)
                    /\ p = None => Alone(c, o)
                    /\ p # None => Follows(c, p, o)
Later(c, d) == /\ \A id \in Doss!Ids(d) : id \in Doss!Ids(c) /\ (Silenced(d, id) => Silenced(c, id))
               /\ \A id \in Doss!Ids(c) \ Doss!Ids(d) : Doss!OfNote(id)

\* After a crash the page is what the catalog expects, and its next reading says so.
OnDisk == IF torn = None THEN catalog ELSE [catalog EXCEPT !.generated = torn, !.pending = None]
DossierTypes ==
    /\ page # None => WellFormed(page, Spent)
    /\ dnote \in Editions \cup {None}
    /\ torn # None => torn = catalog.pending /\ job.pc \in {"idle", "save"}
    /\ job = [pc |-> job.pc, mem |-> job.mem, seen |-> job.seen, then |-> job.then] /\ job.then \in {None, "change"}
    /\ person = [gone |-> person.gone, wrote |-> person.wrote, took |-> person.took]
    /\ person.wrote \subseteq Spent \cap OwnersTexts
    /\ Shaped(catalog)
    /\ dleave \in [edits : Nat, changes : Nat, mirrors : Nat, faults : Nat]
Resting == job.pc \in {"idle", "change"} => job.then = None /\ Book(OnDisk, page, person, Spent)
Working == job.pc \notin {"idle", "change"} =>
    /\ job.pc \in {"write", "place", "save"}
    /\ Book(job.mem, page, person, Spent) /\ Later(job.mem, OnDisk)
    /\ Sound(OnDisk, person, Spent) /\ (page # None => Book(OnDisk, page, person, Spent))
    /\ job.pc # "save" => catalog = job.mem /\ job.mem.generated = job.seen /\ job.mem.pending = Doss!Render(job.mem)
DossierInv == unheard = {} => DossierTypes /\ Resting /\ Working

-----------------------------------------------------------------------------
(* What the operations do to a catalog *)

LEMMA FactsDiffer ==
  ASSUME DossierConstants
  PROVE  /\ Doss!Fact("withdrawn", None) \in States /\ Doss!Fact("confirmed", None) \in States
         /\ Doss!Fact("withdrawn", "evidence") \in States
         /\ Doss!Fact("withdrawn", None) # Doss!Fact("confirmed", None)
         /\ Doss!Fact("withdrawn", None) # Doss!Fact("withdrawn", "evidence")
         /\ \A f \in States : f = [state |-> f.state, why |-> f.why]
BY DEF DossierConstants, Doss!Fact, States

LEMMA WithGives ==
  ASSUME NEW c, Shaped(c), NEW ids, NEW fact \in States, NEW d, d = Doss!With(c, ids, fact)
  PROVE  /\ Shaped(d) /\ Doss!Ids(d) = Doss!Ids(c) \cup ids
         /\ d.generated = c.generated /\ d.pending = c.pending /\ d.retired = c.retired
         /\ \A id \in Doss!Ids(d) : d.facts[id] = IF id \in ids THEN fact ELSE c.facts[id]
<1>1. PICK g : g = [id \in Doss!Ids(c) \cup ids |-> IF id \in ids THEN fact ELSE c.facts[id]]
  OBVIOUS
<1>2. d = [c EXCEPT !.facts = g]
  BY <1>1 DEF Doss!With
<1>3. g \in [Doss!Ids(c) \cup ids -> States] /\ \A id \in Doss!Ids(c) \cup ids : g[id] = IF id \in ids THEN fact ELSE c.facts[id]
  BY <1>1 DEF Shaped
<1>4. /\ d = [facts |-> g, generated |-> c.generated, pending |-> c.pending, retired |-> c.retired]
      /\ c.retired \in BOOLEAN
  BY <1>2 DEF Shaped
<1>5. d.facts = g /\ d.generated = c.generated /\ d.pending = c.pending /\ d.retired = c.retired
  BY <1>4
<1>6. Doss!Ids(d) = Doss!Ids(c) \cup ids
  BY <1>3, <1>5 DEF Doss!Ids
<1> QED
  BY <1>3, <1>4, <1>5, <1>6 DEF Shaped

LEMMA MentionsAre ==
  /\ \A v, w : Doss!Mention(v) = Doss!Mention(w) <=> v = w
  /\ \A v, w : Doss!Evidence(v) = Doss!Evidence(w) <=> v = w
  /\ \A v \in Editions : Doss!Mention(v) # {} /\ Doss!Mention(v) \subseteq Spent /\ Doss!Evidence(v) \in Spent
  /\ \A id, w : Doss!OfNote(id) /\ w \in id => w \notin OwnersTexts
  /\ \A v : Doss!Evidence(v) \notin OwnersTexts
<1>1. \A v, w : <<"mention", v>> = <<"mention", w>> <=> v = w
  OBVIOUS
<1>2. \A v, w : <<"evidence", v>> = <<"evidence", w>> <=> v = w
  OBVIOUS
<1>3. \A v \in Editions : <<"mention", v>> \in Spent /\ <<"evidence", v>> \in Spent
  BY DEF Spent, Texts
<1>4. \A v : <<"mention", v>> \notin OwnersTexts /\ <<"evidence", v>> \notin OwnersTexts
  BY DEF OwnersTexts
<1>5. \A v, w : Doss!Mention(v) = Doss!Mention(w) <=> v = w
  BY <1>1, Zenon DEF Doss!Mention
<1>6. \A v \in Editions : Doss!Mention(v) # {} /\ Doss!Mention(v) \subseteq Spent /\ Doss!Evidence(v) \in Spent
  BY <1>3, Zenon DEF Doss!Mention, Doss!Evidence
<1>7. \A id, w : Doss!OfNote(id) /\ w \in id => w \notin OwnersTexts
  <2> SUFFICES ASSUME NEW id, NEW w, Doss!OfNote(id), w \in id PROVE w \notin OwnersTexts
    OBVIOUS
  <2>1. PICK v \in Editions : id = {<<"mention", v>>}
    BY DEF Doss!OfNote, Doss!Mention
  <2>2. w = <<"mention", v>>
    BY <2>1
  <2> QED
    BY <2>2, <1>4
<1> QED
  BY <1>2, <1>4, <1>5, <1>6, <1>7 DEF Doss!Evidence

LEMMA ContributeGives ==
  ASSUME DossierConstants, DossierTypes, NEW c, Shaped(c), NEW d, d = Doss!Contribute(c)
  PROVE  /\ Shaped(d) /\ Doss!Ids(c) \subseteq Doss!Ids(d)
         /\ d.generated = c.generated /\ d.pending = c.pending /\ d.retired = c.retired
         /\ \A id \in Doss!Ids(d) \ Doss!Ids(c) : Doss!OfNote(id) /\ ~Silenced(d, id) /\ ~c.retired
         /\ \A id \in Doss!Ids(c) : (Silenced(d, id) <=> Silenced(c, id)) /\ (~Doss!OfNote(id) => d.facts[id] = c.facts[id])
<1>1. PICK new : new = IF dnote # None /\ ~c.retired THEN {Doss!Mention(dnote)} \ Doss!Ids(c) ELSE {}
  OBVIOUS
<1>2. \A id \in new : Doss!OfNote(id) /\ Doss!Supported(id) /\ id \notin Doss!Ids(c) /\ ~c.retired
  BY <1>1 DEF DossierTypes, Doss!OfNote, Doss!Supported
<1>3. PICK all : all = Doss!Confirm(c, new)
  OBVIOUS
<1>4. /\ Shaped(all) /\ Doss!Ids(all) = Doss!Ids(c) \cup new
      /\ all.generated = c.generated /\ all.pending = c.pending /\ all.retired = c.retired
      /\ \A id \in Doss!Ids(all) : all.facts[id] = IF id \in new THEN Doss!Fact("confirmed", None) ELSE c.facts[id]
  BY <1>3, FactsDiffer, WithGives DEF Doss!Confirm
<1>5. PICK g : g = [id \in Doss!Ids(all) |->
         IF ~Doss!OfNote(id) THEN all.facts[id]
         ELSE IF ~Doss!Supported(id)
         THEN IF all.facts[id].state = "confirmed" THEN Doss!Fact("withdrawn", "evidence") ELSE all.facts[id]
         ELSE IF all.facts[id] = Doss!Fact("withdrawn", "evidence") THEN Doss!Fact("confirmed", None) ELSE all.facts[id]]
  OBVIOUS
<1>6. d = [all EXCEPT !.facts = g]
  BY <1>1, <1>3, <1>5 DEF Doss!Contribute
<1>7. /\ g \in [Doss!Ids(all) -> States]
      /\ \A id \in Doss!Ids(all) : g[id] = Doss!Fact("withdrawn", None) <=> all.facts[id] = Doss!Fact("withdrawn", None)
      /\ \A id \in Doss!Ids(all) : ~Doss!OfNote(id) => g[id] = all.facts[id]
  <2>1. \A id \in Doss!Ids(all) : all.facts[id] \in States
    BY <1>4 DEF Shaped
  <2>2. \A f \in States : f.state = "confirmed" => f # Doss!Fact("withdrawn", None)
    BY DEF Doss!Fact
  <2> QED
    BY <1>5, <2>1, <2>2, FactsDiffer
<1>8. d = [facts |-> g, generated |-> c.generated, pending |-> c.pending, retired |-> c.retired] /\ c.retired \in BOOLEAN
  BY <1>4, <1>6 DEF Shaped
<1>9. d.facts = g /\ d.generated = c.generated /\ d.pending = c.pending /\ d.retired = c.retired
  BY <1>8
<1>10. Doss!Ids(d) = Doss!Ids(c) \cup new
  BY <1>4, <1>7, <1>9 DEF Doss!Ids
<1>11. Shaped(d)
  BY <1>4, <1>7, <1>8, <1>9, <1>10 DEF Shaped
<1>12. \A id \in new : ~Silenced(d, id)
  BY <1>4, <1>7, <1>9, <1>10, FactsDiffer DEF Silenced
<1>13. \A id \in Doss!Ids(c) : (Silenced(d, id) <=> Silenced(c, id)) /\ (~Doss!OfNote(id) => d.facts[id] = c.facts[id])
  BY <1>2, <1>4, <1>7, <1>9, <1>10 DEF Silenced
<1> QED
  BY <1>2, <1>9, <1>10, <1>11, <1>12, <1>13

\* Facts of the note's own come and go; nothing of that concerns what the owner said.
LEMMA OthersFacts ==
  ASSUME DossierConstants, NEW c, NEW d, NEW p, NEW o, NEW S, Book(c, p, o, S), o.wrote \subseteq OwnersTexts, Spent \subseteq S,
         Shaped(d), Doss!Ids(c) \subseteq Doss!Ids(d), d.generated = c.generated, d.pending = c.pending,
         \A id \in Doss!Ids(d) \ Doss!Ids(c) : Doss!OfNote(id) /\ ~Silenced(d, id),
         \A id \in Doss!Ids(c) : (Silenced(d, id) <=> Silenced(c, id)) /\ (~Doss!OfNote(id) => d.facts[id] = c.facts[id])
  PROVE  Book(d, p, o, S)
<1>0. Sound(c, o, S)
  BY DEF Book
<1>1. \A id : Silenced(d, id) <=> Silenced(c, id)
  BY DEF Silenced
<1>2. \A w \in o.wrote : InFact(d, w) <=> InFact(c, w)
  BY MentionsAre DEF InFact
<1>3. \A id \in Doss!Ids(d) \ Doss!Ids(c) : id # {} /\ id \subseteq S
  BY MentionsAre DEF Doss!OfNote
<1>4. c.generated # None => \A l \in c.generated.lines : l.id \in Doss!Ids(d) /\ (l.text = l.id \/ Silenced(d, l.id))
  BY <1>0, <1>1 DEF Sound
<1>5. c.pending # None => Drawn(c.pending, d) /\ Planned(d)
  <2>1. Planned(c) => Planned(d)
    BY <1>1 DEF Planned
  <2>2. c.pending # None => Drawn(c.pending, c) /\ Planned(c)
    BY <1>0 DEF Sound
  <2>3. Drawn(c.pending, c) => Drawn(c.pending, d)
    BY DEF Drawn
  <2> QED
    BY <2>1, <2>2, <2>3
<1>6. \A id \in Doss!Ids(d) : /\ ~Doss!OfNote(id) => id \subseteq o.wrote /\ d.facts[id].why = None
                              /\ Silenced(d, id) => id \in o.gone
  BY <1>0, <1>1 DEF Sound
<1>7. Sound(d, o, S)
  BY <1>0, <1>3, <1>4, <1>5, <1>6 DEF Sound
<1>8. Follows(c, p, o) => Follows(d, p, o)
  BY <1>1, <1>2 DEF Follows
<1>9. Alone(c, o) => Alone(d, o)
  BY <1>1, <1>2 DEF Alone
<1> QED
  BY <1>7, <1>8, <1>9 DEF Book

-----------------------------------------------------------------------------
(* A page is drawn from a catalog, and read *)

LEMMA RenderGives ==
  ASSUME DossierConstants, NEW c, Shaped(c), NEW S, S \subseteq Texts, Spent \subseteq S,
         \A id \in Doss!Ids(c) : id # {} /\ id \subseteq S, NEW b, b = Doss!Render(c)
  PROVE  /\ WellFormed(b, S) /\ Drawn(b, c) /\ b.retired = c.retired /\ b # None
         /\ \A id \in Doss!Ids(c) : Doss!Is(c, id, "confirmed") /\ ~c.retired => Doss!Line(id, id) \in b.lines
         /\ \A v \in Editions : ~Doss!Is(c, Doss!Mention(v), "confirmed") => Doss!Evidence(v) \notin b.rest
<1>1. CASE c.retired
  <2>1. b = [lines |-> {}, rest |-> {}, retired |-> TRUE]
    BY <1>1 DEF Doss!Render, Doss!Block
  <2>2. b \in Blocks
    BY <2>1 DEF Blocks
  <2>3. b # None
    BY <2>2 DEF DossierConstants
  <2>4. b.lines = {} /\ b.rest = {} /\ b.retired = TRUE
    BY <2>1
  <2>5. WellFormed(b, S)
    BY <2>1, <2>4 DEF WellFormed, Doss!Block
  <2>6. Drawn(b, c)
    BY <2>4 DEF Drawn
  <2> QED
    BY <1>1, <2>3, <2>4, <2>5, <2>6
<1>2. CASE ~c.retired
  <2>1. PICK shown : shown = {id \in Doss!Ids(c) : Doss!Is(c, id, "confirmed")}
    OBVIOUS
  <2>2. PICK lines : lines = {Doss!Line(id, id) : id \in shown}
    OBVIOUS
  <2>3. PICK rest : rest = {Doss!Evidence(v) : v \in {v \in Editions : Doss!Mention(v) \in shown}}
    OBVIOUS
  <2>4. b = [lines |-> lines, rest |-> rest, retired |-> FALSE]
    BY <1>2, <2>1, <2>2, <2>3 DEF Doss!Render, Doss!Block
  <2>5. \A l : l \in lines <=> \E id \in shown : l = [id |-> id, text |-> id]
    BY <2>2 DEF Doss!Line
  <2>6. \A w : w \in rest <=> \E v \in Editions : Doss!Mention(v) \in shown /\ w = Doss!Evidence(v)
    BY <2>3
  <2>7. /\ \A l \in lines : /\ l = Doss!Line(l.id, l.text) /\ l.text = l.id /\ l.id \in Doss!Ids(c)
                            /\ l.id \subseteq S /\ l.text \subseteq S /\ l.text # {} /\ l.id \in shown
        /\ \A l, m \in lines : l.id = m.id => l = m
    BY <2>1, <2>5 DEF Doss!Line
  <2>8. /\ \A w \in rest : \E v \in Editions : w = Doss!Evidence(v)
        /\ rest \subseteq S
    BY <2>6, MentionsAre
  <2>9. \A l \in lines, v \in Editions : l.id = Doss!Mention(v) => Doss!Evidence(v) \in rest
    BY <2>6, <2>7
  <2>10. WellFormed(b, S)
    BY <2>4, <2>7, <2>8, <2>9 DEF WellFormed, Doss!Block
  <2>11. lines \subseteq Lines
    BY <2>1, <2>5 DEF Lines
  <2>12. b \in Blocks
    BY <2>4, <2>8, <2>11 DEF Blocks
  <2>13. Drawn(b, c) /\ b.retired = c.retired /\ b # None
    <3>1. b # None
      BY <2>12 DEF DossierConstants
    <3>2. b.lines = lines /\ b.rest = rest /\ b.retired = FALSE
      BY <2>4
    <3>3. c.retired = FALSE
      BY <1>2 DEF Shaped
    <3>4. Drawn(b, c)
      BY <2>7, <2>8, <3>2 DEF Drawn
    <3> QED
      BY <3>1, <3>2, <3>3, <3>4
  <2>14. \A id \in Doss!Ids(c) : Doss!Is(c, id, "confirmed") => Doss!Line(id, id) \in b.lines
    BY <2>1, <2>4, <2>5 DEF Doss!Line
  <2>15. \A v \in Editions : ~Doss!Is(c, Doss!Mention(v), "confirmed") => Doss!Evidence(v) \notin b.rest
    BY <2>1, <2>4, <2>6, MentionsAre
  <2> QED
    BY <2>10, <2>13, <2>14, <2>15
<1> QED
  BY <1>1, <1>2 DEF Shaped

\* What is to be written next is noted down.
LEMMA PlanBook ==
  ASSUME DossierConstants, NEW c, NEW p, NEW o, NEW S, S \subseteq Texts, Spent \subseteq S, Book(c, p, o, S),
         NEW d, d = [c EXCEPT !.pending = Doss!Render(c)]
  PROVE  /\ Book(d, p, o, S) /\ Doss!Ids(d) = Doss!Ids(c) /\ \A id : Silenced(d, id) <=> Silenced(c, id)
         /\ d.generated = c.generated /\ d.pending = Doss!Render(d) /\ d.pending = Doss!Render(c)
<1>0. Sound(c, o, S) /\ Shaped(c)
  BY DEF Book, Sound
<1>1. PICK b : b = Doss!Render(c)
  OBVIOUS
<1>2. /\ d = [facts |-> c.facts, generated |-> c.generated, pending |-> b, retired |-> c.retired]
      /\ d.facts = c.facts /\ d.generated = c.generated /\ d.pending = b /\ d.retired = c.retired
  BY <1>0, <1>1 DEF Shaped
<1>3. Doss!Ids(d) = Doss!Ids(c)
  BY <1>2 DEF Doss!Ids
<1>4. (\A id : Silenced(d, id) <=> Silenced(c, id)) /\ (\A w : InFact(d, w) <=> InFact(c, w))
  BY <1>2, <1>3 DEF Silenced, InFact
<1>5. d.pending = Doss!Render(d)
  <2>1. \A id : Doss!Is(d, id, "confirmed") <=> Doss!Is(c, id, "confirmed")
    BY <1>2, <1>3 DEF Doss!Is
  <2> QED
    BY <1>1, <1>2, <1>3, <2>1 DEF Doss!Render
<1>6. /\ WellFormed(b, S) /\ Drawn(b, c) /\ b.retired = c.retired /\ b # None
      /\ \A id \in Doss!Ids(c) : Doss!Is(c, id, "confirmed") /\ ~c.retired => Doss!Line(id, id) \in b.lines
      /\ \A v \in Editions : ~Doss!Is(c, Doss!Mention(v), "confirmed") => Doss!Evidence(v) \notin b.rest
  <2>1. \A id \in Doss!Ids(c) : id # {} /\ id \subseteq S
    BY <1>0 DEF Sound
  <2> QED
    BY <1>0, <1>1, <2>1, RenderGives
<1>7. Planned(d)
  <2> SUFFICES ASSUME c.generated # None, NEW l \in c.generated.lines, ~Silenced(c, l.id), ~c.retired
               PROVE  \/ l \in b.lines
                      \/ \E v \in Editions : l.id = Doss!Mention(v) /\ Doss!Evidence(v) \notin b.rest
    BY <1>2, <1>4, <1>6 DEF Planned
  <2>1. l = Doss!Line(l.id, l.text) /\ l.id \in Doss!Ids(c) /\ l.text = l.id
    BY <1>0 DEF Sound, WellFormed
  <2>2. CASE Doss!Is(c, l.id, "confirmed")
    BY <1>6, <2>1, <2>2
  <2>3. CASE ~Doss!Is(c, l.id, "confirmed")
    <3>1. PICK f \in States : f = c.facts[l.id]
      BY <1>0, <2>1 DEF Shaped
    <3>2. f.state # "confirmed" /\ f # Doss!Fact("withdrawn", None)
      BY <2>1, <2>3, <3>1 DEF Doss!Is, Silenced
    <3>3. f.why # None
      BY <3>2, FactsDiffer DEF States, Doss!Fact
    <3>4. Doss!OfNote(l.id)
      BY <1>0, <2>1, <3>1, <3>3 DEF Sound
    <3> QED
      BY <1>6, <2>3, <3>4 DEF Doss!OfNote
  <2> QED
    BY <2>2, <2>3
<1>8. Sound(d, o, S)
  <2>1. Shaped(d)
    BY <1>0, <1>2, <1>3 DEF Shaped
  <2>2. Drawn(b, d)
    BY <1>3, <1>6 DEF Drawn
  <2> QED
    BY <1>0, <1>2, <1>3, <1>4, <1>6, <1>7, <2>1, <2>2 DEF Sound
<1>9. (Follows(c, p, o) => Follows(d, p, o)) /\ (Alone(c, o) => Alone(d, o))
  BY <1>2, <1>4 DEF Follows, Alone
<1> QED
  BY <1>1, <1>2, <1>3, <1>4, <1>5, <1>8, <1>9 DEF Book

\* A page that is what was to be written is known, even where the owner made it so.
LEMMA KnownBook ==
  ASSUME DossierConstants, NEW c, NEW o, NEW S, Book(c, page, o, S), o.wrote \subseteq OwnersTexts,
         NEW k, k = Doss!Known(c)
  PROVE  /\ Book(k, page, o, S) /\ Doss!Ids(k) = Doss!Ids(c) /\ k.facts = c.facts /\ k.retired = c.retired
         /\ page = None => k = c
<1>0. Sound(c, o, S) /\ Shaped(c)
  BY DEF Book, Sound
<1>1. CASE ~(page = c.pending /\ page # None)
  BY <1>1 DEF Doss!Known
<1>2. CASE page = c.pending /\ page # None
  <2>1. k = [c EXCEPT !.generated = page, !.pending = None]
    BY <1>2 DEF Doss!Known
  <2>2. /\ k = [facts |-> c.facts, generated |-> page, pending |-> None, retired |-> c.retired]
        /\ k.facts = c.facts /\ k.generated = page /\ k.pending = None /\ k.retired = c.retired
    BY <1>0, <2>1 DEF Shaped
  <2>3. Doss!Ids(k) = Doss!Ids(c)
    BY <2>2 DEF Doss!Ids
  <2>4. (\A id : Silenced(k, id) <=> Silenced(c, id)) /\ (\A w : InFact(k, w) <=> InFact(c, w))
    BY <2>2, <2>3 DEF Silenced, InFact
  <2>5. WellFormed(page, S) /\ Drawn(page, c) /\ Planned(c) /\ Follows(c, page, o)
    BY <1>0, <1>2 DEF Sound, Book
  <2>6. Sound(k, o, S)
    <3>1. Shaped(k)
      BY <1>0, <2>2, <2>3 DEF Shaped
    <3>2. \A l \in page.lines : l.id \in Doss!Ids(k) /\ l.text = l.id
      BY <2>3, <2>5 DEF Drawn
    <3> QED
      BY <1>0, <2>2, <2>3, <2>4, <2>5, <3>1, <3>2 DEF Sound
  <2>7. \A id \in o.gone : Silenced(k, id)
    <3> SUFFICES ASSUME NEW id \in o.gone, ~Silenced(c, id) PROVE FALSE
      BY <2>4
    <3>1. PICK l \in c.generated.lines \ page.lines : c.generated # None /\ l.id = id
      BY <2>5 DEF Follows
    <3>2. WellFormed(c.generated, S)
      BY <1>0, <3>1 DEF Sound
    <3>3. \/ page.retired
          \/ \E v \in Editions : l.id = Doss!Mention(v) /\ Doss!Evidence(v) \notin page.rest
      BY <1>2, <2>5, <3>1 DEF Planned
    <3>4. ~page.retired
      BY <2>5, <3>1, <3>2 DEF Follows, WellFormed
    <3>5. \A v \in Editions : l.id = Doss!Mention(v) => Doss!Evidence(v) \in page.rest
      BY <2>5, <3>1, <3>2 DEF Follows, WellFormed
    <3> QED
      BY <3>3, <3>4, <3>5
  <2>8. \A w \in o.wrote \ o.took : InFact(k, w)
    <3> SUFFICES ASSUME NEW w \in o.wrote \ o.took PROVE InFact(c, w)
      BY <2>4
    <3>1. w \notin page.rest
      BY <2>5, MentionsAre DEF Drawn
    <3>2. \A l \in page.lines : w \in l.text => InFact(c, w)
      BY <2>5 DEF Drawn, InFact
    <3> QED
      BY <2>5, <3>1, <3>2 DEF Follows
  <2>9. Follows(k, page, o)
    BY <1>2, <2>2, <2>7, <2>8 DEF Follows
  <2> QED
    BY <1>2, <2>2, <2>3, <2>6, <2>9 DEF Book
<1> QED
  BY <1>1, <1>2

\* What is different on the page is what the owner did to it.
LEMMA CorrectedBook ==
  ASSUME DossierConstants, NEW c, NEW o, NEW S, Book(c, page, o, S), o.wrote \subseteq OwnersTexts,
         page # None, WellFormed(page, S), ~Doss!Overtaken(c), page # c.generated,
         NEW d, d = Doss!Corrected(c)
  PROVE  /\ Book(d, page, o, S) /\ d.generated = page /\ d.retired = c.retired
         /\ Doss!Ids(c) \subseteq Doss!Ids(d) /\ \A id : Silenced(c, id) => Silenced(d, id)
         /\ \A x : Drawn(page, x) => Doss!Ids(d) = Doss!Ids(c)
<1>0. Sound(c, o, S) /\ Shaped(c) /\ Follows(c, page, o) /\ c.generated # None /\ WellFormed(c.generated, S)
  BY DEF Book, Sound, Follows
<1>1. PICK old : old = c.generated
  OBVIOUS
<1>2. PICK open : open = {l \in old.lines : Doss!Is(c, l.id, "confirmed")}
  OBVIOUS
<1>3. PICK edits : edits = {l \in page.lines : \E m \in open : m.id = l.id /\ m.text # l.text}
  OBVIOUS
<1>4. PICK gone : gone = {m.id : m \in {m \in open : m \notin page.lines}}
  OBVIOUS
<1>5. PICK more : more = page.rest \ old.rest
  OBVIOUS
<1>6. PICK words : words = {l.text : l \in edits} \cup (IF more = {} THEN {} ELSE {more})
  OBVIOUS
<1>7. PICK e : e = Doss!Withdraw(c, gone)
  OBVIOUS
<1>8. PICK f : f = Doss!Confirm(e, words)
  OBVIOUS
<1>9. d = [f EXCEPT !.generated = page, !.pending = None]
  BY <1>1, <1>2, <1>3, <1>4, <1>5, <1>6, <1>7, <1>8 DEF Doss!Corrected
<1>10. \A l \in old.lines \ page.lines : l \in open
  BY <1>0, <1>1, <1>2 DEF Doss!Overtaken
<1>11. \A id : id \in gone <=> \E l \in old.lines \ page.lines : l.id = id
  BY <1>2, <1>4, <1>10
<1>12. \A l : l \in edits <=> l \in page.lines \ old.lines
  <2>1. ASSUME NEW l \in edits PROVE l \in page.lines \ old.lines
    BY <1>0, <1>1, <1>2, <1>3, <2>1 DEF WellFormed
  <2>2. ASSUME NEW l \in page.lines \ old.lines PROVE l \in edits
    BY <1>0, <1>1, <1>3, <1>10, <2>2 DEF Follows
  <2> QED
    BY <2>1, <2>2
<1>13. \A x : x \in words <=> (x = more /\ more # {}) \/ \E l \in page.lines \ old.lines : x = l.text
  BY <1>6, <1>12
<1>14. \A x \in words : x # {} /\ x \subseteq S /\ x \subseteq o.wrote /\ \A w \in x : ~InFact(c, w)
  <2>1. more \subseteq S /\ more \subseteq o.wrote /\ \A w \in more : ~InFact(c, w)
    BY <1>0, <1>1, <1>5 DEF Follows, WellFormed
  <2>2. \A l \in page.lines \ old.lines : l.text # {} /\ l.text \subseteq S /\ l.text \subseteq o.wrote /\ \A w \in l.text : ~InFact(c, w)
    BY <1>0, <1>1 DEF Follows, WellFormed
  <2> QED
    BY <1>13, <2>1, <2>2
<1>15. \A x \in words : x \notin Doss!Ids(c) /\ ~Doss!OfNote(x)
  BY <1>14, MentionsAre DEF InFact
<1>16. gone \subseteq Doss!Ids(c) /\ gone \subseteq o.gone
  BY <1>0, <1>1, <1>11 DEF Sound, Follows
<1>17. /\ Shaped(e) /\ Doss!Ids(e) = Doss!Ids(c)
       /\ e.generated = c.generated /\ e.pending = c.pending /\ e.retired = c.retired
       /\ \A id \in Doss!Ids(e) : e.facts[id] = IF id \in gone THEN Doss!Fact("withdrawn", None) ELSE c.facts[id]
  <2>1. Doss!Ids(c) \cup gone = Doss!Ids(c)
    BY <1>16
  <2>2. /\ Shaped(e) /\ Doss!Ids(e) = Doss!Ids(c) \cup gone
        /\ e.generated = c.generated /\ e.pending = c.pending /\ e.retired = c.retired
        /\ \A id \in Doss!Ids(e) : e.facts[id] = IF id \in gone THEN Doss!Fact("withdrawn", None) ELSE c.facts[id]
    BY <1>0, <1>7, FactsDiffer, WithGives DEF Doss!Withdraw
  <2> QED
    BY <2>1, <2>2
<1>18. /\ Shaped(f) /\ Doss!Ids(f) = Doss!Ids(e) \cup words
       /\ f.generated = e.generated /\ f.pending = e.pending /\ f.retired = e.retired
       /\ \A id \in Doss!Ids(f) : f.facts[id] = IF id \in words THEN Doss!Fact("confirmed", None) ELSE e.facts[id]
  BY <1>8, <1>17, FactsDiffer, WithGives DEF Doss!Confirm
<1>19. /\ d = [facts |-> f.facts, generated |-> page, pending |-> None, retired |-> f.retired]
       /\ d.facts = f.facts /\ d.generated = page /\ d.pending = None /\ d.retired = f.retired
  BY <1>9, <1>18 DEF Shaped
<1>20. Doss!Ids(d) = Doss!Ids(c) \cup words
  BY <1>17, <1>18, <1>19 DEF Doss!Ids
<1>21. \A id \in Doss!Ids(d) : d.facts[id] = IF id \in words THEN Doss!Fact("confirmed", None)
                                             ELSE IF id \in gone THEN Doss!Fact("withdrawn", None) ELSE c.facts[id]
  BY <1>17, <1>18, <1>19, <1>20
<1>22. \A id : Silenced(d, id) <=> Silenced(c, id) \/ id \in gone
  BY <1>15, <1>16, <1>20, <1>21, FactsDiffer DEF Silenced
<1>23. \A w : InFact(d, w) <=> InFact(c, w) \/ \E x \in words : w \in x
  BY <1>20 DEF InFact
<1>24. Shaped(d)
  <2>1. d.facts \in [Doss!Ids(d) -> States]
    BY <1>17, <1>18, <1>19, <1>20 DEF Shaped
  <2> QED
    BY <1>18, <1>19, <2>1 DEF Shaped
<1>25. \A l \in page.lines : l.id \in Doss!Ids(d) /\ (l.text = l.id \/ Silenced(d, l.id))
  <2>1. ASSUME NEW l \in page.lines, l \in old.lines PROVE l.id \in Doss!Ids(d) /\ (l.text = l.id \/ Silenced(d, l.id))
    BY <1>0, <1>1, <1>20, <1>22, <2>1 DEF Sound
  <2>2. ASSUME NEW l \in page.lines, l \notin old.lines PROVE l.id \in gone
    BY <1>0, <1>1, <1>11, <2>2 DEF Follows
  <2> QED
    BY <1>16, <1>20, <1>22, <2>1, <2>2
<1>26. \A id \in Doss!Ids(d) : /\ ~Doss!OfNote(id) => id \subseteq o.wrote /\ d.facts[id].why = None
                               /\ Silenced(d, id) => id \in o.gone
  <2>1. ASSUME NEW id \in Doss!Ids(d), ~Doss!OfNote(id) PROVE id \subseteq o.wrote /\ d.facts[id].why = None
    <3>1. CASE id \in words
      BY <1>14, <1>21, <3>1 DEF Doss!Fact
    <3>2. CASE id \notin words
      BY <1>0, <1>20, <1>21, <2>1, <3>2 DEF Sound, Doss!Fact
    <3> QED
      BY <3>1, <3>2
  <2>2. ASSUME NEW id \in Doss!Ids(d), Silenced(d, id) PROVE id \in o.gone
    BY <1>0, <1>16, <1>22, <2>2 DEF Sound, Silenced
  <2> QED
    BY <2>1, <2>2
<1>27. Sound(d, o, S)
  <2>1. \A id \in Doss!Ids(d) : id # {} /\ id \subseteq S
    BY <1>0, <1>14, <1>20 DEF Sound
  <2> QED
    BY <1>19, <1>24, <1>25, <1>26, <2>1 DEF Sound
<1>28. \A id \in o.gone : Silenced(d, id)
  BY <1>0, <1>1, <1>11, <1>22 DEF Follows
<1>29. \A w \in o.wrote \ o.took : InFact(d, w)
  <2> SUFFICES ASSUME NEW w \in o.wrote \ o.took, ~InFact(c, w) PROVE \E x \in words : w \in x
    BY <1>23
  <2>1. CASE w \in page.rest \ old.rest
    BY <1>5, <1>13, <2>1
  <2>2. CASE \E l \in page.lines \ old.lines : w \in l.text
    BY <1>13, <2>2
  <2> QED
    BY <1>0, <1>1, <2>1, <2>2 DEF Follows
<1>30. Follows(d, page, o)
  BY <1>19, <1>28, <1>29 DEF Follows
<1>31. \A y : Drawn(page, y) => Doss!Ids(d) = Doss!Ids(c)
  <2> SUFFICES ASSUME NEW y, Drawn(page, y), NEW x \in words PROVE FALSE
    BY <1>20
  <2>1. CASE x = more /\ more # {}
    BY <1>5, <1>14, <2>1, MentionsAre DEF Drawn
  <2>2. CASE \E l \in page.lines \ old.lines : x = l.text
    <3>1. PICK l \in page.lines \ old.lines : x = l.text
      BY <2>2
    <3>2. x = l.id
      BY <3>1 DEF Drawn
    <3>3. PICK m \in old.lines : m.id = l.id
      BY <1>0, <1>1 DEF Follows
    <3>4. x \in Doss!Ids(c)
      BY <1>0, <1>1, <3>2, <3>3 DEF Sound
    <3> QED
      BY <1>15, <3>4
  <2> QED
    BY <1>13, <2>1, <2>2
<1> QED
  BY <1>19, <1>18, <1>17, <1>20, <1>22, <1>27, <1>30, <1>31 DEF Book

-----------------------------------------------------------------------------
(* The reading of a page, and the owner's requests *)

LEMMA SameBook ==
  ASSUME NEW c, NEW d, NEW p, NEW o, NEW S, Book(c, p, o, S), Shaped(d), d.facts = c.facts,
         \/ d.generated = c.generated /\ d.pending = c.pending
         \/ p = None /\ d.generated = None /\ d.pending = None
  PROVE  /\ Book(d, p, o, S) /\ Doss!Ids(d) = Doss!Ids(c) /\ \A id : Silenced(d, id) <=> Silenced(c, id)
<1>1. Doss!Ids(d) = Doss!Ids(c)
  BY DEF Doss!Ids
<1>2. (\A id : Silenced(d, id) <=> Silenced(c, id)) /\ (\A w : InFact(d, w) <=> InFact(c, w))
  BY <1>1 DEF Silenced, InFact
<1>3. Sound(c, o, S)
  BY DEF Book
<1>4. Sound(d, o, S)
  <2>1. (Drawn(c.pending, c) => Drawn(c.pending, d)) /\ (d.generated = c.generated /\ d.pending = c.pending /\ Planned(c) => Planned(d))
    BY <1>1, <1>2 DEF Drawn, Planned
  <2>2. \A id \in Doss!Ids(d) : id # {} /\ id \subseteq S
    BY <1>1, <1>3 DEF Sound
  <2>3. \A id \in Doss!Ids(d) : /\ ~Doss!OfNote(id) => id \subseteq o.wrote /\ d.facts[id].why = None
                                /\ Silenced(d, id) => id \in o.gone
    BY <1>1, <1>2, <1>3 DEF Sound
  <2>4. d.generated # None => /\ WellFormed(d.generated, S)
                              /\ \A l \in d.generated.lines : l.id \in Doss!Ids(d) /\ (l.text = l.id \/ Silenced(d, l.id))
    BY <1>1, <1>2, <1>3 DEF Sound
  <2>5. d.pending # None => WellFormed(d.pending, S) /\ Drawn(d.pending, d) /\ Planned(d)
    BY <1>3, <2>1 DEF Sound
  <2> QED
    BY <2>2, <2>3, <2>4, <2>5 DEF Sound
<1>5. /\ d.generated = c.generated /\ Follows(c, p, o) => Follows(d, p, o)
      /\ Alone(c, o) => Alone(d, o)
  BY <1>2 DEF Follows, Alone
<1> QED
  BY <1>1, <1>2, <1>4, <1>5 DEF Book

\* More words, and more that the owner has said, take nothing from a catalog.
LEMMA SoundGrows ==
  ASSUME NEW c, NEW o, NEW q, NEW S, NEW T, Sound(c, o, S), S \subseteq T,
         o.wrote \subseteq q.wrote, \A id : Silenced(c, id) => id \in q.gone
  PROVE  Sound(c, q, T)
<1>1. \A b : WellFormed(b, S) => WellFormed(b, T)
  BY DEF WellFormed
<1>2. \A id \in Doss!Ids(c) : id # {} /\ id \subseteq T
  BY DEF Sound
<1>3. c.generated # None => /\ WellFormed(c.generated, T)
                            /\ \A l \in c.generated.lines : l.id \in Doss!Ids(c) /\ (l.text = l.id \/ Silenced(c, l.id))
  BY <1>1 DEF Sound
<1>4. c.pending # None => WellFormed(c.pending, T) /\ Drawn(c.pending, c) /\ Planned(c)
  BY <1>1 DEF Sound
<1>5. \A id \in Doss!Ids(c) : /\ ~Doss!OfNote(id) => id \subseteq q.wrote /\ c.facts[id].why = None
                              /\ Silenced(c, id) => id \in q.gone
  BY DEF Sound
<1> QED
  BY <1>2, <1>3, <1>4, <1>5 DEF Sound

LEMMA BookGrows ==
  ASSUME NEW c, NEW p, NEW o, NEW S, NEW T, Book(c, p, o, S), S \subseteq T
  PROVE  Book(c, p, o, T)
<1>1. \A id : Silenced(c, id) => id \in o.gone
  BY DEF Book, Sound, Silenced
<1> QED
  BY <1>1, SoundGrows DEF Book

LEMMA ObserveBook ==
  ASSUME DossierConstants, NEW c, NEW o, NEW S, Book(c, page, o, S), o.wrote \subseteq OwnersTexts,
         page # None => WellFormed(page, S), ~Doss!Overtaken(Doss!Known(c)), NEW d, d = Doss!Observe(c)
  PROVE  /\ Book(d, page, o, S)
         /\ Doss!Ids(c) \subseteq Doss!Ids(d) /\ \A id : Silenced(c, id) => Silenced(d, id)
         /\ page = None => Doss!Ids(d) = Doss!Ids(c) /\ (d.retired \/ d.generated = None)
         /\ page # None => d.generated = page /\ d.retired = c.retired
         /\ page # None => \A x : Drawn(page, x) => Doss!Ids(d) = Doss!Ids(c)
<1>0. Sound(c, o, S) /\ Shaped(c)
  BY DEF Book, Sound
<1>1. CASE page = None
  <2>1. PICK r \in BOOLEAN : r = (c.retired \/ c.generated # None)
    BY <1>0 DEF Shaped
  <2>2. d = [c EXCEPT !.retired = r]
    BY <1>1, <2>1 DEF Doss!Observe
  <2>3. /\ d = [facts |-> c.facts, generated |-> c.generated, pending |-> c.pending, retired |-> r]
        /\ d.facts = c.facts /\ d.generated = c.generated /\ d.pending = c.pending /\ d.retired = r
    BY <1>0, <2>2 DEF Shaped
  <2>4. Doss!Ids(d) = Doss!Ids(c)
    BY <2>3 DEF Doss!Ids
  <2>5. Shaped(d)
    BY <1>0, <2>3, <2>4 DEF Shaped
  <2>6. d.retired \/ d.generated = None
    BY <2>1, <2>3
  <2> QED
    BY <1>1, <2>3, <2>4, <2>5, <2>6, SameBook
<1>2. CASE page # None
  <2>1. PICK k : k = Doss!Known(c)
    OBVIOUS
  <2>2. /\ Book(k, page, o, S) /\ Doss!Ids(k) = Doss!Ids(c) /\ k.facts = c.facts /\ k.retired = c.retired
        /\ ~Doss!Overtaken(k)
    BY <2>1, KnownBook
  <2>3. k.generated # None /\ \A id : Silenced(k, id) <=> Silenced(c, id)
    BY <1>2, <2>2 DEF Book, Follows, Silenced
  <2>4. CASE page = k.generated
    <3>1. d = k
      BY <1>2, <2>1, <2>4 DEF Doss!Observe
    <3> QED
      BY <1>2, <2>2, <2>3, <2>4, <3>1
  <2>5. CASE page # k.generated
    <3>1. d = Doss!Corrected(k)
      BY <1>2, <2>1, <2>3, <2>5 DEF Doss!Observe
    <3>2. /\ Book(d, page, o, S) /\ d.generated = page /\ d.retired = k.retired
          /\ Doss!Ids(k) \subseteq Doss!Ids(d) /\ \A id : Silenced(k, id) => Silenced(d, id)
          /\ \A x : Drawn(page, x) => Doss!Ids(d) = Doss!Ids(k)
      BY <1>2, <2>2, <2>5, <3>1, CorrectedBook
    <3> QED
      BY <1>2, <2>2, <2>3, <3>2
  <2> QED
    BY <2>4, <2>5
<1> QED
  BY <1>1, <1>2

\* The owner asks for a fact to be withdrawn, and for another in its place.
LEMMA WithdrawnBook ==
  ASSUME DossierConstants, NEW c, NEW p, NEW o, NEW S, Book(c, p, o, S), NEW id \in Doss!Ids(c),
         NEW q, q.gone = o.gone \cup {id}, q.took = o.took, q.wrote = o.wrote, NEW d, d = Doss!Withdraw(c, {id})
  PROVE  Book(d, p, q, S) /\ Doss!Ids(d) = Doss!Ids(c)
<1>0. Sound(c, o, S) /\ Shaped(c)
  BY DEF Book, Sound
<1>1. /\ Shaped(d) /\ Doss!Ids(d) = Doss!Ids(c) \cup {id}
      /\ d.generated = c.generated /\ d.pending = c.pending /\ d.retired = c.retired
      /\ \A x \in Doss!Ids(d) : d.facts[x] = IF x \in {id} THEN Doss!Fact("withdrawn", None) ELSE c.facts[x]
  BY <1>0, FactsDiffer, WithGives DEF Doss!Withdraw
<1>2. Doss!Ids(d) = Doss!Ids(c)
  BY <1>1
<1>3. (\A x : Silenced(d, x) <=> Silenced(c, x) \/ x = id) /\ (\A w : InFact(d, w) <=> InFact(c, w))
  BY <1>1, <1>2 DEF Silenced, InFact
<1>4. Sound(d, q, S)
  <2>1. \A x \in Doss!Ids(d) : x # {} /\ x \subseteq S
    BY <1>0, <1>2 DEF Sound
  <2>2. d.generated # None => /\ WellFormed(d.generated, S)
                              /\ \A l \in d.generated.lines : l.id \in Doss!Ids(d) /\ (l.text = l.id \/ Silenced(d, l.id))
    BY <1>0, <1>1, <1>2, <1>3 DEF Sound
  <2>3. c.pending # None => Drawn(c.pending, d) /\ Planned(d)
    BY <1>0, <1>1, <1>2, <1>3 DEF Sound, Drawn, Planned
  <2>4. \A x \in Doss!Ids(d) : /\ ~Doss!OfNote(x) => x \subseteq q.wrote /\ d.facts[x].why = None
                               /\ Silenced(d, x) => x \in q.gone
    <3> SUFFICES ASSUME NEW x \in Doss!Ids(d)
                 PROVE  /\ ~Doss!OfNote(x) => x \subseteq q.wrote /\ d.facts[x].why = None
                        /\ Silenced(d, x) => x \in q.gone
      OBVIOUS
    <3>1. d.facts[x] = IF x = id THEN Doss!Fact("withdrawn", None) ELSE c.facts[x]
      BY <1>1
    <3>2. Doss!Fact("withdrawn", None).why = None
      BY DEF Doss!Fact
    <3>3. /\ ~Doss!OfNote(x) => x \subseteq o.wrote /\ c.facts[x].why = None
          /\ Silenced(c, x) => x \in o.gone
      BY <1>0, <1>2 DEF Sound
    <3> QED
      BY <1>3, <3>1, <3>2, <3>3
  <2>5. d.pending # None => WellFormed(d.pending, S) /\ Drawn(d.pending, d) /\ Planned(d)
    BY <1>0, <1>1, <2>3 DEF Sound
  <2> QED
    BY <1>1, <2>1, <2>2, <2>4, <2>5 DEF Sound
<1>5. Follows(c, p, o) => Follows(d, p, q)
  BY ZenonT(60), <1>1, <1>3 DEF Follows
<1>6. Alone(c, o) => Alone(d, q)
  BY <1>3 DEF Alone
<1> QED
  BY <1>2, <1>4, <1>5, <1>6 DEF Book

LEMMA AddedBook ==
  ASSUME DossierConstants, NEW c, NEW p, NEW o, NEW S, Book(c, p, o, S), p # None => WellFormed(p, S),
         NEW T, S \subseteq T, NEW w \in T, w \notin S, w \in OwnersTexts,
         NEW q, q.gone = o.gone, q.took = o.took, q.wrote = o.wrote \cup {w}, NEW d, d = Doss!Confirm(c, {{w}})
  PROVE  Book(d, p, q, T) /\ Doss!Ids(d) = Doss!Ids(c) \cup {{w}}
<1>0. Sound(c, o, S) /\ Shaped(c)
  BY DEF Book, Sound
<1>1. /\ Shaped(d) /\ Doss!Ids(d) = Doss!Ids(c) \cup {{w}}
      /\ d.generated = c.generated /\ d.pending = c.pending /\ d.retired = c.retired
      /\ \A x \in Doss!Ids(d) : d.facts[x] = IF x \in {{w}} THEN Doss!Fact("confirmed", None) ELSE c.facts[x]
  BY <1>0, FactsDiffer, WithGives DEF Doss!Confirm
<1>2. {w} \notin Doss!Ids(c) /\ ~Doss!OfNote({w}) /\ {w} # {} /\ {w} \subseteq T /\ {w} \subseteq q.wrote
  BY <1>0, MentionsAre DEF Sound
<1>3. \A x : Silenced(d, x) <=> Silenced(c, x)
  BY <1>1, <1>2, FactsDiffer DEF Silenced
<1>4. \A v : InFact(d, v) <=> InFact(c, v) \/ v = w
  BY <1>1 DEF InFact
<1>5. Sound(c, q, T)
  BY <1>0, SoundGrows DEF Sound, Silenced
<1>6. Sound(d, q, T)
  <2>1. \A x \in Doss!Ids(d) : x # {} /\ x \subseteq T
    <3> SUFFICES ASSUME NEW x \in Doss!Ids(d) PROVE x # {} /\ x \subseteq T
      OBVIOUS
    <3>1. CASE x = {w}
      BY <1>2, <3>1
    <3>2. CASE x # {w}
      <4>1. x \in Doss!Ids(c)
        BY <1>1, <3>2
      <4> QED
        BY <1>5, <4>1 DEF Sound
    <3> QED
      BY <3>1, <3>2
  <2>2. d.generated # None => /\ WellFormed(d.generated, T)
                              /\ \A l \in d.generated.lines : l.id \in Doss!Ids(d) /\ (l.text = l.id \/ Silenced(d, l.id))
    BY <1>1, <1>3, <1>5 DEF Sound
  <2>3. c.pending # None => Drawn(c.pending, d) /\ Planned(d)
    BY <1>1, <1>3, <1>5 DEF Sound, Drawn, Planned
  <2>4. \A x \in Doss!Ids(d) : /\ ~Doss!OfNote(x) => x \subseteq q.wrote /\ d.facts[x].why = None
                               /\ Silenced(d, x) => x \in q.gone
    <3> SUFFICES ASSUME NEW x \in Doss!Ids(d)
                 PROVE  /\ ~Doss!OfNote(x) => x \subseteq q.wrote /\ d.facts[x].why = None
                        /\ Silenced(d, x) => x \in q.gone
      OBVIOUS
    <3>1. CASE x = {w}
      <4>1. d.facts[x] = Doss!Fact("confirmed", None) /\ ~Silenced(c, x)
        BY <1>1, <1>2, <3>1 DEF Silenced
      <4>2. Doss!Fact("confirmed", None).why = None
        BY DEF Doss!Fact
      <4> QED
        BY <1>2, <1>3, <3>1, <4>1, <4>2
    <3>2. CASE x # {w}
      BY <1>1, <1>3, <1>5, <3>2 DEF Sound
    <3> QED
      BY <3>1, <3>2
  <2>5. d.pending # None => WellFormed(d.pending, T) /\ Drawn(d.pending, d) /\ Planned(d)
    BY <1>1, <1>5, <2>3 DEF Sound
  <2> QED
    BY <1>1, <2>1, <2>2, <2>4, <2>5 DEF Sound
<1>7. ASSUME p # None PROVE Follows(d, p, q)
  <2>1. Follows(c, p, o) /\ p.rest \subseteq S /\ \A l \in p.lines : l.text \subseteq S
    BY <1>7 DEF Book, WellFormed
  <2>2. \A v \in p.rest \ c.generated.rest : v \in q.wrote /\ ~InFact(d, v)
    BY <1>4, <2>1 DEF Follows
  <2>3. \A l \in p.lines \ c.generated.lines :
         /\ \E m \in c.generated.lines \ p.lines : m.id = l.id /\ m.text # l.text
         /\ \A v \in l.text : v \in q.wrote /\ ~InFact(d, v)
    BY ZenonT(60), <1>4, <2>1 DEF Follows
  <2>4. \A v \in q.wrote \ q.took :
         InFact(d, v) \/ v \in p.rest \ c.generated.rest \/ \E l \in p.lines \ c.generated.lines : v \in l.text
    BY <1>4, <2>1 DEF Follows
  <2> QED
    BY ZenonT(60), <1>1, <1>3, <2>1, <2>2, <2>3, <2>4 DEF Follows
<1>8. Alone(c, o) => Alone(d, q)
  BY <1>3, <1>4 DEF Alone
<1> QED
  BY <1>1, <1>6, <1>7, <1>8 DEF Book

-----------------------------------------------------------------------------
(* The owner's edits *)

\* The owner puts the lines for l, with the words of which T has one that S has not.
Rewritten(p, q, b, o, S, T, l, lines, words) ==
    /\ \/ lines = {} /\ words = {}
       \/ \E w \in T : w \notin S /\ lines = {Doss!Line(l.id, {w})} /\ words = {w}
    /\ p = Doss!Block(p.lines, p.rest, p.retired)
    /\ p.lines = (b.lines \ {l}) \cup lines /\ p.rest = b.rest /\ p.retired = b.retired
    /\ q.gone = o.gone \cup {l.id} /\ q.wrote = o.wrote \cup words /\ q.took = o.took \cup (l.text \ l.id)

LEMMA ReplacesBook ==
  ASSUME DossierConstants, NEW c, NEW b, b # None, NEW o, NEW S, Book(c, b, o, S), WellFormed(b, S), S \subseteq Texts,
         NEW T, S \subseteq T, T \subseteq Texts, NEW l \in b.lines, NEW lines, NEW words, NEW p, NEW q,
         Rewritten(p, q, b, o, S, T, l, lines, words)
  PROVE  WellFormed(p, T) /\ Book(c, p, q, T) /\ p # None
<1>0. /\ Sound(c, o, S) /\ Follows(c, b, o) /\ c.generated # None /\ WellFormed(c.generated, S)
      /\ p = Doss!Block(p.lines, p.rest, p.retired)
      /\ p.lines = (b.lines \ {l}) \cup lines /\ p.rest = b.rest /\ p.retired = b.retired
      /\ q.gone = o.gone \cup {l.id} /\ q.wrote = o.wrote \cup words /\ q.took = o.took \cup (l.text \ l.id)
  BY DEF Book, Sound, Follows, Rewritten
<1>1. PICK rest : rest = (b.lines \ {l}) \cup lines
  OBVIOUS
<1>2. /\ p = [lines |-> rest, rest |-> b.rest, retired |-> b.retired]
      /\ p.lines = rest /\ p.rest = b.rest /\ p.retired = b.retired
  BY <1>0, <1>1 DEF WellFormed, Doss!Block
<1>3. /\ \A m \in lines : /\ m = Doss!Line(m.id, m.text) /\ m.id = l.id /\ m.text # {} /\ m.text \subseteq T
                          /\ m.text \subseteq words /\ m.text \cap S = {}
      /\ \A m, n \in lines : m = n
      /\ \A w \in words : w \notin S /\ \E m \in lines : w \in m.text
  <2>1. CASE lines = {} /\ words = {}
    BY <2>1
  <2>2. ASSUME NEW w \in T, w \notin S, lines = {Doss!Line(l.id, {w})}, words = {w}
        PROVE  <1>3!1 /\ <1>3!2 /\ <1>3!3
    <3>1. PICK m : m = Doss!Line(l.id, {w})
      OBVIOUS
    <3>2. m = Doss!Line(m.id, m.text) /\ m.id = l.id /\ m.text = {w}
      BY <3>1 DEF Doss!Line
    <3>3. lines = {m}
      BY <2>2, <3>1
    <3> QED
      BY <2>2, <3>2, <3>3
  <2> QED
    BY <2>1, <2>2 DEF Rewritten
<1>4. \A m \in b.lines : m = Doss!Line(m.id, m.text) /\ m.id \subseteq S /\ m.text \subseteq S /\ m.text # {}
  BY DEF WellFormed
<1>5. \A m \in b.lines, n \in b.lines : m.id = n.id => m = n
  BY DEF WellFormed
<1>6. \A m \in rest : (m \in b.lines /\ m # l) \/ m \in lines
  BY <1>1
<1>7. WellFormed(p, T)
  <2>1. \A m \in rest : m = Doss!Line(m.id, m.text) /\ m.id \subseteq T /\ m.text \subseteq T /\ m.text # {}
    BY <1>3, <1>4, <1>6
  <2>2. \A m \in rest, n \in rest : m.id = n.id => m = n
    BY <1>3, <1>5, <1>6
  <2>3. b.retired => rest = {}
    BY DEF WellFormed
  <2>4. \A m \in rest, v \in Editions : m.id = Doss!Mention(v) => Doss!Evidence(v) \in b.rest
    BY <1>3, <1>6 DEF WellFormed
  <2>5. b.retired \in BOOLEAN /\ b.rest \subseteq T
    BY DEF WellFormed
  <2> QED
    BY <1>2, <2>1, <2>2, <2>3, <2>4, <2>5 DEF WellFormed, Doss!Block
<1>8. p # None
  <2>1. rest \subseteq Lines
    <3> SUFFICES ASSUME NEW m \in rest PROVE m \in Lines
      OBVIOUS
    <3>1. m.id \subseteq Texts
      BY <1>3, <1>4, <1>6
    <3>2. m.text \subseteq Texts
      BY <1>3, <1>4, <1>6
    <3> QED
      BY <1>3, <1>4, <1>6, <3>1, <3>2 DEF Lines, Doss!Line
  <2> QED
    BY <1>2, <2>1 DEF Blocks, DossierConstants, WellFormed
<1>9. Sound(c, q, T)
  <2>1. o.wrote \subseteq q.wrote /\ \A id : Silenced(c, id) => id \in q.gone
    BY <1>0 DEF Sound, Silenced
  <2> QED
    BY <1>0, <2>1, SoundGrows
<1>10. PICK old : old = c.generated
  OBVIOUS
<1>11. \A w : w \in S \/ w \notin S
  OBVIOUS
<1>12. \A w \in words : ~InFact(c, w)
  BY <1>0, <1>3 DEF Sound, InFact
<1>13. \A m \in old.lines : m.text \subseteq S /\ m.text # {}
  BY <1>0, <1>10 DEF WellFormed
<1>14. \A m \in lines : m \notin old.lines /\ m \notin b.lines /\ \A n \in old.lines : m.text # n.text
  BY <1>3, <1>4, <1>13
<1>15. \A m \in old.lines \ rest : m \in old.lines \ b.lines \/ m = l
  BY <1>1
<1>16. \A m \in old.lines \ b.lines : m \in old.lines \ rest
  BY <1>1, <1>14
<1>17. /\ \A m \in old.lines \ b.lines : m.id \in o.gone
       /\ old.rest \subseteq b.rest
       /\ \A w \in b.rest \ old.rest : w \in o.wrote /\ ~InFact(c, w)
       /\ \A m \in b.lines \ old.lines :
            /\ \E n \in old.lines \ b.lines : n.id = m.id /\ n.text # m.text
            /\ \A w \in m.text : w \in o.wrote /\ ~InFact(c, w)
       /\ \A id \in o.gone : Silenced(c, id) \/ \E m \in old.lines \ b.lines : m.id = id
       /\ \A w \in o.wrote \ o.took :
            InFact(c, w) \/ w \in b.rest \ old.rest \/ \E m \in b.lines \ old.lines : w \in m.text
       /\ b.retired = old.retired
  BY <1>0, <1>10 DEF Follows
<1>18. \E n \in old.lines \ rest : n.id = l.id
  <2>1. CASE l \in old.lines
    BY <1>1, <1>14, <2>1
  <2>2. CASE l \notin old.lines
    BY <1>16, <1>17, <2>2
  <2> QED
    BY <2>1, <2>2
<1>19. \A m \in old.lines \ rest : m.id \in q.gone
  BY <1>0, <1>15, <1>17
<1>20. \A w \in b.rest \ old.rest : w \in q.wrote /\ ~InFact(c, w)
  BY <1>0, <1>17
<1>21. \A m \in rest \ old.lines :
         /\ \E n \in old.lines \ rest : n.id = m.id /\ n.text # m.text
         /\ \A w \in m.text : w \in q.wrote /\ ~InFact(c, w)
  <2> SUFFICES ASSUME NEW m \in rest \ old.lines
               PROVE /\ \E n \in old.lines \ rest : n.id = m.id /\ n.text # m.text
                     /\ \A w \in m.text : w \in q.wrote /\ ~InFact(c, w)
    OBVIOUS
  <2>1. CASE m \in lines
    BY <1>0, <1>3, <1>12, <1>14, <1>18, <2>1
  <2>2. CASE m \in b.lines
    BY <1>0, <1>16, <1>17, <2>2
  <2> QED
    BY <1>6, <2>1, <2>2
<1>22. \A id \in q.gone : Silenced(c, id) \/ \E m \in old.lines \ rest : m.id = id
  BY <1>0, <1>16, <1>17, <1>18
<1>23. \A w \in q.wrote \ q.took :
         InFact(c, w) \/ w \in b.rest \ old.rest \/ \E m \in rest \ old.lines : w \in m.text
  <2> SUFFICES ASSUME NEW w \in q.wrote \ q.took, ~InFact(c, w), w \notin b.rest \ old.rest
               PROVE  \E m \in rest \ old.lines : w \in m.text
    OBVIOUS
  <2>1. CASE w \in words
    BY <1>1, <1>3, <1>14, <2>1
  <2>2. CASE w \in o.wrote \ o.took
    <3>1. PICK m \in b.lines \ old.lines : w \in m.text
      BY <1>0, <1>17, <2>2
    <3>2. CASE m = l
      <4>1. w \in l.id
        BY <1>0, <3>1, <3>2
      <4>2. PICK n \in old.lines : n.id = l.id
        BY <1>18
      <4>3. l.id \in Doss!Ids(c)
        BY <1>0, <1>10, <4>2 DEF Sound
      <4> QED
        BY <4>1, <4>3 DEF InFact
    <3> QED
      BY <1>1, <3>1, <3>2
  <2> QED
    BY <1>0, <2>1, <2>2
<1>24. Follows(c, p, q)
  BY <1>0, <1>2, <1>10, <1>17, <1>19, <1>20, <1>21, <1>22, <1>23 DEF Follows
<1> QED
  BY <1>7, <1>8, <1>9, <1>24 DEF Book

\* The owner adds the word w to the page.
Extended(p, q, b, o, w) ==
    /\ p = Doss!Block(p.lines, p.rest, p.retired) /\ p.lines = b.lines /\ p.rest = b.rest \cup {w} /\ p.retired = b.retired
    /\ q.gone = o.gone /\ q.wrote = o.wrote \cup {w} /\ q.took = o.took

LEMMA AddsBook ==
  ASSUME DossierConstants, NEW c, NEW b, b # None, NEW o, NEW S, Book(c, b, o, S), WellFormed(b, S), S \subseteq Texts,
         NEW T, S \subseteq T, T \subseteq Texts, NEW w \in T, w \notin S,
         NEW p, NEW q, Extended(p, q, b, o, w)
  PROVE  WellFormed(p, T) /\ Book(c, p, q, T) /\ p # None
<1>0. /\ Sound(c, o, S) /\ Follows(c, b, o) /\ c.generated # None /\ WellFormed(c.generated, S)
      /\ p = Doss!Block(p.lines, p.rest, p.retired) /\ p.lines = b.lines /\ p.rest = b.rest \cup {w} /\ p.retired = b.retired
      /\ q.gone = o.gone /\ q.wrote = o.wrote \cup {w} /\ q.took = o.took
  BY DEF Book, Sound, Follows, Extended
<1>1. /\ p = [lines |-> b.lines, rest |-> b.rest \cup {w}, retired |-> b.retired]
      /\ p.lines = b.lines /\ p.rest = b.rest \cup {w} /\ p.retired = b.retired
  BY <1>0 DEF WellFormed, Doss!Block
<1>2. WellFormed(p, T)
  BY <1>1 DEF WellFormed, Doss!Block
<1>3. p # None
  <2>1. b.lines \subseteq Lines
    <3> SUFFICES ASSUME NEW m \in b.lines PROVE m \in Lines
      OBVIOUS
    <3>1. m = [id |-> m.id, text |-> m.text] /\ m.id \subseteq Texts /\ m.text \subseteq Texts
      BY DEF WellFormed, Doss!Line
    <3> QED
      BY <3>1 DEF Lines
  <2> QED
    BY <1>1, <2>1 DEF Blocks, DossierConstants, WellFormed
<1>4. Sound(c, q, T)
  BY ZenonT(60), <1>0, SoundGrows DEF Sound, Silenced
<1>5. ~InFact(c, w) /\ w \notin c.generated.rest
  BY <1>0 DEF Sound, InFact, WellFormed
<1>6. Follows(c, p, q)
  BY <1>0, <1>1, <1>5 DEF Follows
<1> QED
  BY <1>2, <1>3, <1>4, <1>6 DEF Book

-----------------------------------------------------------------------------
(* The steps *)

LEMMA DiskStands ==
  ASSUME DossierTypes, Resting, Working
  PROVE  /\ Sound(OnDisk, person, Spent) /\ (page # None => Book(OnDisk, page, person, Spent))
         /\ Shaped(OnDisk) /\ OnDisk.facts = catalog.facts /\ Doss!Ids(OnDisk) = Doss!Ids(catalog)
         /\ OnDisk.retired = catalog.retired /\ (torn = None => OnDisk = catalog)
         /\ Spent \subseteq Texts /\ job.pc \in {"idle", "change", "write", "place", "save"}
<1>1. Sound(OnDisk, person, Spent) /\ (page # None => Book(OnDisk, page, person, Spent))
  BY DEF Resting, Working, Book
<1>2. OnDisk.facts = catalog.facts /\ OnDisk.retired = catalog.retired /\ (torn = None => OnDisk = catalog)
  BY DEF OnDisk, DossierTypes, Shaped
<1> QED
  BY <1>1, <1>2 DEF Sound, Doss!Ids, Spent, Working

\* The end of a refresh or of a change: the page is to be written, or is as it should be.
LEMMA ProjectStands ==
  ASSUME DossierConstants, DossierTypes, NEW d, NEW saved, NEW then \in {None, "change"}, Doss!Project(d, saved, then),
         page' = page, dnote' = dnote, NEW o, person' = o, NEW S, Spent' = S, Spent \subseteq S, S \subseteq Texts,
         o = [gone |-> o.gone, wrote |-> o.wrote, took |-> o.took], o.wrote \subseteq S \cap OwnersTexts,
         dleave' \in [edits : Nat, changes : Nat, mirrors : Nat, faults : Nat],
         Book(d, page, o, S), page = None => d.retired \/ d.generated = None, page # None => d.generated = page,
         NEW disk, disk = IF torn = None THEN saved ELSE [saved EXCEPT !.generated = torn, !.pending = None],
         Shaped(saved), torn # None => torn = saved.pending,
         Sound(disk, o, S), page # None => Book(disk, page, o, S),
         Doss!Ids(disk) \subseteq Doss!Ids(d), \A id : Silenced(disk, id) => Silenced(d, id),
         page = None \/ page = Doss!Render(d) => \A id \in Doss!Ids(d) \ Doss!Ids(disk) : Doss!OfNote(id)
  PROVE  DossierTypes' /\ Resting' /\ Working'
<1>0. Sound(d, o, S) /\ Shaped(d)
  BY DEF Book, Sound
<1>1. page # None => WellFormed(page, S)
  BY DEF DossierTypes, WellFormed
<1>2. PICK wanted : wanted = [d EXCEPT !.pending = Doss!Render(d)]
  OBVIOUS
<1>3. CASE Doss!Due(d)
  <2>1. /\ Book(wanted, page, o, S) /\ Doss!Ids(wanted) = Doss!Ids(d) /\ \A id : Silenced(wanted, id) <=> Silenced(d, id)
        /\ wanted.generated = d.generated /\ wanted.pending = Doss!Render(wanted) /\ wanted.pending = Doss!Render(d)
    BY <1>2, PlanBook
  <2>2. catalog' = wanted /\ torn' = None /\ job' = [pc |-> "write", mem |-> wanted, seen |-> page, then |-> then]
    BY <1>2, <1>3 DEF Doss!Project, Doss!SaveBefore
  <2>3. job'.pc = "write" /\ job'.mem = wanted /\ job'.seen = page /\ job'.then = then
    BY <2>2
  <2>4. wanted.generated = page
    BY <1>3, <2>1 DEF Doss!Due
  <2>5. OnDisk' = wanted
    BY <2>2 DEF OnDisk
  <2>6. Sound(wanted, o, S) /\ Shaped(wanted) /\ Later(wanted, wanted)
    BY <2>1 DEF Book, Sound, Later
  <2>7. DossierTypes'
    BY <1>1, <2>2, <2>3, <2>6 DEF DossierTypes
  <2>8. Resting'
    BY <2>3 DEF Resting
  <2>9. Working'
    BY <2>1, <2>2, <2>3, <2>4, <2>5, <2>6 DEF Working
  <2> QED
    BY <2>7, <2>8, <2>9
<1>4. CASE ~Doss!Due(d)
  <2>1. catalog' = saved /\ torn' = torn /\ job' = [pc |-> "save", mem |-> d, seen |-> page, then |-> then]
    BY <1>4 DEF Doss!Project
  <2>2. job'.pc = "save" /\ job'.mem = d /\ job'.seen = page /\ job'.then = then
    BY <2>1
  <2>3. page = None \/ page = Doss!Render(d)
    BY <1>4 DEF Doss!Due
  <2>4. OnDisk' = disk
    BY <2>1 DEF OnDisk
  <2>5. Later(d, disk)
    BY <2>3 DEF Later
  <2>6. DossierTypes'
    BY <1>1, <2>1, <2>2 DEF DossierTypes
  <2>7. Resting'
    BY <2>2 DEF Resting
  <2>8. Working'
    BY <2>1, <2>2, <2>4, <2>5 DEF Working
  <2> QED
    BY <2>6, <2>7, <2>8
<1> QED
  BY <1>3, <1>4

LEMMA RefreshStands ==
  ASSUME DossierConstants, DossierTypes, Resting, Working, unheard = {}, unheard' = {},
         NEW then \in {None, "change"}, Doss!Refresh(then)
  PROVE  DossierTypes' /\ Resting' /\ Working'
<1>0. /\ job.pc = "idle" /\ (then = "change" => Doss!MayChange) /\ (then = None => UNCHANGED dleave)
      /\ Doss!Listens(catalog) /\ Doss!Project(Doss!Contribute(Doss!Observe(catalog)), catalog, then)
      /\ page' = page /\ dnote' = dnote /\ person' = person
  BY DEF Doss!Refresh
<1>1. PICK disk : disk = OnDisk
  OBVIOUS
<1>2. PICK S : S = Spent
  OBVIOUS
<1>3. PICK o : o = person
  OBVIOUS
<1>4. /\ Book(disk, page, o, S) /\ Sound(disk, o, S) /\ Shaped(disk) /\ disk.facts = catalog.facts
      /\ S \subseteq Texts /\ Doss!Ids(disk) = Doss!Ids(catalog) /\ job.then = None
      /\ disk = IF torn = None THEN catalog ELSE [catalog EXCEPT !.generated = torn, !.pending = None]
  BY <1>0, <1>1, <1>2, <1>3, DiskStands DEF Resting, OnDisk
<1>5. ~(torn # None /\ page # torn) /\ ~Doss!Overtaken(Doss!Known(catalog))
  BY <1>0 DEF Doss!Listens
<1>6. Doss!Known(disk) = Doss!Known(catalog) /\ Doss!Observe(disk) = Doss!Observe(catalog)
  <2>1. CASE torn = None
    BY <1>4, <2>1
  <2>2. CASE torn # None
    <3>1. page = torn /\ page # None /\ page = catalog.pending
      BY <1>5, <2>2 DEF DossierTypes
    <3>2. Doss!Known(catalog) = disk
      BY <1>4, <3>1 DEF Doss!Known
    <3>3. disk.pending = None
      BY <1>4, <2>2 DEF DossierTypes, Shaped
    <3>4. Doss!Known(disk) = disk
      BY <3>1, <3>3 DEF Doss!Known
    <3> QED
      BY <3>1, <3>2, <3>4 DEF Doss!Observe
  <2> QED
    BY <2>1, <2>2
<1>7. o.wrote \subseteq OwnersTexts /\ (page # None => WellFormed(page, S))
  BY <1>2, <1>3 DEF DossierTypes
<1>8. PICK e : e = Doss!Observe(catalog)
  OBVIOUS
<1>9. /\ Book(e, page, o, S)
      /\ Doss!Ids(disk) \subseteq Doss!Ids(e) /\ \A id : Silenced(disk, id) => Silenced(e, id)
      /\ page = None => Doss!Ids(e) = Doss!Ids(disk) /\ (e.retired \/ e.generated = None)
      /\ page # None => e.generated = page /\ e.retired = disk.retired
      /\ page # None => \A x : Drawn(page, x) => Doss!Ids(e) = Doss!Ids(disk)
  <2>1. e = Doss!Observe(disk) /\ ~Doss!Overtaken(Doss!Known(disk))
    BY <1>5, <1>6, <1>8
  <2>2. Book(disk, page, o, S)
    BY <1>4
  <2> QED
    BY <1>7, <2>1, <2>2, ObserveBook
<1>10. PICK d : d = Doss!Contribute(e)
  OBVIOUS
<1>11. /\ Shaped(d) /\ Doss!Ids(e) \subseteq Doss!Ids(d)
       /\ d.generated = e.generated /\ d.pending = e.pending /\ d.retired = e.retired
       /\ \A id \in Doss!Ids(d) \ Doss!Ids(e) : Doss!OfNote(id) /\ ~Silenced(d, id) /\ ~e.retired
       /\ \A id \in Doss!Ids(e) : (Silenced(d, id) <=> Silenced(e, id)) /\ (~Doss!OfNote(id) => d.facts[id] = e.facts[id])
  BY <1>9, <1>10, ContributeGives DEF Book, Sound
<1>12. Book(d, page, o, S)
  BY <1>2, <1>7, <1>9, <1>11, OthersFacts
<1>13. page = Doss!Render(d) => Drawn(page, d)
  <2>1. \A id \in Doss!Ids(d) : id # {} /\ id \subseteq S
    BY <1>12 DEF Book, Sound
  <2> QED
    BY <1>2, <1>4, <1>11, <2>1, RenderGives
<1>14. page = None \/ page = Doss!Render(d) => \A id \in Doss!Ids(d) \ Doss!Ids(disk) : Doss!OfNote(id)
  BY <1>9, <1>11, <1>13
<1>15. \A id : Silenced(disk, id) => Silenced(d, id)
  BY <1>9, <1>11 DEF Silenced
<1>16. Spent' = S /\ dleave' \in [edits : Nat, changes : Nat, mirrors : Nat, faults : Nat]
  <2>1. dleave \in [edits : Nat, changes : Nat, mirrors : Nat, faults : Nat]
    BY DEF DossierTypes
  <2>2. job'.then = then /\ job'.pc \in {"write", "save"}
    BY <1>0 DEF Doss!Project
  <2>3. CASE then = None
    <3>1. dleave' = dleave /\ ~Expects' /\ ~Expects
      BY <1>0, <1>4, <2>2, <2>3 DEF Expects, DossierConstants
    <3> QED
      BY <1>2, <2>1, <3>1 DEF Spent
  <2>4. CASE then = "change"
    <3>1. /\ dleave' = [dleave EXCEPT !.changes = dleave.changes - 1] /\ dleave.changes > 0 /\ Expects' /\ ~Expects
      BY <1>0, <1>4, <2>2, <2>4 DEF Expects, Doss!MayChange, DossierConstants
    <3>2. /\ dleave' \in [edits : Nat, changes : Nat, mirrors : Nat, faults : Nat]
          /\ dleave'.edits = dleave.edits /\ dleave'.changes = dleave.changes - 1
      BY <2>1, <3>1
    <3>3. ASSUME NEW w \in Texts
          PROVE  /\ (w[1] = "word" => w[2] > dleave'.edits) <=> (w[1] = "word" => w[2] > dleave.edits)
                 /\ (w[1] = "asked" => w[2] > dleave'.changes) <=> (w[1] = "asked" => w[2] > dleave.changes \/ w[2] = dleave.changes)
      <4>1. w[1] = "asked" => w[2] \in Nat
        BY <3>3 DEF Texts
      <4> QED
        BY <2>1, <3>2, <4>1
    <3> QED
      BY <1>2, <3>1, <3>2, <3>3 DEF Spent
  <2> QED
    BY <2>3, <2>4
<1>17. Doss!Project(d, catalog, then)
  BY <1>0, <1>8, <1>10
<1>18. /\ person' = o /\ o = [gone |-> o.gone, wrote |-> o.wrote, took |-> o.took] /\ o.wrote \subseteq S \cap OwnersTexts
       /\ Shaped(catalog) /\ (torn # None => torn = catalog.pending) /\ Spent \subseteq S
  BY <1>0, <1>2, <1>3 DEF DossierTypes
<1>19. /\ page = None => d.retired \/ d.generated = None
       /\ page # None => d.generated = page
       /\ Doss!Ids(disk) \subseteq Doss!Ids(d)
  BY <1>9, <1>11
<1> QED
  BY <1>0, <1>4, <1>12, <1>14, <1>15, <1>16, <1>17, <1>18, <1>19, ProjectStands

LEMMA ChangeSpends ==
  ASSUME DossierConstants, DossierTypes, NEW c, Doss!Change(c)
  PROVE  /\ Spent \subseteq Spent' /\ Spent' \subseteq Texts
         /\ Doss!Asked \in Spent' /\ Doss!Asked \notin Spent /\ Doss!Asked \in OwnersTexts
         /\ dleave' = dleave /\ torn = None /\ page' = page /\ dnote' = dnote /\ Doss!Listens(c)
<1>1. /\ dleave' = dleave /\ page' = page /\ dnote' = dnote /\ Doss!Listens(c) /\ job.pc = "change"
      /\ Doss!Project(Doss!Observe(c), c, None)
  BY DEF Doss!Change
<1>2. job'.then = None /\ job'.pc \in {"write", "save"}
  BY <1>1 DEF Doss!Project
<1>3. ~Expects' /\ Expects
  BY <1>1, <1>2 DEF Expects, DossierConstants
<1>4. Spent \subseteq Spent' /\ Spent' \subseteq Texts
  BY <1>1, <1>3 DEF Spent
<1>5. PICK w : w = Doss!Asked
  OBVIOUS
<1>6. w = <<"asked", dleave.changes>> /\ dleave.changes \in Nat
  BY <1>5 DEF Doss!Asked, DossierTypes
<1>7. w \in Texts /\ w \in OwnersTexts /\ w[1] = "asked" /\ w[2] = dleave.changes
  BY <1>6 DEF Texts, OwnersTexts
<1>8. w \in Spent' /\ w \notin Spent
  BY <1>1, <1>3, <1>6, <1>7 DEF Spent
<1>9. torn = None
  BY <1>1 DEF DossierTypes
<1> QED
  BY <1>1, <1>4, <1>5, <1>7, <1>8, <1>9

LEMMA ChangeStands ==
  ASSUME DossierConstants, DossierTypes, unheard = {}, unheard' = {}, NEW c, Doss!Change(c),
         NEW o, person' = o, o = [gone |-> o.gone, wrote |-> o.wrote, took |-> o.took],
         NEW S, S = Spent', o.wrote \subseteq S \cap OwnersTexts, Book(c, page, o, S)
  PROVE  DossierTypes' /\ Resting' /\ Working'
<1>0. /\ Doss!Project(Doss!Observe(c), c, None) /\ ~Doss!Overtaken(Doss!Known(c))
  BY ChangeSpends DEF Doss!Change, Doss!Listens
<1>1. /\ Spent' = S /\ Spent \subseteq S /\ S \subseteq Texts
      /\ dleave' = dleave /\ torn = None /\ page' = page /\ dnote' = dnote
  BY ChangeSpends
<1>2. o.wrote \subseteq OwnersTexts /\ (page # None => WellFormed(page, S))
  BY <1>1 DEF DossierTypes, WellFormed
<1>3. PICK d : d = Doss!Observe(c)
  OBVIOUS
<1>4. /\ Book(d, page, o, S)
      /\ Doss!Ids(c) \subseteq Doss!Ids(d) /\ \A id : Silenced(c, id) => Silenced(d, id)
      /\ page = None => Doss!Ids(d) = Doss!Ids(c) /\ (d.retired \/ d.generated = None)
      /\ page # None => d.generated = page /\ d.retired = c.retired
      /\ page # None => \A x : Drawn(page, x) => Doss!Ids(d) = Doss!Ids(c)
  BY <1>0, <1>2, <1>3, ObserveBook
<1>5. page = Doss!Render(d) => Drawn(page, d)
  <2>1. Shaped(d) /\ \A id \in Doss!Ids(d) : id # {} /\ id \subseteq S
    BY <1>4 DEF Book, Sound
  <2> QED
    BY <1>1, <2>1, RenderGives
<1>6. page = None \/ page = Doss!Render(d) => \A id \in Doss!Ids(d) \ Doss!Ids(c) : Doss!OfNote(id)
  BY <1>4, <1>5
<1>7. dleave' \in [edits : Nat, changes : Nat, mirrors : Nat, faults : Nat]
  BY <1>1 DEF DossierTypes
<1>8. Doss!Project(d, c, None)
  BY <1>0, <1>3
<1>9. Sound(c, o, S) /\ Shaped(c)
  BY DEF Book, Sound
<1>10. c = IF torn = None THEN c ELSE [c EXCEPT !.generated = torn, !.pending = None]
  BY <1>1
<1> HIDE DEF DossierTypes, Resting, Working
<1> QED
  BY <1>1, <1>4, <1>6, <1>7, <1>8, <1>9, <1>10, ProjectStands

LEMMA RequestsStand ==
  ASSUME DossierConstants, DossierTypes, Resting, Working, unheard = {}, unheard' = {},
         \/ \E id \in Doss!Ids(catalog) : Doss!WithdrawFact(id) \/ Doss!CorrectFact(id)
         \/ Doss!Retire \/ Doss!Restore
  PROVE  DossierTypes' /\ Resting' /\ Working'
<1>1. PICK c : c = catalog
  OBVIOUS
<1>2. PICK S : S = Spent
  OBVIOUS
<1>3. PICK T : T = Spent'
  OBVIOUS
<1>4. PICK o : o = person
  OBVIOUS
<1>5. PICK q : q = person'
  OBVIOUS
<1>6. PICK e : Doss!Change(e)
  BY DEF Doss!WithdrawFact, Doss!CorrectFact, Doss!Retire, Doss!Restore
<1>7. /\ S \subseteq T /\ T \subseteq Texts /\ Doss!Asked \in T /\ Doss!Asked \notin S /\ Doss!Asked \in OwnersTexts
      /\ torn = None
  BY <1>2, <1>3, <1>6, ChangeSpends
<1>8. Book(c, page, o, S) /\ Sound(c, o, S) /\ Shaped(c)
  <2>1. job.pc = "change"
    BY <1>6 DEF Doss!Change
  <2> QED
    BY <1>1, <1>2, <1>4, <1>7, <2>1 DEF Resting, OnDisk, Book, Sound
<1>9. Book(c, page, o, T)
  BY <1>7, <1>8, BookGrows
<1>10. /\ o = [gone |-> o.gone, wrote |-> o.wrote, took |-> o.took] /\ o.wrote \subseteq S \cap OwnersTexts
       /\ page # None => WellFormed(page, S)
  BY <1>2, <1>4 DEF DossierTypes
<1>11. ASSUME NEW id \in Doss!Ids(c), Doss!WithdrawFact(id) PROVE DossierTypes' /\ Resting' /\ Working'
  <2>1. PICK d : d = Doss!Withdraw(c, {id})
    OBVIOUS
  <2>2. Doss!Change(d) /\ q = [o EXCEPT !.gone = o.gone \cup {id}]
    BY <1>1, <1>4, <1>5, <1>11, <2>1 DEF Doss!WithdrawFact
  <2>3. /\ q = [gone |-> q.gone, wrote |-> q.wrote, took |-> q.took]
        /\ q.gone = o.gone \cup {id} /\ q.took = o.took /\ q.wrote = o.wrote
    BY <1>10, <2>2
  <2>4. Book(d, page, q, T)
    BY <1>9, <2>1, <2>3, WithdrawnBook
  <2> QED
    BY <1>3, <1>5, <1>7, <1>10, <2>2, <2>3, <2>4, ChangeStands
<1>12. ASSUME NEW id \in Doss!Ids(c), Doss!CorrectFact(id) PROVE DossierTypes' /\ Resting' /\ Working'
  <2>1. PICK w : w = Doss!Asked
    OBVIOUS
  <2>2. PICK d : d = Doss!Withdraw(c, {id})
    OBVIOUS
  <2>3. PICK f : f = Doss!Confirm(d, {{w}})
    OBVIOUS
  <2>4. Doss!Change(f) /\ q = [o EXCEPT !.gone = o.gone \cup {id}, !.wrote = o.wrote \cup {w}]
    BY <1>1, <1>4, <1>5, <1>12, <2>1, <2>2, <2>3 DEF Doss!CorrectFact
  <2>5. /\ q = [gone |-> q.gone, wrote |-> q.wrote, took |-> q.took]
        /\ q.gone = o.gone \cup {id} /\ q.took = o.took /\ q.wrote = o.wrote \cup {w}
    BY <1>10, <2>4
  <2>6. PICK r : r = [gone |-> o.gone \cup {id}, wrote |-> o.wrote, took |-> o.took]
    OBVIOUS
  <2>7. Book(d, page, r, S)
    BY <1>8, <2>2, <2>6, WithdrawnBook
  <2>8. Book(f, page, q, T)
    <3>1. q.gone = r.gone /\ q.took = r.took /\ q.wrote = r.wrote \cup {w}
      BY <2>5, <2>6
    <3>2. w \in T /\ w \notin S /\ w \in OwnersTexts /\ S \subseteq T
      BY <1>7, <2>1
    <3> QED
      BY <1>10, <2>3, <2>7, <3>1, <3>2, AddedBook
  <2>9. q.wrote \subseteq T \cap OwnersTexts
    BY <1>7, <1>10, <2>1, <2>5
  <2> QED
    BY <1>3, <1>5, <2>4, <2>5, <2>8, <2>9, ChangeStands
<1>13. ASSUME NEW d, Doss!Change(d), q = o, Shaped(d), d.facts = c.facts,
              \/ d.generated = c.generated /\ d.pending = c.pending
              \/ page = None /\ d.generated = None /\ d.pending = None
       PROVE  DossierTypes' /\ Resting' /\ Working'
  <2>1. Book(d, page, q, T)
    BY <1>9, <1>13, SameBook
  <2> QED
    BY <1>3, <1>5, <1>7, <1>10, <1>13, <2>1, ChangeStands
<1>14. CASE Doss!Retire
  <2>1. PICK d : d = [c EXCEPT !.retired = TRUE]
    OBVIOUS
  <2>2. Doss!Change(d) /\ q = o
    BY <1>1, <1>4, <1>5, <1>14, <2>1 DEF Doss!Retire
  <2>3. Shaped(d) /\ d.facts = c.facts /\ d.generated = c.generated /\ d.pending = c.pending
    BY <1>8, <2>1 DEF Shaped, Doss!Ids
  <2> QED
    BY <1>13, <2>2, <2>3
<1>15. CASE Doss!Restore
  <2>1. PICK d : d = IF page = None THEN [c EXCEPT !.retired = FALSE, !.generated = None, !.pending = None]
                     ELSE [c EXCEPT !.retired = FALSE]
    OBVIOUS
  <2>2. Doss!Change(d) /\ q = o
    BY <1>1, <1>4, <1>5, <1>15, <2>1 DEF Doss!Restore
  <2>3. /\ Shaped(d) /\ d.facts = c.facts
        /\ \/ d.generated = c.generated /\ d.pending = c.pending
           \/ page = None /\ d.generated = None /\ d.pending = None
    BY <1>8, <2>1 DEF Shaped, Doss!Ids
  <2> QED
    BY <1>13, <2>2, <2>3
<1> QED
  BY <1>1, <1>11, <1>12, <1>14, <1>15

\* Once everything on a page has been heard, the next one may be put there.
\* The page is created, or replaced: nothing of it is left, and the owner's corrections are as q has them.
LEMMA WrittenStands ==
  ASSUME DossierConstants, DossierTypes, Working, job.pc \in {"write", "place"}, Doss!Written,
         dnote' = dnote, catalog' = catalog, dleave' = dleave, NEW q, person' = q, Alone(job.mem, q),
         q = [gone |-> q.gone, wrote |-> person.wrote, took |-> q.took],
         \A id : Silenced(job.mem, id) => id \in q.gone
  PROVE  DossierTypes' /\ Resting' /\ Working'
<1>1. PICK o, S : o = person /\ S = Spent
  OBVIOUS
<1>2. PICK m : m = job.mem
  OBVIOUS
<1>3. /\ catalog = m /\ m.pending = Doss!Render(m) /\ torn = None
      /\ Sound(m, o, S) /\ Shaped(m) /\ S \subseteq Texts
  BY <1>1, <1>2 DEF Working, DossierTypes, Book, Sound, Spent
<1>4. job = [pc |-> job.pc, mem |-> job.mem, seen |-> job.seen, then |-> job.then] /\ job.then \in {None, "change"}
  BY DEF DossierTypes
<1>5. PICK b : b = Doss!Render(m)
  OBVIOUS
<1>6. PICK n : n = [facts |-> m.facts, generated |-> b, pending |-> None, retired |-> m.retired]
  OBVIOUS
<1>7. /\ page' = b /\ torn' = b /\ job' = [job EXCEPT !.pc = "save", !.mem.generated = b, !.mem.pending = None]
  BY <1>2, <1>5 DEF Doss!Written
<1>8. n = [m EXCEPT !.generated = b, !.pending = None]
  <2>1. PICK x : x = [m EXCEPT !.generated = b, !.pending = None]
    OBVIOUS
  <2>2. x = [facts |-> m.facts, generated |-> b, pending |-> None, retired |-> m.retired]
    BY <1>3, <2>1 DEF Shaped
  <2> QED
    BY <1>6, <2>1, <2>2
<1>9. job' = [pc |-> "save", mem |-> n, seen |-> job.seen, then |-> job.then]
  BY <1>2, <1>4, <1>7, <1>8
<1>10. job'.pc = "save" /\ job'.mem = n /\ job'.then = job.then /\ job'.seen = job.seen
  BY <1>9
<1>11. n.facts = m.facts /\ n.generated = b /\ n.pending = None /\ n.retired = m.retired
  BY <1>6
<1>12. Doss!Ids(n) = Doss!Ids(m)
  BY <1>11 DEF Doss!Ids
<1>13. Shaped(n) /\ (\A id : Silenced(n, id) <=> Silenced(m, id)) /\ (\A w : InFact(n, w) <=> InFact(m, w))
  BY <1>3, <1>6, <1>11, <1>12 DEF Shaped, Silenced, InFact
<1>14. Alone(m, q) /\ q.wrote = o.wrote /\ q.gone = person'.gone /\ q.took = person'.took
  BY <1>1, <1>2
<1>15. WellFormed(b, S) /\ Drawn(b, m) /\ b # None
  <2>1. \A id \in Doss!Ids(m) : id # {} /\ id \subseteq S
    BY <1>3 DEF Sound
  <2> QED
    BY <1>1, <1>3, <1>5, <2>1, RenderGives
<1>16. Sound(n, q, S)
  <2>1. \A id \in Doss!Ids(n) : id # {} /\ id \subseteq S
    BY <1>3, <1>12 DEF Sound
  <2>2. \A l \in b.lines : l.id \in Doss!Ids(n) /\ l.text = l.id
    BY <1>12, <1>15 DEF Drawn
  <2>3. \A id \in Doss!Ids(n) : /\ ~Doss!OfNote(id) => id \subseteq q.wrote /\ n.facts[id].why = None
                                /\ Silenced(n, id) => id \in q.gone
    BY <1>2, <1>3, <1>11, <1>12, <1>13, <1>14 DEF Sound
  <2> QED
    BY <1>11, <1>13, <1>15, <2>1, <2>2, <2>3 DEF Sound
<1>17. Follows(n, b, q)
  BY <1>11, <1>13, <1>14, <1>15 DEF Follows, Alone
<1>18. Book(n, b, q, S) /\ Later(n, n)
  BY <1>15, <1>16, <1>17 DEF Book, Later
<1>19. OnDisk' = n
  BY <1>3, <1>7, <1>8, <1>15 DEF OnDisk
<1>20. Spent' = S
  BY <1>1, <1>10 DEF Spent, Expects
<1>21. page' = b /\ torn' = b /\ person' = q /\ Shaped(catalog') /\ b = catalog'.pending
  BY <1>3, <1>5, <1>7
<1>22. DossierTypes'
  <2>1. q.wrote \subseteq S \cap OwnersTexts
    BY <1>1, <1>14 DEF DossierTypes
  <2>2. /\ q = [gone |-> q.gone, wrote |-> q.wrote, took |-> q.took]
    BY <1>1, <1>14
  <2> QED
    BY <1>4, <1>9, <1>10, <1>15, <1>20, <1>21, <2>1, <2>2 DEF DossierTypes
<1>23. Resting'
  BY <1>10 DEF Resting
<1>24. Working'
  BY <1>10, <1>16, <1>18, <1>19, <1>20, <1>21 DEF Working
<1> QED
  BY <1>22, <1>23, <1>24

\* The page is created where there is none, or looked at again, or left as the device has it.
LEMMA WriteStands ==
  ASSUME DossierConstants, DossierTypes, Resting, Working, Doss!Write
  PROVE  DossierTypes' /\ Resting' /\ Working'
<1>0. /\ job.pc = "write" /\ dnote' = dnote /\ catalog' = catalog /\ person' = person /\ unheard' = unheard /\ dleave' = dleave
  BY DEF Doss!Write
<1>1. job = [pc |-> job.pc, mem |-> job.mem, seen |-> job.seen, then |-> job.then] /\ job.then \in {None, "change"}
  BY DEF DossierTypes
<1>2. CASE Doss!Create
  <2>1. page = None /\ Doss!Written
    BY <1>2 DEF Doss!Create
  <2>2. Alone(job.mem, person) /\ Sound(job.mem, person, Spent)
    BY <1>0, <2>1 DEF Working, Book
  <2>3. \A id : Silenced(job.mem, id) => id \in person.gone
    BY <2>2 DEF Sound, Silenced
  <2>4. person = [gone |-> person.gone, wrote |-> person.wrote, took |-> person.took]
    BY DEF DossierTypes
  <2> QED
    BY <1>0, <2>1, <2>2, <2>3, <2>4, WrittenStands
<1>3. CASE Doss!LookAgain \/ Doss!HeldBack
  <2>1. PICK pc \in {"place", "save"} : job' = [pc |-> pc, mem |-> job.mem, seen |-> job.seen, then |-> job.then]
    <3>1. CASE Doss!LookAgain
      BY <1>1, <3>1 DEF Doss!LookAgain, Doss!AsRead
    <3>2. CASE Doss!HeldBack
      BY <1>1, <3>2 DEF Doss!HeldBack
    <3> QED
      BY <1>3, <3>1, <3>2
  <2>2. /\ page' = page /\ torn' = torn
        /\ job'.pc = pc /\ job'.mem = job.mem /\ job'.then = job.then /\ job'.seen = job.seen
    BY <1>3, <2>1 DEF Doss!LookAgain, Doss!HeldBack
  <2>3. Spent' = Spent /\ OnDisk' = OnDisk /\ torn = None
    BY <1>0, <2>2 DEF Spent, Expects, OnDisk, DossierTypes
  <2>4. DossierTypes'
    BY <1>0, <1>1, <2>1, <2>2, <2>3 DEF DossierTypes
  <2>5. Resting'
    BY <2>2 DEF Resting
  <2>6. Working'
    BY <1>0, <2>2, <2>3 DEF Working
  <2> QED
    BY <2>4, <2>5, <2>6
<1> QED
  BY <1>2, <1>3 DEF Doss!Write

\* The page is replaced: as it was looked at, or with what a device wrote since.
LEMMA PlaceStands ==
  ASSUME DossierConstants, DossierTypes, Resting, Working, Doss!Place
  PROVE  DossierTypes' /\ Resting' /\ Working'
<1>0. /\ job.pc = "place" /\ Doss!Written /\ dnote' = dnote /\ catalog' = catalog /\ dleave' = dleave
      /\ person' = IF page = job.seen THEN person ELSE Doss!Unheard(job.mem)
  BY DEF Doss!Place
<1>1. PICK m, o, q : m = job.mem /\ o = person /\ q = person'
  OBVIOUS
<1>2. /\ Book(m, page, o, Spent) /\ Sound(m, o, Spent) /\ m.generated = job.seen
      /\ o = [gone |-> o.gone, wrote |-> o.wrote, took |-> o.took]
  BY <1>0, <1>1 DEF Working, Book, DossierTypes
<1>3. CASE page = job.seen
  <2>1. q = o
    BY <1>0, <1>1, <1>3
  <2>2. Alone(m, o)
    <3>1. CASE page = None
      BY <1>2, <3>1 DEF Book
    <3>2. CASE page # None
      BY <1>2, <1>3, <3>2 DEF Book, Follows, Alone
    <3> QED
      BY <3>1, <3>2
  <2>3. \A id : Silenced(m, id) => id \in o.gone
    BY <1>2 DEF Sound, Silenced
  <2> QED
    BY <1>0, <1>1, <1>2, <2>1, <2>2, <2>3, WrittenStands
<1>4. CASE page # job.seen
  <2>1. /\ q = [gone |-> q.gone, wrote |-> o.wrote, took |-> q.took]
        /\ q.gone = {id \in o.gone : Silenced(m, id)}
        /\ q.took = o.took \cup {w \in o.wrote : ~InFact(m, w)}
    BY <1>0, <1>1, <1>2, <1>4 DEF Doss!Unheard, Silenced, InFact
  <2>2. q.wrote = o.wrote
    BY <2>1
  <2>3. Alone(m, q)
    BY <2>1, <2>2 DEF Alone
  <2>4. \A id : Silenced(m, id) => id \in q.gone
    BY <1>2, <2>1 DEF Sound, Silenced
  <2> QED
    BY <1>0, <1>1, <2>1, <2>3, <2>4, WrittenStands
<1> QED
  BY <1>3, <1>4

LEMMA SaveStands ==
  ASSUME DossierConstants, DossierTypes, Resting, Working, Doss!Save
  PROVE  DossierTypes' /\ Resting' /\ Working'
<1>0. /\ job.pc = "save" /\ dnote' = dnote /\ catalog' = job.mem /\ torn' = None /\ page' = page
      /\ person' = person /\ dleave' = dleave
      /\ job' = IF job.then = None THEN Doss!Idle ELSE [Doss!Idle EXCEPT !.pc = job.then]
  BY DEF Doss!Save
<1>1. job.then \in {None, "change"}
  BY DEF DossierTypes
<1>2. /\ job' = [pc |-> job'.pc, mem |-> None, seen |-> None, then |-> None] /\ job'.then = None
      /\ job'.pc = IF job.then = None THEN "idle" ELSE "change"
  BY <1>0, <1>1 DEF Doss!Idle
<1>3. Spent' = Spent
  BY <1>0, <1>1, <1>2 DEF Spent, Expects, DossierConstants
<1>4. OnDisk' = job.mem /\ Book(job.mem, page, person, Spent) /\ Shaped(job.mem)
  BY <1>0 DEF OnDisk, Working, Book, Sound
<1>5. DossierTypes'
  BY <1>0, <1>2, <1>3, <1>4 DEF DossierTypes
<1>6. Resting'
  BY <1>0, <1>2, <1>3, <1>4 DEF Resting
<1>7. Working'
  BY <1>2 DEF Working
<1> QED
  BY <1>5, <1>6, <1>7

\* A request is refused, the mirror sees another version, or the store dies.
LEMMA LeftStands ==
  ASSUME DossierConstants, DossierTypes, Resting, Working,
         Doss!Refused \/ Doss!Crash \/ \E v \in Editions \cup {None} : Doss!NoteChanges(v)
  PROVE  DossierTypes' /\ Resting' /\ Working'
<1>0. page' = page /\ catalog' = catalog /\ torn' = torn /\ OnDisk' = OnDisk
  BY DEF Doss!Refused, Doss!Crash, Doss!NoteChanges, OnDisk
<1>1. CASE Doss!Refused \/ Doss!Crash
  <2>1. /\ job' = Doss!Idle /\ dnote' = dnote /\ dleave' \in [edits : Nat, changes : Nat, mirrors : Nat, faults : Nat]
        /\ dleave'.edits = dleave.edits /\ dleave'.changes = dleave.changes /\ job.pc # "idle"
        /\ person' = IF Doss!Crash /\ page = None THEN Doss!Unheard(catalog) ELSE person
    BY <1>1 DEF Doss!Refused, Doss!Crash, Doss!Fails, DossierTypes
  <2>2. job' = [pc |-> "idle", mem |-> None, seen |-> None, then |-> None] /\ job'.pc = "idle" /\ job'.then = None
    BY <2>1 DEF Doss!Idle
  <2>3. Spent \subseteq Spent'
    BY <2>1, <2>2 DEF Spent, Expects, DossierConstants
  <2>4. PICK o, S, T : o = person /\ S = Spent /\ T = Spent'
    OBVIOUS
  <2>5. PICK c : c = OnDisk
    OBVIOUS
  <2>6. PICK q : q = person'
    OBVIOUS
  <2>7. /\ Sound(c, o, S) /\ (page # None => Book(c, page, o, S)) /\ S \subseteq T
        /\ c.facts = catalog.facts /\ Doss!Ids(c) = Doss!Ids(catalog)
    BY <2>3, <2>4, <2>5, DiskStands
  <2>8. q = [gone |-> q.gone, wrote |-> q.wrote, took |-> q.took] /\ q.wrote = o.wrote
    BY <2>1, <2>4, <2>6 DEF DossierTypes, Doss!Unheard
  <2>9. Book(c, page, q, T)
    <3>1. CASE page # None
      BY <2>1, <2>4, <2>6, <2>7, <3>1, BookGrows
    <3>2. CASE page = None /\ Doss!Crash
      <4>1. /\ q.gone = {id \in o.gone : Silenced(c, id)}
            /\ q.took = o.took \cup {w \in o.wrote : ~InFact(c, w)}
        BY <2>1, <2>4, <2>6, <2>7, <3>2 DEF Doss!Unheard, Silenced, InFact, DossierTypes
      <4>2. Alone(c, q)
        BY <2>8, <4>1 DEF Alone
      <4>3. \A id : Silenced(c, id) => id \in q.gone
        BY <2>7, <4>1 DEF Sound, Silenced
      <4> QED
        BY <2>7, <2>8, <3>2, <4>2, <4>3, SoundGrows DEF Book
    <3>3. CASE page = None /\ ~Doss!Crash
      <4>1. q = o /\ job.pc = "change"
        BY <1>1, <2>1, <2>4, <2>6, <3>3 DEF Doss!Refused
      <4>2. Book(c, page, o, S)
        BY <2>4, <2>5, <4>1 DEF Resting
      <4> QED
        BY <2>7, <4>1, <4>2, BookGrows
    <3> QED
      BY <3>1, <3>2, <3>3
  <2>10. q.wrote \subseteq T \cap OwnersTexts
    BY <2>4, <2>7, <2>8 DEF DossierTypes
  <2>11. DossierTypes'
    <3>1. page # None => WellFormed(page, T)
      BY <2>4, <2>7 DEF DossierTypes, WellFormed
    <3> QED
      BY <1>0, <2>1, <2>2, <2>4, <2>6, <2>8, <2>10, <3>1 DEF DossierTypes
  <2>12. Resting'
    BY <1>0, <2>2, <2>4, <2>5, <2>6, <2>9 DEF Resting
  <2>13. Working'
    BY <2>2 DEF Working
  <2> QED
    BY <2>11, <2>12, <2>13
<1>2. CASE \E v \in Editions \cup {None} : Doss!NoteChanges(v)
  <2>1. /\ job' = job /\ dnote' \in Editions \cup {None} /\ person' = person
        /\ dleave' \in [edits : Nat, changes : Nat, mirrors : Nat, faults : Nat]
        /\ dleave'.edits = dleave.edits /\ dleave'.changes = dleave.changes
    BY <1>2 DEF Doss!NoteChanges, Doss!MayMirror, DossierTypes
  <2>2. Spent' = Spent
    BY <2>1 DEF Spent, Expects
  <2>3. DossierTypes'
    BY <1>0, <2>1, <2>2 DEF DossierTypes
  <2> QED
    BY <1>0, <2>1, <2>2, <2>3 DEF Resting, Working
<1> QED
  BY <1>1, <1>2

LEMMA EditsStand ==
  ASSUME DossierConstants, DossierTypes, Resting, Working, Doss!OwnerEdits
  PROVE  DossierTypes' /\ Resting' /\ Working'
<1>1. page # None /\ (Doss!RemovesLine \/ Doss!RewritesLine \/ Doss!AddsLine)
  BY DEF Doss!OwnerEdits
<1>2. PICK b, o, S, T, w, p, q : b = page /\ o = person /\ S = Spent /\ T = Spent' /\ w = Doss!Word /\ p = page' /\ q = person'
  OBVIOUS
<1>3. /\ \/ \E l \in b.lines : \E lines, words :
              /\ (lines = {} /\ words = {}) \/ (lines = {Doss!Line(l.id, {w})} /\ words = {w})
              /\ p = [b EXCEPT !.lines = (b.lines \ {l}) \cup lines]
              /\ q = [gone |-> o.gone \cup {l.id}, wrote |-> o.wrote \cup words, took |-> o.took \cup (l.text \ l.id)]
         \/ /\ p = [b EXCEPT !.rest = b.rest \cup {w}]
            /\ q = [gone |-> o.gone \cup {}, wrote |-> o.wrote \cup {w}, took |-> o.took \cup {}]
      /\ dnote' = dnote /\ catalog' = catalog /\ job' = job /\ torn' = torn
      /\ dleave' = [dleave EXCEPT !.edits = dleave.edits - 1] /\ dleave.edits > 0
  <2>1. ASSUME NEW l \in b.lines, NEW lines, NEW words, Doss!Replaces(l, lines, words),
               (lines = {} /\ words = {}) \/ (lines = {Doss!Line(l.id, {w})} /\ words = {w})
        PROVE  <1>3
    BY <1>2, <2>1 DEF Doss!Replaces, Doss!Edits, Doss!MayEdit
  <2>2. CASE Doss!RemovesLine
    BY <1>2, <2>1, <2>2 DEF Doss!RemovesLine
  <2>3. CASE Doss!RewritesLine
    BY <1>2, <2>1, <2>3 DEF Doss!RewritesLine
  <2>4. CASE Doss!AddsLine
    BY <1>2, <2>4 DEF Doss!AddsLine, Doss!Edits, Doss!MayEdit
  <2> QED
    BY <1>1, <2>2, <2>3, <2>4
<1>4. OnDisk' = OnDisk /\ Expects' = Expects
  BY <1>3 DEF OnDisk, Expects
<1>5. dleave \in [edits : Nat, changes : Nat, mirrors : Nat, faults : Nat]
  BY DEF DossierTypes
<1>6. /\ dleave' \in [edits : Nat, changes : Nat, mirrors : Nat, faults : Nat]
      /\ dleave'.edits = dleave.edits - 1 /\ dleave'.changes = dleave.changes /\ dleave.edits > 0
  BY <1>3, <1>5
<1>7. S \subseteq T /\ T \subseteq Texts
  <2>1. \A x \in Texts : x[1] = "word" => x[2] \in Nat
    BY DEF Texts
  <2> QED
    BY <1>2, <1>4, <1>5, <1>6, <2>1 DEF Spent
<1>8. w \in T /\ w \notin S /\ w \in OwnersTexts
  <2>1. w = <<"word", dleave.edits>> /\ dleave.edits \in Nat
    BY <1>2, <1>5 DEF Doss!Word
  <2>2. w \in Texts /\ w \in OwnersTexts /\ w[1] = "word" /\ w[2] = dleave.edits
    BY <2>1 DEF Texts, OwnersTexts
  <2> QED
    BY <1>2, <1>4, <1>5, <1>6, <2>2 DEF Spent
<1>9. b # None /\ WellFormed(b, S) /\ S \subseteq Texts
  BY <1>1, <1>2, <1>7 DEF DossierTypes
<1>10. ASSUME NEW c, Book(c, b, o, S) PROVE WellFormed(p, T) /\ Book(c, p, q, T) /\ p # None
  <2>0. b = [lines |-> b.lines, rest |-> b.rest, retired |-> b.retired]
    BY <1>9 DEF WellFormed, Doss!Block
  <2>1. ASSUME NEW l \in b.lines, NEW lines, NEW words,
               (lines = {} /\ words = {}) \/ (lines = {Doss!Line(l.id, {w})} /\ words = {w}),
               p = [b EXCEPT !.lines = (b.lines \ {l}) \cup lines],
               q = [gone |-> o.gone \cup {l.id}, wrote |-> o.wrote \cup words, took |-> o.took \cup (l.text \ l.id)]
        PROVE  WellFormed(p, T) /\ Book(c, p, q, T) /\ p # None
    <3>1. /\ p = Doss!Block(p.lines, p.rest, p.retired)
          /\ p.lines = (b.lines \ {l}) \cup lines /\ p.rest = b.rest /\ p.retired = b.retired
      BY <2>0, <2>1 DEF Doss!Block
    <3>2. q.gone = o.gone \cup {l.id} /\ q.wrote = o.wrote \cup words /\ q.took = o.took \cup (l.text \ l.id)
      BY <2>1
    <3>3. \/ lines = {} /\ words = {}
          \/ \E v \in T : v \notin S /\ lines = {Doss!Line(l.id, {v})} /\ words = {v}
      BY <1>8, <2>1
    <3>4. Rewritten(p, q, b, o, S, T, l, lines, words)
      BY <3>1, <3>2, <3>3 DEF Rewritten
    <3> QED
      BY <1>7, <1>9, <1>10, <3>4, ReplacesBook
  <2>2. ASSUME p = [b EXCEPT !.rest = b.rest \cup {w}],
               q = [gone |-> o.gone \cup {}, wrote |-> o.wrote \cup {w}, took |-> o.took \cup {}]
        PROVE  WellFormed(p, T) /\ Book(c, p, q, T) /\ p # None
    <3>1. /\ p = Doss!Block(p.lines, p.rest, p.retired)
          /\ p.lines = b.lines /\ p.rest = b.rest \cup {w} /\ p.retired = b.retired
      BY <2>0, <2>2 DEF Doss!Block
    <3>2. q.gone = o.gone /\ q.wrote = o.wrote \cup {w} /\ q.took = o.took
      BY <2>2
    <3>3. Extended(p, q, b, o, w)
      BY <3>1, <3>2 DEF Extended
    <3> QED
      BY <1>7, <1>8, <1>9, <1>10, <3>3, AddsBook
  <2> QED
    BY <1>3, <2>1, <2>2
<1>11. Book(OnDisk, b, o, S)
  BY <1>1, <1>2, DiskStands
<1>12. WellFormed(p, T) /\ p # None
  BY <1>10, <1>11
<1>13. Book(OnDisk, p, q, T) /\ Sound(OnDisk, q, T)
  BY <1>10, <1>11 DEF Book
<1>14. DossierTypes'
  <2>1. q = [gone |-> q.gone, wrote |-> q.wrote, took |-> q.took] /\ q.wrote \subseteq o.wrote \cup {w}
    BY <1>3
  <2>2. o.wrote \subseteq S \cap OwnersTexts
    BY <1>2 DEF DossierTypes
  <2>3. q.wrote \subseteq T \cap OwnersTexts
    BY <1>7, <1>8, <2>1, <2>2
  <2> QED
    BY <1>2, <1>3, <1>6, <1>12, <2>1, <2>3 DEF DossierTypes
<1>15. Resting'
  BY <1>2, <1>3, <1>4, <1>13 DEF Resting
<1>16. Working'
  <2> SUFFICES ASSUME job.pc \notin {"idle", "change"} PROVE Working'
    BY <1>3 DEF Working
  <2>1. Book(job.mem, b, o, S)
    BY <1>2 DEF Working
  <2>2. Book(job.mem, p, q, T)
    BY <1>10, <2>1
  <2> QED
    BY <1>2, <1>3, <1>4, <1>13, <2>2 DEF Working
<1> QED
  BY <1>14, <1>15, <1>16

LEMMA DeletionStands ==
  ASSUME DossierConstants, DossierTypes, Resting, Working, Doss!OwnerDeletesPage
  PROVE  DossierTypes' /\ Resting' /\ Working'
<1>1. /\ page # None /\ page' = None /\ dnote' = dnote /\ catalog' = catalog /\ job' = job /\ torn' = torn
      /\ dleave' = [dleave EXCEPT !.edits = dleave.edits - 1] /\ dleave.edits > 0 /\ OnDisk' = OnDisk /\ Expects' = Expects
  BY DEF Doss!OwnerDeletesPage, Doss!MayEdit, OnDisk, Expects
<1>2. PICK c : c = IF job.pc \in {"write", "place", "save"} THEN job.mem ELSE OnDisk
  OBVIOUS
<1>3. PICK o, S, T, q : o = person /\ S = Spent /\ T = Spent' /\ q = person'
  OBVIOUS
<1>4. PICK d : d = IF job.pc \in {"write", "place", "save"} THEN job.mem ELSE catalog
  OBVIOUS
<1>5. d.facts = c.facts /\ Doss!Ids(d) = Doss!Ids(c)
  BY <1>2, <1>4, DiskStands
<1>6. Sound(c, o, S)
  BY <1>2, <1>3, DiskStands DEF Working, Book
<1>7. /\ q = [gone |-> q.gone, wrote |-> q.wrote, took |-> q.took] /\ q.wrote = o.wrote
      /\ q.gone = {id \in o.gone : Silenced(c, id)}
      /\ q.took = o.took \cup {w \in o.wrote : ~InFact(c, w)}
  BY <1>3, <1>4, <1>5 DEF Doss!OwnerDeletesPage, Doss!Unheard, DossierTypes, Silenced, InFact
<1>8. dleave \in [edits : Nat, changes : Nat, mirrors : Nat, faults : Nat]
  BY DEF DossierTypes
<1>9. /\ dleave' \in [edits : Nat, changes : Nat, mirrors : Nat, faults : Nat]
      /\ dleave'.edits = dleave.edits - 1 /\ dleave'.changes = dleave.changes
  BY <1>1, <1>8
<1>10. S \subseteq T
  <2>1. \A x \in Texts : x[1] = "word" => x[2] \in Nat
    BY DEF Texts
  <2> QED
    BY <1>1, <1>3, <1>8, <1>9, <2>1 DEF Spent
<1>11. \A id : Silenced(c, id) => id \in q.gone
  BY <1>6, <1>7 DEF Sound, Silenced
<1>12. Book(c, None, q, T)
  BY <1>6, <1>7, <1>10, <1>11, SoundGrows DEF Book, Alone
<1>13. DossierTypes'
  <2>1. q.wrote \subseteq T \cap OwnersTexts
    BY <1>3, <1>7, <1>10 DEF DossierTypes
  <2> QED
    BY <1>1, <1>3, <1>7, <1>9, <2>1 DEF DossierTypes
<1>14. Resting'
  BY <1>1, <1>2, <1>3, <1>12 DEF Resting
<1>15. Working'
  <2> SUFFICES ASSUME job.pc \notin {"idle", "change"} PROVE Working'
    BY <1>1 DEF Working
  <2>1. c = job.mem /\ Later(c, OnDisk)
    BY <1>2 DEF Working
  <2>2. \A id : Silenced(OnDisk, id) => id \in q.gone
    BY <1>11, <2>1 DEF Later, Silenced
  <2>3. Sound(OnDisk, q, T)
    BY <1>3, <1>7, <1>10, <2>2, DiskStands, SoundGrows
  <2> QED
    BY <1>1, <1>3, <1>12, <2>1, <2>3 DEF Working
<1> QED
  BY <1>13, <1>14, <1>15

LEMMA DossierStarts ==
  ASSUME DossierConstants, Doss!Init
  PROVE  DossierInv
<1>1. PICK f : f = [id \in {} |-> None]
  OBVIOUS
<1>2. /\ page = None /\ dnote = (CHOOSE v \in Editions : TRUE)
      /\ catalog = [facts |-> f, generated |-> None, pending |-> None, retired |-> FALSE]
      /\ job = [Doss!Idle EXCEPT !.pc = "idle"]
      /\ person = [gone |-> {}, wrote |-> {}, took |-> {}] /\ torn = None /\ unheard = {}
      /\ dleave = [edits |-> DossierEdits, changes |-> DossierChanges, mirrors |-> DossierMirrors, faults |-> ServiceFaults]
  BY <1>1 DEF Doss!Init, Doss!Start
<1>3. Doss!Ids(catalog) = {} /\ Shaped(catalog)
  BY <1>1, <1>2 DEF Doss!Ids, Shaped
<1>4. job = [pc |-> "idle", mem |-> None, seen |-> None, then |-> None]
  BY <1>2 DEF Doss!Idle
<1>5. dnote \in Editions
  BY <1>2 DEF DossierConstants
<1>6. DossierTypes
  <2>1. dleave \in [edits : Nat, changes : Nat, mirrors : Nat, faults : Nat]
    BY <1>2 DEF DossierConstants
  <2>2. /\ job = [pc |-> job.pc, mem |-> job.mem, seen |-> job.seen, then |-> job.then] /\ job.then = None
        /\ person = [gone |-> person.gone, wrote |-> person.wrote, took |-> person.took] /\ person.wrote = {}
    <3>1. job.pc = "idle" /\ job.mem = None /\ job.seen = None /\ job.then = None
      BY <1>4
    <3>2. person.gone = {} /\ person.wrote = {} /\ person.took = {}
      BY <1>2
    <3> QED
      BY <1>2, <1>4, <3>1, <3>2
  <2> QED
    BY <1>2, <1>3, <1>5, <2>1, <2>2 DEF DossierTypes
<1>7. Sound(catalog, person, Spent)
  BY <1>2, <1>3 DEF Sound
<1>8. Book(OnDisk, page, person, Spent)
  BY <1>2, <1>7 DEF Book, Alone, OnDisk
<1> QED
  BY <1>4, <1>6, <1>8 DEF DossierInv, Resting, Working

LEMMA DossierStep ==
  ASSUME DossierConstants, DossierInv, [Doss!Next]_(Doss!vars)
  PROVE  DossierInv'
<1>1. CASE UNCHANGED Doss!vars
  BY <1>1 DEF Doss!vars, DossierInv, DossierTypes, Resting, Working, OnDisk, Spent, Expects
<1>2. CASE Doss!Next
  <2> SUFFICES ASSUME unheard' = {} PROVE DossierTypes' /\ Resting' /\ Working'
    BY DEF DossierInv
  <2>1. unheard = {}
    BY <1>2 DEF Doss!Next, Doss!Refresh, Doss!Write, Doss!Place, Doss!Save, Doss!WithdrawFact, Doss!CorrectFact, Doss!Retire,
                Doss!Restore, Doss!Change, Doss!Listens, Doss!Refused, Doss!NoteChanges, Doss!OwnerEdits,
                Doss!RemovesLine, Doss!RewritesLine, Doss!AddsLine, Doss!Replaces, Doss!Edits, Doss!OwnerDeletesPage, Doss!Crash
  <2>2. DossierTypes /\ Resting /\ Working
    BY <2>1 DEF DossierInv
  <2>3. CASE \E then \in {None, "change"} : Doss!Refresh(then)
    BY <2>1, <2>2, <2>3, RefreshStands
  <2>4. CASE Doss!Write
    BY <2>2, <2>4, WriteStands
  <2>10. CASE Doss!Place
    BY <2>2, <2>10, PlaceStands
  <2>5. CASE Doss!Save
    BY <2>2, <2>5, SaveStands
  <2>6. CASE \/ \E id \in Doss!Ids(catalog) : Doss!WithdrawFact(id) \/ Doss!CorrectFact(id)
             \/ Doss!Retire \/ Doss!Restore
    BY <2>1, <2>2, <2>6, RequestsStand
  <2>7. CASE Doss!Refused \/ Doss!Crash \/ \E v \in Editions \cup {None} : Doss!NoteChanges(v)
    BY <2>2, <2>7, LeftStands
  <2>8. CASE Doss!OwnerEdits
    BY <2>2, <2>8, EditsStand
  <2>9. CASE Doss!OwnerDeletesPage
    BY <2>2, <2>9, DeletionStands
  <2> QED
    BY <1>2, <2>3, <2>4, <2>5, <2>6, <2>7, <2>8, <2>9, <2>10 DEF Doss!Next
<1> QED
  BY <1>1, <1>2

LEMMA DossierHeard ==
  ASSUME DossierConstants, DossierInv
  PROVE  Doss!CorrectionsStand
<1> SUFFICES ASSUME unheard = {} PROVE Doss!Heard /\ Doss!OwnersOnly
  BY DEF Doss!CorrectionsStand
<1>0. DossierTypes /\ Resting /\ Working
  BY DEF DossierInv
<1>1. PICK c, o, S : c = OnDisk /\ o = person /\ S = Spent
  OBVIOUS
<1>2. /\ Sound(c, o, S) /\ (page # None => Book(c, page, o, S)) /\ Shaped(c)
      /\ c.facts = catalog.facts /\ Doss!Ids(c) = Doss!Ids(catalog)
  BY <1>0, <1>1, DiskStands
<1>3. \A id : Silenced(c, id) <=> id \in Doss!Ids(catalog) /\ catalog.facts[id] = Doss!Fact("withdrawn", None)
  BY <1>2 DEF Silenced
<1>4. Doss!OwnersOnly
  BY <1>1, <1>2, <1>3 DEF Doss!OwnersOnly, Sound
<1>5. ASSUME page # None PROVE Doss!Heard
  <2>1. /\ Follows(c, page, o) /\ WellFormed(c.generated, S) /\ c.generated # None
        /\ \A l \in c.generated.lines : l.id \in Doss!Ids(c)
    BY <1>2, <1>5 DEF Book, Sound, Follows
  <2>2. ASSUME NEW id \in o.gone, Doss!Shown(id), Doss!Is(catalog, id, "confirmed") PROVE FALSE
    <3>1. ~Silenced(c, id)
      BY <1>3, <2>2 DEF Doss!Is, Doss!Fact
    <3>2. PICK l \in c.generated.lines \ page.lines : l.id = id
      BY <2>1, <3>1 DEF Follows
    <3>3. PICK m : m = Doss!Line(id, id)
      OBVIOUS
    <3>4. m \in page.lines /\ m.id = id /\ m.text = id
      BY <2>2, <3>3 DEF Doss!Shown, Doss!Line
    <3>5. m \notin c.generated.lines
      BY <2>1, <3>2, <3>4 DEF WellFormed
    <3>6. \A w \in id : ~InFact(c, w)
      BY <2>1, <3>4, <3>5 DEF Follows
    <3>7. id \in Doss!Ids(c) /\ id # {}
      BY <1>2, <2>1, <3>2 DEF Sound
    <3> QED
      BY <3>6, <3>7 DEF InFact
  <2>3. ASSUME NEW w \in o.wrote \ o.took PROVE Doss!OnThePage(w) \/ \E id \in Doss!Ids(catalog) : w \in id
    BY <1>2, <1>5, <2>1, <2>3 DEF Follows, InFact, Doss!OnThePage
  <2> QED
    BY <1>1, <2>2, <2>3 DEF Doss!Heard
<1>6. ASSUME page = None PROVE Doss!Heard
  <2>1. \A id : ~Doss!Shown(id)
    BY <1>6 DEF Doss!Shown
  <2>2. ASSUME NEW w \in o.wrote \ o.took PROVE \E id \in Doss!Ids(catalog) : w \in id
    <3>1. CASE job.pc \in {"idle", "change"}
      BY <1>0, <1>1, <1>2, <1>6, <2>2, <3>1 DEF Resting, Book, Alone, InFact
    <3>2. CASE job.pc \notin {"idle", "change"}
      <4>1. InFact(job.mem, w) /\ Later(job.mem, c)
        BY <1>0, <1>1, <1>6, <2>2, <3>2 DEF Working, Book, Alone
      <4>2. PICK id \in Doss!Ids(job.mem) : w \in id
        BY <4>1 DEF InFact
      <4>3. w \in OwnersTexts
        BY <1>0, <1>1, <2>2 DEF DossierTypes
      <4>4. id \in Doss!Ids(c)
        BY <4>1, <4>2, <4>3, MentionsAre DEF Later
      <4> QED
        BY <1>2, <4>2, <4>4
    <3> QED
      BY <3>1, <3>2
  <2> QED
    BY <1>1, <2>1, <2>2 DEF Doss!Heard
<1> QED
  BY <1>4, <1>5, <1>6

\* The owner's corrections stand and nobody else makes any, and who is who stays settled.
THEOREM CorrectionsAlwaysStand == Doss!Spec /\ Who!Spec => CorrectionsStand
<1> USE ServicesAssumption
<1>1. DossierConstants
  BY DEF ServicesAssumption
<1>2. Doss!Init => DossierInv
  BY <1>1, DossierStarts
<1>3. DossierInv /\ [Doss!Next]_(Doss!vars) => DossierInv'
  BY <1>1, DossierStep
<1>4. DossierInv => Doss!CorrectionsStand
  BY <1>1, DossierHeard
<1>5. Doss!Spec => []Doss!CorrectionsStand
  BY <1>2, <1>3, <1>4, PTL DEF Doss!Spec
<1> QED
  BY <1>5, PeopleStandAlways, PTL DEF CorrectionsStand
=============================================================================
