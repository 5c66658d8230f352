----------------------------- MODULE StoreLocks -----------------------------
(***************************************************************************)
(* Which handler of the store takes which lock inside which: the           *)
(* maintenance gate of MaintenanceGate composed with the asyncio.Locks of  *)
(* LocalStore, ContextService, NoteLifecycle and EntityStore.              *)
(*                                                                         *)
(* A handler is its with-blocks and nothing else, written as a sequence of *)
(* locks to enter and "leave"s that end the innermost block.  An           *)
(* asyncio.Lock is its queue of tasks, the first of which holds it.  All   *)
(* notes are one note and all sources one source, which makes every pair   *)
(* of handlers meet.                                                       *)
(***************************************************************************)
EXTENDS MaintenanceGate, Sequences, SequencesExt

CONSTANTS Crew,        \* for each task, the handlers it may be running
          Lifecycle    \* is ContextConfig.lifecycle_enabled set?

Locks == {"reconcile", "filing", "context", "lifecycle", "source", "artifact",
          "entities", "note"}

-----------------------------------------------------------------------------
(* The handlers.  Names ending otherwise than the code's are its mutants. *)

Hold(lock, body) == <<lock>> \o body \o <<"leave">>
Briefly(lock) == Hold(lock, <<>>)

(* get_note, the conditional writes, work under @writer alone, and an
   operation on the dossier ledger. *)
Read       == Briefly("note")
Write      == Hold("gate", Briefly("note"))
GatedWork  == Briefly("gate")
Dossiers   == Hold("gate", Briefly("entities"))
Artifact   == Briefly("artifact")

(* The ingest, then the two index updates that follow it. *)
IngestUngated == Briefly("source") \o GatedWork \o GatedWork
Ingest     == Hold("gate", Briefly("source") \o GatedWork \o GatedWork)

(* reconcile_once calls itself, a writer again, once it has its lock, adopts
   and refreshes the dossiers from in there; a restore runs it twice. *)
ScanPass   == Hold("gate", GatedWork \o Dossiers)
Reconcile  == Hold("gate", Hold("reconcile", ScanPass))
RestoreLocksFirst == Hold("reconcile", Hold("gate", ScanPass \o Briefly("note") \o ScanPass))
Restore    == Hold("gate", Hold("reconcile", ScanPass \o Briefly("note") \o ScanPass))
History    == Briefly("reconcile")

(* Filing holds the gate and its own lock for as long as there are notes to
   file.  With the note lifecycle on it waits for the context lock in there. *)
Confirmed  == IF Lifecycle THEN Briefly("context") ELSE <<>>
FileNote   == Read \o Confirmed \o Hold("source", Artifact) \o Read \o Write \o Write \o Dossiers
FileReviewed == Hold("gate", Hold("filing", FileNote))

StoreArtifact == Artifact \o Read \o Write
AfterPass  == FileReviewed \o StoreArtifact \o GatedWork
Rebuild    == Hold("gate", GatedWork \o Artifact \o Reconcile \o FileReviewed \o GatedWork)

(* What the context service does under its lock: a marked drop is stored, an
   approved suggestion is written to its note; completing a review, refused
   with the lifecycle off, approves and finalizes from inside its own lock. *)
Drop       == Hold("context", Artifact)
Approve    == Hold("context", Read \o Write)
CompleteReview == IF Lifecycle
                  THEN Hold("lifecycle", Read \o Approve \o Read \o Write \o Briefly("context"))
                  ELSE <<>>

(* A purge refreshes the dossiers from inside its exclusive hold. *)
Purge      == Hold("alone", Dossiers)

Course(h) == CASE h = "read" -> Read
               [] h = "write" -> Write
               [] h = "ingest" -> Ingest
               [] h = "dossier" -> Dossiers
               [] h = "restore" -> Restore
               [] h = "history" -> History
               [] h = "pass" -> Reconcile
               [] h = "after" -> AfterPass
               [] h = "rebuild" -> Rebuild
               [] h = "artifact" -> StoreArtifact
               [] h = "drop" -> Drop
               [] h = "approve" -> Approve
               [] h = "complete" -> CompleteReview
               [] h = "purge" -> Purge

-----------------------------------------------------------------------------
VARIABLES queue,   \* each lock's tasks, the holder first
          todo,    \* what is left of each task's with-blocks
          inside   \* the blocks each task is in, innermost last

lockVars == <<queue, todo, inside>>
storeVars == <<vars, lockVars>>

LInit == /\ Init
         /\ queue = [l \in Locks |-> <<>>]
         /\ \E h \in [Tasks -> UNION {Crew[t] : t \in Tasks}] :
               /\ \A t \in Tasks : h[t] \in Crew[t]
               /\ todo = [t \in Tasks |-> Course(h[t])]
         /\ inside = [t \in Tasks |-> <<>>]

Wants(t, lock) == todo[t] # <<>> /\ Head(todo[t]) = lock
Queued(t, lock) == \E i \in DOMAIN queue[lock] : queue[lock][i] = t

(* The block is entered; nothing of the task runs between asking and entering
   an uncontended lock. *)
Entered(t, lock) == /\ todo' = [todo EXCEPT ![t] = Tail(@)]
                    /\ inside' = [inside EXCEPT ![t] = Append(@, lock)]

Ask(t, lock) == /\ Wants(t, lock)
                /\ ~Queued(t, lock)
                /\ queue' = [queue EXCEPT ![lock] = Append(@, t)]
                /\ IF queue[lock] = <<>> THEN Entered(t, lock) ELSE UNCHANGED <<todo, inside>>
                /\ UNCHANGED vars

GrantedOutOfTurn(t, lock) == /\ Wants(t, lock)
                             /\ Queued(t, lock)
                             /\ Entered(t, lock)
                             /\ UNCHANGED <<queue, vars>>

Granted(t, lock) == /\ Wants(t, lock)
                    /\ queue[lock] # <<>> /\ Head(queue[lock]) = t
                    /\ Entered(t, lock)
                    /\ UNCHANGED <<queue, vars>>

AtGate(t, lock) == /\ IF pc'[t] = "running" THEN Entered(t, lock) ELSE UNCHANGED <<todo, inside>>
                   /\ UNCHANGED queue

AskGate(t) == \/ Wants(t, "gate") /\ (EnterShared(t) \/ ResumeShared(t)) /\ AtGate(t, "gate")
              \/ Wants(t, "alone") /\ (EnterExclusive(t) \/ ResumeExclusive(t)) /\ AtGate(t, "alone")

Release(t, lock) == CASE lock = "gate"  -> LeaveShared(t) /\ UNCHANGED queue
                      [] lock = "alone" -> LeaveExclusive(t) /\ UNCHANGED queue
                      [] OTHER          -> /\ queue' = [queue EXCEPT ![lock] = Tail(@)]
                                           /\ UNCHANGED vars

LeaveBlock(t) == /\ Wants(t, "leave")
             /\ Release(t, Last(inside[t]))
             /\ todo' = [todo EXCEPT ![t] = Tail(@)]
             /\ inside' = [inside EXCEPT ![t] = Front(@)]

(* An exception leaves every block the task is in.  A handler raises while it
   runs, not while it waits. *)
Running(t) == /\ todo[t] # <<>>
              /\ pc[t] = "running"
              /\ \A l \in Locks : Wants(t, l) => ~Queued(t, l)

FailHolding(t) == /\ Running(t)
                  /\ todo' = [todo EXCEPT ![t] = <<>>]
                  /\ UNCHANGED <<queue, inside, vars>>

Fail(t) == /\ Running(t)
           /\ todo' = [todo EXCEPT ![t] = [i \in 1 .. Len(inside[t]) |-> "leave"]]
           /\ UNCHANGED <<queue, inside, vars>>

Step(t) == \/ \E lock \in Locks : Ask(t, lock) \/ Granted(t, lock)
           \/ AskGate(t)
           \/ LeaveBlock(t)

LNext == \E t \in Tasks : Step(t) \/ Fail(t)

LSpec == LInit /\ [][LNext]_storeVars

(* The event loop runs every ready task. *)
LFairSpec == LSpec /\ \A t \in Tasks : WF_storeVars(Step(t))

-----------------------------------------------------------------------------
(* Every variable has its type, and a lock's holder is inside its block. *)
LTypeOK == /\ TypeOK
           /\ queue \in [Locks -> UNION {[1 .. n -> Tasks] : n \in 0 .. Cardinality(Tasks)}]
           /\ \A t \in Tasks : /\ Len(SelectSeq(inside[t], LAMBDA l : l = "gate")) = holders[t]
                               /\ \A l \in Locks : ToSet(inside[t]) \cap {l} # {} => Head(queue[l]) = t

(* Whom a task cannot get past: those ahead of it in a lock's queue, or those
   that keep its gate predicate false. *)
WaitsFor(t) ==
  {u \in Tasks \ {t} :
     \/ \E l \in Locks : /\ Wants(t, l) /\ Queued(t, l)
                         /\ \E i, j \in DOMAIN queue[l] : i < j /\ queue[l][i] = u /\ queue[l][j] = t
     \/ pc[t] = "sharedAsleep" /\ (owner = u \/ u \in ExclWaiters)
     \/ pc[t] = "exclAsleep" /\ (owner = u \/ holders[u] > 0)}

(* No circular wait: no set of handlers each of which waits for another of
   the set.  Handlers that nest the gate and a lock in opposite orders close a
   circle only when a purge queues up between them (maintenance.py:25). *)
NoCircularWait ==
  \A S \in SUBSET Tasks \ {{}} : \E t \in S : WaitsFor(t) \cap S = {}

(* While a purge is inside, nobody is anywhere in the source archive, the
   filing pass or the dossier ledger it rewrites (purge.py:906). *)
StillDuringPurge ==
  owner # None => \A l \in {"source", "filing", "entities"} :
                     \A t \in Tasks : l \in ToSet(inside[t]) => t = owner

(* Every handler ends, with its answer or its error, and holds nothing. *)
EveryHandlerEnds == []<>(\A t \in Tasks : todo[t] = <<>> /\ inside[t] = <<>>)
=============================================================================
