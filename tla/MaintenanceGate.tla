-------------------------- MODULE MaintenanceGate --------------------------
(***************************************************************************)
(* The gate of coppermind_store/maintenance.py: an asyncio.Condition over  *)
(* three fields, holders, owner and waiting.  Every mutation of a note or  *)
(* a source holds the gate shared (the @writer decorator); a purge holds   *)
(* it exclusively.                                                         *)
(*                                                                         *)
(* One action is one uninterrupted stretch of a task.  The condition's own *)
(* lock is never held across a suspension (every body under it is plain    *)
(* code and wait_for gives it up before it sleeps), so acquiring it never  *)
(* waits and each body is atomic.  What is kept of the condition is its    *)
(* wait queue: a sleeping task runs again only after a notify_all has      *)
(* woken it, and then tests its predicate again.                           *)
(***************************************************************************)
EXTENDS Naturals, FiniteSets

CONSTANTS Tasks,     \* the asyncio tasks of the store process
          None,      \* owner when there is none
          MaxDepth   \* bound: how often a task nests shared()

ASSUME TasksAssumption == IsFiniteSet(Tasks) /\ None \notin Tasks
ASSUME DepthAssumption == MaxDepth \in Nat \ {0}

VARIABLES holders,   \* shared holds per task; 0 is "not a key of the dict"
          owner,     \* the task inside exclusive(), or None
          waiting,   \* how many tasks are between entering exclusive() and owning
          pc         \* where each task stands with respect to the condition

vars == <<holders, owner, waiting, pc>>

Asleep  == {"sharedAsleep", "exclAsleep"}
Roused  == {"sharedRoused", "exclRoused"}

Init == /\ holders = [t \in Tasks |-> 0]
        /\ owner = None
        /\ waiting = 0
        /\ pc = [t \in Tasks |-> "running"]

-----------------------------------------------------------------------------
(* The two wait_for predicates and notify_all. *)

(* Mutants of the two predicates. *)
MayShareWithoutReentry(t) == t = owner \/ (owner = None /\ waiting = 0)
MayShareAheadOfPurge(t) == owner \in {None, t} \/ holders[t] > 0
MayOwnBesideHolders == owner = None

MayShare(t) == \/ t = owner
               \/ holders[t] > 0
               \/ owner = None /\ waiting = 0

MayOwn == owner = None /\ \A u \in Tasks : holders[u] = 0

RouseAll(f) == [t \in Tasks |-> CASE f[t] = "sharedAsleep" -> "sharedRoused"
                                  [] f[t] = "exclAsleep" -> "exclRoused"
                                  [] OTHER -> f[t]]

(* The first wait of a task inside a hold is over at once, so only a task at
   "running" begins or ends a hold. *)
TakeShared(t) == /\ holders' = [holders EXCEPT ![t] = @ + 1]
                 /\ pc' = [pc EXCEPT ![t] = "running"]
                 /\ UNCHANGED <<owner, waiting>>

EnterShared(t) == /\ pc[t] = "running"
                  /\ holders[t] < MaxDepth
                  /\ IF MayShare(t)
                     THEN TakeShared(t)
                     ELSE /\ pc' = [pc EXCEPT ![t] = "sharedAsleep"]
                          /\ UNCHANGED <<holders, owner, waiting>>

ResumeShared(t) == /\ pc[t] = "sharedRoused"
                   /\ IF MayShare(t)
                      THEN TakeShared(t)
                      ELSE /\ pc' = [pc EXCEPT ![t] = "sharedAsleep"]
                           /\ UNCHANGED <<holders, owner, waiting>>

LeaveSharedSilently(t) == /\ pc[t] = "running"
                          /\ holders[t] > 0
                          /\ holders' = [holders EXCEPT ![t] = @ - 1]
                          /\ UNCHANGED <<owner, waiting, pc>>

LeaveShared(t) == /\ pc[t] = "running"
                  /\ holders[t] > 0
                  /\ holders' = [holders EXCEPT ![t] = @ - 1]
                  /\ pc' = RouseAll(pc)
                  /\ UNCHANGED <<owner, waiting>>

(* No caller asks for exclusive() while it holds the gate in either way:
   the purge operations and the purge's scan take it first thing. *)
EnterExclusive(t) == /\ pc[t] = "running"
                     /\ holders[t] = 0
                     /\ owner # t
                     /\ IF MayOwn
                        THEN /\ owner' = t
                             /\ pc' = RouseAll(pc)
                             /\ UNCHANGED <<holders, waiting>>
                        ELSE /\ waiting' = waiting + 1
                             /\ pc' = [pc EXCEPT ![t] = "exclAsleep"]
                             /\ UNCHANGED <<holders, owner>>

ResumeExclusive(t) == /\ pc[t] = "exclRoused"
                      /\ IF MayOwn
                         THEN /\ owner' = t
                              /\ waiting' = waiting - 1
                              /\ pc' = RouseAll([pc EXCEPT ![t] = "running"])
                              /\ UNCHANGED holders
                         ELSE /\ pc' = [pc EXCEPT ![t] = "exclAsleep"]
                              /\ UNCHANGED <<holders, owner, waiting>>

LeaveExclusiveSilently(t) == /\ pc[t] = "running"
                             /\ owner = t
                             /\ holders[t] = 0
                             /\ owner' = None
                             /\ UNCHANGED <<holders, waiting, pc>>

(* Nested shared holds end before the exclusive one does: they are with-blocks. *)
LeaveExclusive(t) == /\ pc[t] = "running"
                     /\ owner = t
                     /\ holders[t] = 0
                     /\ owner' = None
                     /\ pc' = RouseAll(pc)
                     /\ UNCHANGED <<holders, waiting>>

(* Mutants of cancellation: the shared one decrements, the exclusive one
   forgets to decrement, or to notify. *)
CancelSharedMiscounted(t) == /\ pc[t] \in {"sharedAsleep", "sharedRoused"}
                             /\ pc' = [pc EXCEPT ![t] = "running"]
                             /\ waiting' = waiting - 1
                             /\ UNCHANGED <<holders, owner>>

CancelExclusiveUncounted(t) == /\ pc[t] \in {"exclAsleep", "exclRoused"}
                               /\ pc' = RouseAll([pc EXCEPT ![t] = "running"])
                               /\ UNCHANGED <<holders, owner, waiting>>

CancelExclusiveSilently(t) == /\ pc[t] \in {"exclAsleep", "exclRoused"}
                              /\ waiting' = waiting - 1
                              /\ pc' = [pc EXCEPT ![t] = "running"]
                              /\ UNCHANGED <<holders, owner>>

(* The task is cancelled while it waits (the request it serves went away). *)
CancelShared(t) == /\ pc[t] \in {"sharedAsleep", "sharedRoused"}
                   /\ pc' = [pc EXCEPT ![t] = "running"]
                   /\ UNCHANGED <<holders, owner, waiting>>

CancelExclusive(t) == /\ pc[t] \in {"exclAsleep", "exclRoused"}
                      /\ waiting' = waiting - 1
                      /\ pc' = RouseAll([pc EXCEPT ![t] = "running"])
                      /\ UNCHANGED <<holders, owner>>

Enter(t)  == EnterShared(t) \/ EnterExclusive(t)
Resume(t) == ResumeShared(t) \/ ResumeExclusive(t)
Leave(t)  == LeaveShared(t) \/ LeaveExclusive(t)
Cancel(t) == CancelShared(t) \/ CancelExclusive(t)

Next == \E t \in Tasks : Enter(t) \/ Resume(t) \/ Leave(t) \/ Cancel(t)

Spec == Init /\ [][Next]_vars

-----------------------------------------------------------------------------
(* Every variable has its type; a sleeping or roused task is counted. *)
TypeOK == /\ holders \in [Tasks -> Nat]
          /\ owner \in Tasks \cup {None}
          /\ waiting \in Nat
          /\ pc \in [Tasks -> {"running"} \cup Asleep \cup Roused]

ExclWaiters == {t \in Tasks : pc[t] \in {"exclAsleep", "exclRoused"}}

(* A purge is inside alone: while exclusive() is owned no other task holds
   the gate shared (maintenance.py:43, the wait for no holders and no owner). *)
PurgeAlone == owner # None => \A u \in Tasks \ {owner} : holders[u] = 0

(* The count that makes new writers stand aside is exactly the number of
   purges still waiting, cancellations included (maintenance.py:45-47). *)
WaitingCounts == waiting = Cardinality(ExclWaiters)

(* No lost wake-up: a task asleep in the condition is one whose predicate is
   false.  Every step that can turn a predicate true notifies
   (maintenance.py:36, 47, 53); a missing notify leaves a sleeper behind. *)
NoLostWakeup == \A t \in Tasks : /\ pc[t] = "sharedAsleep" => ~MayShare(t)
                                 /\ pc[t] = "exclAsleep" => ~MayOwn

(* Re-entrance: a task already inside never waits for the gate, whatever
   purge is queued behind it (maintenance.py:23-24), or a pass adopting a
   note would wait for a purge that waits for the pass. *)
InsideNeverWaits == \A t \in Tasks : holders[t] > 0 \/ owner = t => pc[t] = "running"

(* Once a purge is waiting, no task that was outside gets in before it: the
   gate prefers the purge (maintenance.py:25). *)
PurgeFirst == [][\A t \in Tasks :
                    waiting > 0 /\ holders[t] = 0 /\ owner # t => holders'[t] = 0]_vars

(* The gate implements the readers and writer of ReadersWriter. *)
RW == INSTANCE ReadersWriter WITH depth <- holders, alone <- owner
ImplementsReadersWriter == RW!RWSpec
=============================================================================
