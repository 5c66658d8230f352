----------------------- MODULE MaintenanceGateProofs -----------------------
(***************************************************************************)
(* The gate's invariants, for every finite set of tasks and every nesting  *)
(* bound, and that it implements ReadersWriter.                            *)
(***************************************************************************)
EXTENDS MaintenanceGate, FiniteSetTheorems, TLAPS

USE TasksAssumption, DepthAssumption

(* Waking every sleeper keeps each task's kind of wait, and leaves nobody
   asleep. *)
LEMMA RouseAllFacts ==
  ASSUME NEW f \in [Tasks -> {"running"} \cup Asleep \cup Roused]
  PROVE  /\ RouseAll(f) \in [Tasks -> {"running"} \cup Asleep \cup Roused]
         /\ \A u \in Tasks : /\ RouseAll(f)[u] \notin Asleep
                             /\ f[u] = "running" <=> RouseAll(f)[u] = "running"
                             /\ f[u] \in {"exclAsleep", "exclRoused"}
                                  <=> RouseAll(f)[u] \in {"exclAsleep", "exclRoused"}
  BY DEF RouseAll, Asleep, Roused

(* The waiting set changes by at most the task that steps, and the count
   with it. *)
LEMMA ExclWaitersFinite == IsFiniteSet(ExclWaiters)
  BY FS_Subset DEF ExclWaiters

LEMMA WaitersGain ==
  ASSUME TypeOK, WaitingCounts, NEW t \in Tasks, t \notin ExclWaiters,
         ExclWaiters' = ExclWaiters \cup {t}, waiting' = waiting + 1
  PROVE  WaitingCounts' /\ waiting' \in Nat
<1>1. Cardinality(ExclWaiters \cup {t}) = Cardinality(ExclWaiters) + 1
  BY ExclWaitersFinite, FS_AddElement
<1> QED BY <1>1 DEF WaitingCounts, TypeOK

LEMMA WaitersLose ==
  ASSUME TypeOK, WaitingCounts, NEW t \in Tasks, t \in ExclWaiters,
         ExclWaiters' = ExclWaiters \ {t}, waiting' = waiting - 1
  PROVE  WaitingCounts' /\ waiting' \in Nat
<1>1. Cardinality(ExclWaiters \ {t}) = Cardinality(ExclWaiters) - 1
  BY ExclWaitersFinite, FS_RemoveElement
<1>2. Cardinality(ExclWaiters \ {t}) \in Nat
  BY ExclWaitersFinite, FS_RemoveElement, FS_CardinalityType
<1> QED BY <1>1, <1>2 DEF WaitingCounts

LEMMA WaitersKeep ==
  ASSUME TypeOK, WaitingCounts, ExclWaiters' = ExclWaiters, waiting' = waiting
  PROVE  WaitingCounts' /\ waiting' \in Nat
  BY DEF WaitingCounts, TypeOK

(* The type invariant and the exact count go together: only the count shows
   that the decrement stays a natural number. *)
CountInv == TypeOK /\ WaitingCounts

LEMMA CountInit == Init => CountInv
<1> SUFFICES ASSUME Init PROVE CountInv OBVIOUS
<1>1. TypeOK BY DEF Init, TypeOK
<1>2. ExclWaiters = {} BY DEF Init, ExclWaiters
<1> QED BY <1>1, <1>2, FS_EmptySet DEF Init, WaitingCounts, CountInv

LEMMA CountStep == CountInv /\ [Next]_vars => CountInv'
<1> SUFFICES ASSUME TypeOK, WaitingCounts, [Next]_vars PROVE CountInv'
  BY DEF CountInv
<1> USE DEF Asleep, Roused
<1>0. CASE UNCHANGED vars
  <2>1. ExclWaiters' = ExclWaiters BY <1>0 DEF vars, ExclWaiters
  <2> QED BY <2>1, <1>0, WaitersKeep DEF vars, TypeOK, CountInv
<1>1. ASSUME NEW t \in Tasks, EnterShared(t) PROVE CountInv'
  <2>1. ExclWaiters' = ExclWaiters BY <1>1 DEF EnterShared, TakeShared, ExclWaiters, TypeOK
  <2>2. waiting' = waiting BY <1>1 DEF EnterShared, TakeShared
  <2> QED BY <2>1, <2>2, <1>1, WaitersKeep DEF EnterShared, TakeShared, TypeOK, CountInv
<1>2. ASSUME NEW t \in Tasks, ResumeShared(t) PROVE CountInv'
  <2>1. ExclWaiters' = ExclWaiters BY <1>2 DEF ResumeShared, TakeShared, ExclWaiters, TypeOK
  <2>2. waiting' = waiting BY <1>2 DEF ResumeShared, TakeShared
  <2> QED BY <2>1, <2>2, <1>2, WaitersKeep DEF ResumeShared, TakeShared, TypeOK, CountInv
<1>3. ASSUME NEW t \in Tasks, LeaveShared(t) PROVE CountInv'
  <2>1. ExclWaiters' = ExclWaiters
    BY <1>3, RouseAllFacts DEF LeaveShared, ExclWaiters, TypeOK
  <2>2. pc' \in [Tasks -> {"running"} \cup Asleep \cup Roused]
    BY <1>3, RouseAllFacts DEF LeaveShared, TypeOK
  <2> QED BY <2>1, <2>2, <1>3, WaitersKeep DEF LeaveShared, TypeOK, CountInv
<1>4. ASSUME NEW t \in Tasks, EnterExclusive(t) PROVE CountInv'
  <2>1. CASE MayOwn
    <3>1. ExclWaiters' = ExclWaiters
      BY <1>4, <2>1, RouseAllFacts DEF EnterExclusive, ExclWaiters, TypeOK
    <3>2. pc' \in [Tasks -> {"running"} \cup Asleep \cup Roused]
      BY <1>4, <2>1, RouseAllFacts DEF EnterExclusive, TypeOK
    <3> QED BY <3>1, <3>2, <2>1, <1>4, WaitersKeep DEF EnterExclusive, TypeOK, CountInv
  <2>2. CASE ~MayOwn
    <3>1. ExclWaiters' = ExclWaiters \cup {t} /\ t \notin ExclWaiters
      BY <1>4, <2>2 DEF EnterExclusive, ExclWaiters, TypeOK
    <3> QED BY <3>1, <2>2, <1>4, WaitersGain DEF EnterExclusive, TypeOK, CountInv
  <2> QED BY <2>1, <2>2
<1>5. ASSUME NEW t \in Tasks, ResumeExclusive(t) PROVE CountInv'
  <2>1. CASE MayOwn
    <3> DEFINE g == [pc EXCEPT ![t] = "running"]
    <3>1. g \in [Tasks -> {"running"} \cup Asleep \cup Roused] BY DEF TypeOK
    <3>2. pc' = RouseAll(g) BY <1>5, <2>1 DEF ResumeExclusive
    <3>3. /\ pc' \in [Tasks -> {"running"} \cup Asleep \cup Roused]
          /\ \A u \in Tasks : g[u] \in {"exclAsleep", "exclRoused"}
                                <=> pc'[u] \in {"exclAsleep", "exclRoused"}
      BY <3>1, <3>2, RouseAllFacts
    <3>4. ExclWaiters' = ExclWaiters \ {t} /\ t \in ExclWaiters
      BY <1>5, <3>3 DEF ResumeExclusive, ExclWaiters, TypeOK
    <3> QED BY <3>3, <3>4, <2>1, <1>5, WaitersLose DEF ResumeExclusive, TypeOK, CountInv
  <2>2. CASE ~MayOwn
    <3>1. ExclWaiters' = ExclWaiters
      BY <1>5, <2>2 DEF ResumeExclusive, ExclWaiters, TypeOK
    <3> QED BY <3>1, <2>2, <1>5, WaitersKeep DEF ResumeExclusive, TypeOK, CountInv
  <2> QED BY <2>1, <2>2
<1>6. ASSUME NEW t \in Tasks, LeaveExclusive(t) PROVE CountInv'
  <2>1. ExclWaiters' = ExclWaiters
    BY <1>6, RouseAllFacts DEF LeaveExclusive, ExclWaiters, TypeOK
  <2>2. pc' \in [Tasks -> {"running"} \cup Asleep \cup Roused]
    BY <1>6, RouseAllFacts DEF LeaveExclusive, TypeOK
  <2> QED BY <2>1, <2>2, <1>6, WaitersKeep DEF LeaveExclusive, TypeOK, CountInv
<1>7. ASSUME NEW t \in Tasks, CancelShared(t) PROVE CountInv'
  <2>1. ExclWaiters' = ExclWaiters BY <1>7 DEF CancelShared, ExclWaiters, TypeOK
  <2> QED BY <2>1, <1>7, WaitersKeep DEF CancelShared, TypeOK, CountInv
<1>8. ASSUME NEW t \in Tasks, CancelExclusive(t) PROVE CountInv'
  <2> DEFINE g == [pc EXCEPT ![t] = "running"]
  <2>1. g \in [Tasks -> {"running"} \cup Asleep \cup Roused] BY DEF TypeOK
  <2>2. pc' = RouseAll(g) BY <1>8 DEF CancelExclusive
  <2>3. /\ pc' \in [Tasks -> {"running"} \cup Asleep \cup Roused]
        /\ \A u \in Tasks : g[u] \in {"exclAsleep", "exclRoused"}
                              <=> pc'[u] \in {"exclAsleep", "exclRoused"}
    BY <2>1, <2>2, RouseAllFacts
  <2>4. ExclWaiters' = ExclWaiters \ {t} /\ t \in ExclWaiters
    BY <1>8, <2>3 DEF CancelExclusive, ExclWaiters, TypeOK
  <2> QED BY <2>3, <2>4, <1>8, WaitersLose DEF CancelExclusive, TypeOK, CountInv
<1> QED BY <1>0, <1>1, <1>2, <1>3, <1>4, <1>5, <1>6, <1>7, <1>8
        DEF Next, Enter, Resume, Leave, Cancel

(* In every behaviour the gate's fields have their types and waiting is the
   number of purges waiting: cancelling a waiting purge never leaves the
   writers shut out by a count that no purge owns (maintenance.py:41-47). *)
THEOREM GateCounts == Spec => [](TypeOK /\ WaitingCounts)
<1>1. Spec => []CountInv BY CountInit, CountStep, PTL DEF Spec
<1> QED BY <1>1, PTL DEF CountInv
-----------------------------------------------------------------------------
(* Who is inside, who sleeps, and what the sleepers wait for. *)
InsideInv == /\ CountInv
             /\ PurgeAlone
             /\ NoLostWakeup
             /\ InsideNeverWaits

LEMMA InsideInit == Init => InsideInv
<1> SUFFICES ASSUME Init PROVE InsideInv OBVIOUS
<1>1. CountInv BY CountInit
<1>2. PurgeAlone BY DEF Init, PurgeAlone
<1>3. NoLostWakeup BY DEF Init, NoLostWakeup
<1>4. InsideNeverWaits BY DEF Init, InsideNeverWaits
<1> QED BY <1>1, <1>2, <1>3, <1>4 DEF InsideInv

(* A task gets in shared: no purge is inside, or it is inside itself. *)
LEMMA TakeSharedStep ==
  ASSUME InsideInv, NEW t \in Tasks, TakeShared(t), MayShare(t)
  PROVE  PurgeAlone' /\ NoLostWakeup' /\ InsideNeverWaits'
<1> USE DEF InsideInv, CountInv
<1>1. PurgeAlone'
  BY DEF TakeShared, MayShare, PurgeAlone, TypeOK
<1>2. NoLostWakeup'
  BY DEF TakeShared, MayShare, MayOwn, NoLostWakeup, TypeOK, PurgeAlone
<1>3. InsideNeverWaits'
  BY DEF TakeShared, InsideNeverWaits, TypeOK
<1> QED BY <1>1, <1>2, <1>3

LEMMA InsideStep == InsideInv /\ [Next]_vars => InsideInv'
<1> SUFFICES ASSUME InsideInv, [Next]_vars PROVE InsideInv' OBVIOUS
<1>c. CountInv' BY CountStep DEF InsideInv
<1> SUFFICES PurgeAlone' /\ NoLostWakeup' /\ InsideNeverWaits'
  BY <1>c DEF InsideInv
<1> USE DEF InsideInv, CountInv
<1>0. CASE UNCHANGED vars
  BY <1>0 DEF vars, PurgeAlone, NoLostWakeup, InsideNeverWaits, MayShare, MayOwn
<1>1. ASSUME NEW t \in Tasks, EnterShared(t)
      PROVE PurgeAlone' /\ NoLostWakeup' /\ InsideNeverWaits'
  <2>1. CASE MayShare(t) BY <1>1, <2>1, TakeSharedStep DEF EnterShared
  <2>2. CASE ~MayShare(t)
    BY <1>1, <2>2 DEF EnterShared, MayShare, MayOwn, PurgeAlone, NoLostWakeup,
                      InsideNeverWaits, TypeOK
  <2> QED BY <2>1, <2>2
<1>2. ASSUME NEW t \in Tasks, ResumeShared(t)
      PROVE PurgeAlone' /\ NoLostWakeup' /\ InsideNeverWaits'
  <2>1. CASE MayShare(t) BY <1>2, <2>1, TakeSharedStep DEF ResumeShared
  <2>2. CASE ~MayShare(t)
    BY <1>2, <2>2 DEF ResumeShared, MayShare, MayOwn, PurgeAlone, NoLostWakeup,
                      InsideNeverWaits, TypeOK
  <2> QED BY <2>1, <2>2
<1>3. ASSUME NEW t \in Tasks, LeaveShared(t)
      PROVE PurgeAlone' /\ NoLostWakeup' /\ InsideNeverWaits'
  <2>1. /\ \A u \in Tasks : pc'[u] \notin Asleep
        /\ \A u \in Tasks : pc[u] = "running" => pc'[u] = "running"
    BY <1>3, RouseAllFacts DEF LeaveShared, TypeOK
  <2>2. PurgeAlone' BY <1>3 DEF LeaveShared, PurgeAlone, TypeOK
  <2>3. NoLostWakeup' BY <2>1 DEF NoLostWakeup, Asleep
  <2>4. InsideNeverWaits' BY <1>3, <2>1 DEF LeaveShared, InsideNeverWaits, TypeOK
  <2> QED BY <2>2, <2>3, <2>4
<1>4. ASSUME NEW t \in Tasks, EnterExclusive(t)
      PROVE PurgeAlone' /\ NoLostWakeup' /\ InsideNeverWaits'
  <2>1. CASE MayOwn
    <3>1. /\ \A u \in Tasks : pc'[u] \notin Asleep
          /\ \A u \in Tasks : pc[u] = "running" => pc'[u] = "running"
      BY <1>4, <2>1, RouseAllFacts DEF EnterExclusive, TypeOK
    <3>2. PurgeAlone' BY <1>4, <2>1 DEF EnterExclusive, MayOwn, PurgeAlone
    <3>3. NoLostWakeup' BY <3>1 DEF NoLostWakeup, Asleep
    <3>4. InsideNeverWaits'
      BY <1>4, <2>1, <3>1 DEF EnterExclusive, MayOwn, InsideNeverWaits, TypeOK
    <3> QED BY <3>2, <3>3, <3>4
  <2>2. CASE ~MayOwn
    BY <1>4, <2>2 DEF EnterExclusive, MayShare, MayOwn, PurgeAlone, NoLostWakeup,
                      InsideNeverWaits, TypeOK
  <2> QED BY <2>1, <2>2
<1>5. ASSUME NEW t \in Tasks, ResumeExclusive(t)
      PROVE PurgeAlone' /\ NoLostWakeup' /\ InsideNeverWaits'
  <2>1. CASE MayOwn
    <3> DEFINE g == [pc EXCEPT ![t] = "running"]
    <3>1. g \in [Tasks -> {"running"} \cup Asleep \cup Roused]
      BY DEF TypeOK
    <3>2. pc' = RouseAll(g) BY <1>5, <2>1 DEF ResumeExclusive
    <3>3. /\ \A u \in Tasks : pc'[u] \notin Asleep
          /\ \A u \in Tasks : g[u] = "running" => pc'[u] = "running"
      BY <3>1, <3>2, RouseAllFacts
    <3>4. PurgeAlone' BY <1>5, <2>1 DEF ResumeExclusive, MayOwn, PurgeAlone
    <3>5. NoLostWakeup' BY <3>3 DEF NoLostWakeup, Asleep
    <3>6. InsideNeverWaits'
      BY <1>5, <2>1, <3>3 DEF ResumeExclusive, MayOwn, InsideNeverWaits, TypeOK
    <3> QED BY <3>4, <3>5, <3>6
  <2>2. CASE ~MayOwn
    BY <1>5, <2>2 DEF ResumeExclusive, MayShare, MayOwn, PurgeAlone, NoLostWakeup,
                      InsideNeverWaits, TypeOK
  <2> QED BY <2>1, <2>2
<1>6. ASSUME NEW t \in Tasks, LeaveExclusive(t)
      PROVE PurgeAlone' /\ NoLostWakeup' /\ InsideNeverWaits'
  <2>1. /\ \A u \in Tasks : pc'[u] \notin Asleep
        /\ \A u \in Tasks : pc[u] = "running" => pc'[u] = "running"
    BY <1>6, RouseAllFacts DEF LeaveExclusive, TypeOK
  <2>2. PurgeAlone' BY <1>6 DEF LeaveExclusive, PurgeAlone
  <2>3. NoLostWakeup' BY <2>1 DEF NoLostWakeup, Asleep
  <2>4. InsideNeverWaits'
    BY <1>6, <2>1, TasksAssumption DEF LeaveExclusive, InsideNeverWaits, TypeOK
  <2> QED BY <2>2, <2>3, <2>4
<1>7. ASSUME NEW t \in Tasks, CancelShared(t)
      PROVE PurgeAlone' /\ NoLostWakeup' /\ InsideNeverWaits'
  BY <1>7 DEF CancelShared, MayShare, MayOwn, PurgeAlone, NoLostWakeup,
              InsideNeverWaits, TypeOK
<1>8. ASSUME NEW t \in Tasks, CancelExclusive(t)
      PROVE PurgeAlone' /\ NoLostWakeup' /\ InsideNeverWaits'
  <2> DEFINE g == [pc EXCEPT ![t] = "running"]
  <2>1. g \in [Tasks -> {"running"} \cup Asleep \cup Roused]
    BY DEF TypeOK
  <2>2. pc' = RouseAll(g) BY <1>8 DEF CancelExclusive
  <2>3. /\ \A u \in Tasks : pc'[u] \notin Asleep
        /\ \A u \in Tasks : g[u] = "running" => pc'[u] = "running"
    BY <2>1, <2>2, RouseAllFacts
  <2>4. PurgeAlone' BY <1>8 DEF CancelExclusive, PurgeAlone
  <2>5. NoLostWakeup' BY <2>3 DEF NoLostWakeup, Asleep
  <2>6. InsideNeverWaits' BY <1>8, <2>3 DEF CancelExclusive, InsideNeverWaits, TypeOK
  <2> QED BY <2>4, <2>5, <2>6
<1> QED BY <1>0, <1>1, <1>2, <1>3, <1>4, <1>5, <1>6, <1>7, <1>8
        DEF Next, Enter, Resume, Leave, Cancel

LEMMA InsideAlways == Spec => []InsideInv
  BY InsideInit, InsideStep, PTL DEF Spec

(* A purge is inside alone, always: no note write overlaps it. *)
THEOREM PurgeIsAlone == Spec => []PurgeAlone
<1>1. InsideInv => PurgeAlone BY DEF InsideInv
<1> QED BY <1>1, InsideAlways, PTL

(* No task is left asleep with its predicate true. *)
THEOREM NobodyIsForgotten == Spec => []NoLostWakeup
<1>1. InsideInv => NoLostWakeup BY DEF InsideInv
<1> QED BY <1>1, InsideAlways, PTL

(* A task inside the gate is never put to sleep by it. *)
THEOREM ReentranceIsFree == Spec => []InsideNeverWaits
<1>1. InsideInv => InsideNeverWaits BY DEF InsideInv
<1> QED BY <1>1, InsideAlways, PTL

(* No writer overtakes a waiting purge. *)
THEOREM PurgeIsFirst == Spec => PurgeFirst
<1>1. ASSUME CountInv, [Next]_vars
      PROVE  [\A t \in Tasks :
                waiting > 0 /\ holders[t] = 0 /\ owner # t => holders'[t] = 0]_vars
  <2> SUFFICES ASSUME Next, NEW t \in Tasks, waiting > 0, holders[t] = 0, owner # t
               PROVE  holders'[t] = 0
    BY <1>1
  <2>1. ASSUME NEW u \in Tasks, TakeShared(u), MayShare(u) PROVE holders'[t] = 0
    BY <2>1, <1>1 DEF TakeShared, MayShare, CountInv, TypeOK
  <2>2. ASSUME NEW u \in Tasks, LeaveShared(u) PROVE holders'[t] = 0
    BY <2>2, <1>1 DEF LeaveShared, CountInv, TypeOK
  <2>3. ASSUME UNCHANGED holders PROVE holders'[t] = 0
    BY <2>3
  <2> QED BY <2>1, <2>2, <2>3
          DEF Next, Enter, Resume, Leave, Cancel, EnterShared, ResumeShared,
              EnterExclusive, ResumeExclusive, LeaveExclusive, CancelShared, CancelExclusive
<1>2. CountInv /\ [Next]_vars =>
        [\A t \in Tasks :
           waiting > 0 /\ holders[t] = 0 /\ owner # t => holders'[t] = 0]_vars
  BY <1>1
<1> QED BY <1>2, CountInit, CountStep, PTL DEF Spec, PurgeFirst

(* Every step of the gate is a step of the readers and writer it promises,
   or changes nothing they can see. *)
THEOREM GateImplementsReadersWriter == Spec => ImplementsReadersWriter
<1>1. Init => RW!RWInit BY DEF Init, RW!RWInit
<1>2. ASSUME InsideInv, [Next]_vars PROVE [RW!RWNext]_(RW!rwVars)
  <2> USE DEF RW!rwVars
  <2>1. ASSUME NEW t \in Tasks, TakeShared(t), MayShare(t) PROVE RW!RWEnter(t)
    BY <2>1, <1>2 DEF TakeShared, MayShare, InsideInv, PurgeAlone, CountInv, TypeOK, RW!RWEnter
  <2>2. ASSUME NEW t \in Tasks, LeaveShared(t) PROVE RW!RWLeave(t)
    BY <2>2 DEF LeaveShared, RW!RWLeave
  <2>3. ASSUME NEW t \in Tasks, EnterExclusive(t) \/ ResumeExclusive(t)
        PROVE  RW!RWSeize(t) \/ UNCHANGED RW!rwVars
    BY <2>3 DEF EnterExclusive, ResumeExclusive, MayOwn, RW!RWSeize
  <2>4. ASSUME NEW t \in Tasks, LeaveExclusive(t) PROVE RW!RWYield(t)
    BY <2>4 DEF LeaveExclusive, RW!RWYield
  <2>5. ASSUME NEW t \in Tasks, EnterShared(t) \/ ResumeShared(t)
        PROVE  (TakeShared(t) /\ MayShare(t)) \/ UNCHANGED RW!rwVars
    BY <2>5 DEF EnterShared, ResumeShared
  <2>6. ASSUME NEW t \in Tasks, Cancel(t) PROVE UNCHANGED RW!rwVars
    BY <2>6 DEF Cancel, CancelShared, CancelExclusive
  <2>7. CASE UNCHANGED vars BY <2>7 DEF vars
  <2>8. CASE Next
    <3>1. PICK t \in Tasks : Enter(t) \/ Resume(t) \/ Leave(t) \/ Cancel(t)
      BY <2>8 DEF Next
    <3> QED BY <3>1, <2>1, <2>2, <2>3, <2>4, <2>5, <2>6 DEF Enter, Resume, Leave, RW!RWNext
  <2> QED BY <1>2, <2>7, <2>8
<1>3. InsideInv /\ [Next]_vars => [RW!RWNext]_(RW!rwVars) BY <1>2
<1> QED BY <1>1, <1>3, InsideAlways, PTL DEF Spec, ImplementsReadersWriter, RW!RWSpec
=============================================================================
