--------------------------- MODULE ReadersWriter ---------------------------
(***************************************************************************)
(* What the store's maintenance gate promises its users, with nothing of   *)
(* how it keeps the promise: any number of ordinary writers may be inside  *)
(* together, possibly several times each (a reconciliation pass adopts     *)
(* notes from inside its own hold), and a retention purge is inside alone. *)
(* The detailed specification that implements this one is MaintenanceGate. *)
(***************************************************************************)
EXTENDS Naturals

CONSTANTS Tasks,     \* the asyncio tasks of the store process
          None       \* stands for "no task"

VARIABLES depth,     \* how many nested shared holds each task has
          alone      \* the task inside exclusively, or None

rwVars == <<depth, alone>>

RWInit == /\ depth = [t \in Tasks |-> 0]
          /\ alone = None

(* A task already inside, either way, may enter again; any other needs the
   gate to have no exclusive holder. *)
RWEnter(t) == /\ alone \in {None, t}
              /\ depth' = [depth EXCEPT ![t] = @ + 1]
              /\ UNCHANGED alone

RWLeave(t) == /\ depth[t] > 0
              /\ depth' = [depth EXCEPT ![t] = @ - 1]
              /\ UNCHANGED alone

RWSeize(t) == /\ alone = None
              /\ \A u \in Tasks : depth[u] = 0
              /\ alone' = t
              /\ UNCHANGED depth

RWYield(t) == /\ alone = t
              /\ alone' = None
              /\ UNCHANGED depth

RWNext == \E t \in Tasks : RWEnter(t) \/ RWLeave(t) \/ RWSeize(t) \/ RWYield(t)

RWSpec == RWInit /\ [][RWNext]_rwVars
=============================================================================
