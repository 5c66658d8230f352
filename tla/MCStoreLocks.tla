---------------------------- MODULE MCStoreLocks ----------------------------
(* Two instances in one: any handler, any request beside it, and a retention
   purge; and the gate by itself, with tasks that enter, nest, leave and are
   cancelled as they please, more freely than any handler does. *)
EXTENDS StoreLocks, TLC

CONSTANTS handler, request, purger

Requests == {"read", "write", "ingest", "dossier", "restore", "history", "artifact", "drop",
             "approve", "complete"}
Background == {"pass", "after", "rebuild"}

MCTasks == {handler, request, purger}
MCCrew == handler :> Background \cup Requests @@ request :> Requests @@ purger :> {"purge"}

VARIABLE part
MCVars == <<storeVars, part>>

GateInit == /\ Init
            /\ queue = [l \in Locks |-> <<>>]
            /\ todo = [t \in Tasks |-> <<>>]
            /\ inside = [t \in Tasks |-> <<>>]

Handlers(A) == part = "handlers" /\ A /\ UNCHANGED part
Gate(A)     == part = "gate" /\ A /\ UNCHANGED <<lockVars, part>>
Shallow     == \A t \in Tasks : holders'[t] <= 2

MCInit == (part = "handlers" /\ LInit) \/ (part = "gate" /\ GateInit)
MCNext == Handlers(LNext) \/ Gate(Next /\ Shallow)
MCSpec == /\ MCInit /\ [][MCNext]_MCVars
          /\ \A t \in Tasks : WF_MCVars(Handlers(Step(t)))
=============================================================================
