------------------------ MODULE SyncSupervisorProofs ------------------------
(* Theorems about SyncSupervisor, for any number of clients, requests and   *)
(* failures.  SupervisorInv is one inductive invariant, of these parts:     *)
(* the types; Turns, that the queue of status writes holds the control at   *)
(* most once, and only where the control awaits a write; Known, that the    *)
(* client that runs is the known one and that a start on its way finds none *)
(* and is the only one; Leave, that such a start still has leave to; Said,  *)
(* that memory agrees with the file wherever no control is between the two; *)
(* Quiet, whom a pause or a disconnect has still to stop.                   *)
EXTENDS SyncSupervisor, TLAPS

Callers == {"start", "restart", "ctl", "shut"}

-----------------------------------------------------------------------------
(* Types *)

Controlling ==
    [pc : Pcs, was : BOOLEAN, wait : Clients \cup {None}, desired : 0..MaxSettings + 1, live : BOOLEAN]
CtlType == ctl \in Controlling
OtherTypes ==
    /\ timer \in BOOLEAN /\ paused \in BOOLEAN /\ syncing \in BOOLEAN
    /\ strayed \in BOOLEAN /\ crossed \in BOOLEAN /\ torn \in BOOLEAN
    /\ conn \in {"none", "paused", "running"} /\ file \in {"none", "paused", "running"}
    /\ shut \in [pc : {"no", "stop", "publish", "closing"}, wait : Clients \cup {None}]
    /\ failed \in {"no", "before", "after"}
BoundTypes ==
    /\ settings \in 1..MaxSettings + 1 /\ config \in 0..MaxSettings + 1
    /\ requests \in 0..MaxRequests /\ exits \in 0..MaxExits /\ faults \in 0..MaxFaults

ClientTypes ==
    /\ client \in [Clients -> {"free", "running", "dead"}]
    /\ child \in Clients \cup {None}

Limits == /\ MaxClients \in Nat /\ MaxRequests \in Nat /\ MaxExits \in Nat
          /\ MaxSettings \in Nat /\ MaxFaults \in Nat

\* TypeOK in the parts that are proved one by one.
LEMMA TypeParts == TypeOK <=> CtlType /\ OtherTypes /\ BoundTypes /\ ClientTypes /\ queue \in Seq(Callers)
  BY DEF TypeOK, CtlType, Controlling, OtherTypes, BoundTypes, ClientTypes, Callers

\* The control keeps its type: a request, an end or a reboot leaves a fresh one,
\* every other step changes some of its fields.
LEMMA CtlKeepsItsType ==
    ASSUME Limits, CtlType, ClientTypes, paused \in BOOLEAN, settings \in 1..MaxSettings + 1, [Next]_vars
    PROVE  CtlType'
<1>0. Idle \in Controlling
  BY DEF Idle, Controlling, Pcs, None, Limits
<1>1. \A c \in Controlling, pc \in Pcs : [c EXCEPT !.pc = pc] \in Controlling
  BY DEF Controlling
<1>2. \A c \in Controlling, pc \in Pcs, w \in Clients \cup {None} : [c EXCEPT !.pc = pc, !.wait = w] \in Controlling
  BY DEF Controlling
<1>3. \A c \in Controlling, w \in Clients \cup {None} : [c EXCEPT !.wait = w] \in Controlling
  BY DEF Controlling
<1>4. ctl.wait \in Clients \cup {None} /\ None \in Clients \cup {None}
  BY DEF CtlType, Controlling
<1>5. CASE (\E p \in Clients : ClientExits(p)) \/ TimerFires \/ Written \/ SettingsSaved \/ UNCHANGED vars
  BY <1>5 DEF CtlType, ClientExits, TimerFires, Written, StartWritten, RestartWritten, ShutWritten, SettingsSaved, vars
<1>6. CASE StartDropped \/ Shutdown \/ ShutTimesOut \/ ShutStopped
  BY <1>6 DEF CtlType, StartDropped, Shutdown, ShutTimesOut, ShutStopped
<1>7. CASE NothingToStart \/ SaveFails \/ UnlinkFails \/ Finish
  BY <1>0, <1>7 DEF CtlType, NothingToStart, SaveFails, UnlinkFails, Finish, Ends
<1>8. CASE Crash \/ Restart \/ BootReconciles
  BY <1>0, <1>1, <1>8 DEF CtlType, Crash, Restart, Reboot, BootReconciles, Ends, Goes, Pcs, Reconciling
<1>9. CASE Connect \/ Pause \/ Resume \/ Disconnect
  <2>1. \E pc \in Pcs, w \in Clients \cup {None} : Asked(pc, w)
    BY <1>4, <1>9 DEF ClientTypes, Connect, Pause, Resume, Disconnect, Pcs, Saving
  <2> QED
    BY <1>0, <1>2, <2>1 DEF CtlType, Asked
<1>10. CASE CompareMatches \/ StoppedForApply \/ BeginApply \/ Apply \/ Verified \/ SaveDevice \/ StartMatched
  BY <1>1, <1>10 DEF CtlType, CompareMatches, StoppedForApply, BeginApply, Apply, Verified, SaveDevice, StartMatched,
     Publishes, ResumesTo, Goes, Pcs, Reconciling, Applying
<1>11. CASE SpawnMatched \/ ReconcileFails \/ VerifyFails
  BY <1>1, <1>11 DEF CtlType, SpawnMatched, ReconcileFails, VerifyFails, ResumesTo, Fails, Goes, Pcs
<1>12. CASE Tick \/ SetUp \/ SetUpFails \/ Connected \/ PauseStopped \/ DisconnectStopped \/ Unlink
  BY <1>1, <1>12 DEF CtlType, Tick, SetUp, SetUpFails, Connected, PauseStopped, DisconnectStopped, Unlink,
     Publishes, Goes, Pcs, Reconciling
<1>13. CASE ReadSettings
  <2>1. ctl' = [ctl EXCEPT !.pc = "refresh", !.desired = settings] /\ settings \in 0..MaxSettings + 1
    BY <1>13 DEF ReadSettings, Limits
  <2> QED
    BY <2>1 DEF CtlType, Controlling, Pcs, Reconciling
<1>14. CASE Report("refresh", "compare") \/ Report("verify", "verified")
  BY ZenonT(60), <1>14 DEF CtlType, Controlling, Report, Pcs, Reconciling, Applying
<1>15. CASE CompareDiffers
  <2>1. ctl' = [ctl EXCEPT !.pc = "stop", !.was = paused, !.wait = child] /\ child \in Clients \cup {None}
    BY <1>15 DEF CompareDiffers, ClientTypes
  <2> QED
    BY <2>1 DEF CtlType, Controlling, Pcs, Reconciling, Applying
<1>16. CASE SaveChange
  <2>1. \/ ctl' = [ctl EXCEPT !.pc = "pause_stop", !.wait = child]
        \/ ctl' = [ctl EXCEPT !.pc = "disconnect_stop", !.wait = child]
        \/ ctl' = [ctl EXCEPT !.pc = "settings"]
    BY <1>16 DEF SaveChange, Goes
  <2>2. /\ "pause_stop" \in Pcs /\ "disconnect_stop" \in Pcs /\ "settings" \in Pcs
        /\ child \in Clients \cup {None} /\ ctl \in Controlling
    BY DEF CtlType, ClientTypes, Pcs, Reconciling
  <2>3. /\ [ctl EXCEPT !.pc = "pause_stop", !.wait = child] \in Controlling
        /\ [ctl EXCEPT !.pc = "disconnect_stop", !.wait = child] \in Controlling
        /\ [ctl EXCEPT !.pc = "settings"] \in Controlling
    BY <1>1, <1>2, <2>2
  <2> QED
    BY <2>1, <2>3 DEF CtlType
<1>17. CASE StopTimesOut
  BY <1>3, <1>4, <1>17 DEF CtlType, StopTimesOut
<1>18. CASE \E p \in Clients : ExitEvent(p)
  <2>1. PICK p \in Clients : ctl' = [ctl EXCEPT !.wait = IF ctl.wait = p THEN None ELSE ctl.wait]
    BY <1>18 DEF ExitEvent
  <2> QED
    BY <1>3, <1>4, <2>1 DEF CtlType
<1>19. CASE StatusFails
  <2>1. \/ ctl' = [ctl EXCEPT !.live = FALSE]
        \/ \E pc \in Pcs : ctl' = [ctl EXCEPT !.pc = pc]
        \/ ctl' = Idle
    BY <1>19 DEF StatusFails, Fails, Goes, Ends, Pcs
  <2>2. \A c \in Controlling : [c EXCEPT !.live = FALSE] \in Controlling
    BY DEF Controlling
  <2> QED
    BY <1>0, <1>1, <2>1, <2>2 DEF CtlType
<1> QED
  BY <1>5, <1>6, <1>7, <1>8, <1>9, <1>10, <1>11, <1>12, <1>13, <1>14, <1>15, <1>16, <1>17, <1>18, <1>19
     DEF Next, Reconcile, Controls, Process

\* The counters stay within their bounds.
LEMMA TheBoundsHold == ASSUME Limits, CtlType, BoundTypes, [Next]_vars PROVE BoundTypes'
<1>0. ctl.desired \in 0..MaxSettings + 1
  BY DEF CtlType, Controlling
<1>1. CASE UNCHANGED bounds /\ UNCHANGED settings /\ config' \in {config, ctl.desired, 0}
  BY <1>0, <1>1 DEF BoundTypes, bounds, Limits
<1>2. CASE UNCHANGED <<settings, config, requests, faults>> /\ exits' \in {exits, exits + 1} /\ exits' <= MaxExits
  BY <1>2 DEF BoundTypes, Limits
<1>3. CASE /\ UNCHANGED <<settings, requests, exits>> /\ config' \in {config, ctl.desired}
           /\ (faults' = faults \/ Fault)
  BY <1>0, <1>3 DEF BoundTypes, Fault, Limits
<1>4. CASE UNCHANGED <<settings, config, exits, faults>> /\ requests < MaxRequests /\ requests' = requests + 1
  BY <1>4 DEF BoundTypes, Limits
<1>5. CASE SettingsSaved
  BY <1>5 DEF SettingsSaved, BoundTypes, bounds, Limits
<1>6. CASE \E p \in Clients : ClientExits(p)
  BY <1>2, <1>6 DEF ClientExits, BoundTypes, Limits
<1>7. CASE (\E p \in Clients : ExitEvent(p)) \/ TimerFires \/ Written \/ Tick \/ UNCHANGED vars
  BY <1>1, <1>7 DEF ExitEvent, TimerFires, Written, StartWritten, RestartWritten, ShutWritten, Tick, vars, bounds, world
<1>8. CASE Reconcile
  BY <1>1, <1>3, <1>8 DEF Reconcile, ReadSettings, Report, CompareMatches, CompareDiffers, StoppedForApply, BeginApply,
     Apply, Verified, SaveDevice, StartMatched, SpawnMatched, NothingToStart, ReconcileFails, VerifyFails, Fault, world, bounds
<1>9. CASE Controls
  BY <1>1, <1>3, <1>4, <1>9 DEF Controls, BootReconciles, Connect, SetUp, SetUpFails, Connected, Pause, Resume, Disconnect,
     SaveChange, SaveFails, PauseStopped, DisconnectStopped, Unlink, UnlinkFails, StopTimesOut, Finish, Asked, world, bounds
<1>10. CASE Process
  <2>1. UNCHANGED <<settings, config, requests, exits>>
    BY <1>10 DEF Process, StartDropped, StatusFails, Shutdown, ShutTimesOut, ShutStopped, Crash, Restart, Reboot, world, bounds
  <2>2. faults' = faults \/ Fault
    BY <1>10 DEF Process, StartDropped, StatusFails, Shutdown, ShutTimesOut, ShutStopped, Crash, Restart, Reboot, bounds
  <2> QED
    BY <1>3, <2>1, <2>2
<1> QED
  BY <1>5, <1>6, <1>7, <1>8, <1>9, <1>10 DEF Next
\* So do the supervisor's other variables, the file and the history.
LEMMA TheRestKeepsItsType ==
    ASSUME CtlType, ClientTypes, OtherTypes, [Next]_vars PROVE OtherTypes'
<1>0. ctl.was \in BOOLEAN
  BY DEF CtlType, Controlling
<1>1. /\ timer' \in BOOLEAN /\ paused' \in BOOLEAN /\ syncing' \in BOOLEAN
      /\ conn' \in {"none", "paused", "running"} /\ file' \in {"none", "paused", "running"}
  <2>1. CASE (\E p \in Clients : ClientExits(p) \/ ExitEvent(p)) \/ TimerFires \/ Written \/ Tick \/ SettingsSaved \/ UNCHANGED vars
    BY ZenonT(60), <2>1 DEF OtherTypes, ClientExits, ExitEvent, TimerFires, Written, StartWritten, RestartWritten, ShutWritten, Spawns,
       Tick, SettingsSaved, MayRun, vars, sup, world
  <2>2. CASE Reconcile
    BY <1>0, <2>2 DEF OtherTypes, Reconcile, ReadSettings, Report, CompareMatches, CompareDiffers, StoppedForApply,
       BeginApply, Apply, Verified, SaveDevice, StartMatched, SpawnMatched, Spawns, NothingToStart, ReconcileFails,
       VerifyFails, sup, world
  <2>3. CASE Controls
    BY <2>3 DEF OtherTypes, Controls, BootReconciles, Connect, SetUp, SetUpFails, Connected, Pause, Resume, Disconnect,
       SaveChange, SaveFails, PauseStopped, DisconnectStopped, Unlink, UnlinkFails, StopTimesOut, Finish, sup, world
  <2>4. CASE Process
    BY <2>4 DEF OtherTypes, Process, StartDropped, StatusFails, Shutdown, ShutTimesOut, ShutStopped, Crash, Restart, Reboot, sup, world
  <2> QED
    BY <2>1, <2>2, <2>3, <2>4 DEF Next
<1>2. strayed' \in BOOLEAN /\ crossed' \in BOOLEAN /\ torn' \in BOOLEAN /\ failed' \in {"no", "before", "after"}
  <2>1. CASE (\E p \in Clients : ClientExits(p) \/ ExitEvent(p)) \/ TimerFires \/ Written \/ Tick \/ SettingsSaved \/ UNCHANGED vars
    BY <2>1 DEF OtherTypes, ClientExits, ExitEvent, TimerFires, Passes, Written, StartWritten, RestartWritten, ShutWritten, Spawns,
       Tick, SettingsSaved, vars, past
  <2>2. CASE Reconcile
    BY <2>2 DEF OtherTypes, Reconcile, ReadSettings, Report, CompareMatches, CompareDiffers, StoppedForApply,
       BeginApply, Apply, Verified, SaveDevice, StartMatched, Passes, TakesBack, SpawnMatched, Spawns, NothingToStart, ReconcileFails,
       VerifyFails, Fails, past
  <2>3. CASE Controls
    BY <2>3 DEF OtherTypes, Controls, BootReconciles, Connect, SetUp, SetUpFails, Connected, Pause, Resume, Disconnect,
       SaveChange, SaveFails, PauseStopped, DisconnectStopped, Unlink, UnlinkFails, StopTimesOut, Finish, TakesBack, past
  <2>4. CASE Process
    BY <2>4 DEF OtherTypes, Process, StartDropped, StatusFails, Shutdown, ShutTimesOut, ShutStopped, Crash, Restart, Reboot,
       Fails, TakesBack, past
  <2> QED
    BY <2>1, <2>2, <2>3, <2>4 DEF Next
<1>3. shut' \in [pc : {"no", "stop", "publish", "closing"}, wait : Clients \cup {None}]
  <2>0. shut \in [pc : {"no", "stop", "publish", "closing"}, wait : Clients \cup {None}]
    BY DEF OtherTypes
  <2>1. CASE UNCHANGED shut
    BY <2>0, <2>1
  <2>2. CASE \E p \in Clients : ExitEvent(p)
    BY <2>0, <2>2 DEF ExitEvent
  <2>3. CASE Shutdown
    BY <2>3 DEF Shutdown, ClientTypes
  <2>4. CASE ShutTimesOut \/ ShutStopped \/ ShutWritten
    BY <2>0, <2>4 DEF ShutTimesOut, ShutStopped, ShutWritten
  <2>5. CASE Crash \/ Restart
    BY <2>5 DEF Crash, Restart, Reboot
  <2>6. CASE (\E p \in Clients : ClientExits(p)) \/ TimerFires \/ StartWritten \/ RestartWritten \/ Tick \/ SettingsSaved \/ UNCHANGED vars
    BY <2>1, <2>6 DEF ClientExits, TimerFires, StartWritten, RestartWritten, Tick, SettingsSaved, vars
  <2>7. CASE Reconcile
    BY <2>1, <2>7 DEF Reconcile, ReadSettings, Report, CompareMatches, CompareDiffers, StoppedForApply,
       BeginApply, Apply, Verified, SaveDevice, StartMatched, SpawnMatched, NothingToStart, ReconcileFails, VerifyFails
  <2>8. CASE Controls \/ StartDropped \/ StatusFails
    BY <2>1, <2>8 DEF Controls, BootReconciles, Connect, SetUp, SetUpFails, Connected, Pause, Resume, Disconnect,
       SaveChange, SaveFails, PauseStopped, DisconnectStopped, Unlink, UnlinkFails, StopTimesOut, Finish,
       StartDropped, StatusFails
  <2> QED
    BY <2>2, <2>3, <2>4, <2>5, <2>6, <2>7, <2>8 DEF Next, Written, Process
<1> QED
  BY <1>1, <1>2, <1>3 DEF OtherTypes

-----------------------------------------------------------------------------
(* The queue *)

\* The points at which a control awaits a status write.
Waits == {"boot", "compare", "configuring", "verified", "matched", "start", "connected", "finish"}
NoneOf(c, q) == \A i \in 1..Len(q) : q[i] # c
OneOf(c, q) == \A i, j \in 1..Len(q) : q[i] = c /\ q[j] = c => i = j

\* Whoever joins is the last; there is one of a kind still if there was none.
LEMMA Joining ==
    ASSUME NEW q \in Seq(Callers), NEW w \in Callers, NEW c
    PROVE  /\ Append(q, w) \in Seq(Callers)
           /\ NoneOf(c, q) /\ w # c => NoneOf(c, Append(q, w))
           /\ OneOf(c, q) /\ (w = c => NoneOf(c, q)) => OneOf(c, Append(q, w))
<1>1. /\ Append(q, w) \in Seq(Callers) /\ Len(Append(q, w)) = Len(q) + 1 /\ Len(q) \in Nat
      /\ Append(q, w)[Len(q) + 1] = w
      /\ \A i \in 1..Len(q) : Append(q, w)[i] = q[i]
  OBVIOUS
<1>2. \A i \in 1..Len(Append(q, w)) : i \in 1..Len(q) \/ i = Len(q) + 1
  BY <1>1
<1>3. NoneOf(c, q) /\ w # c => NoneOf(c, Append(q, w))
  BY <1>1, <1>2 DEF NoneOf
<1>4. OneOf(c, q) /\ (w = c => NoneOf(c, q)) => OneOf(c, Append(q, w))
  BY <1>1, <1>2 DEF NoneOf, OneOf
<1> QED
  BY <1>1, <1>3, <1>4

\* Whoever leaves was the first; if it was the only one of its kind, none is left.
LEMMA Leaving ==
    ASSUME NEW q \in Seq(Callers), q # <<>>, NEW c
    PROVE  /\ Tail(q) \in Seq(Callers)
           /\ NoneOf(c, q) => NoneOf(c, Tail(q)) /\ Head(q) # c
           /\ OneOf(c, q) => OneOf(c, Tail(q)) /\ (Head(q) = c => NoneOf(c, Tail(q)))
<1>1. /\ Tail(q) \in Seq(Callers) /\ Len(Tail(q)) = Len(q) - 1 /\ Len(q) \in Nat /\ Len(q) > 0
      /\ Head(q) = q[1]
      /\ \A i \in 1..Len(Tail(q)) : Tail(q)[i] = q[i + 1]
  OBVIOUS
<1>2. \A i \in 1..Len(Tail(q)) : i + 1 \in 1..Len(q) /\ i + 1 # 1
  BY <1>1
<1>3. NoneOf(c, q) => NoneOf(c, Tail(q)) /\ Head(q) # c
  BY <1>1, <1>2 DEF NoneOf
<1>4. OneOf(c, q) => OneOf(c, Tail(q))
  BY <1>1, <1>2 DEF OneOf
<1>5. OneOf(c, q) /\ Head(q) = c => NoneOf(c, Tail(q))
  BY <1>1, <1>2 DEF OneOf, NoneOf
<1> QED
  BY <1>1, <1>3, <1>4, <1>5

\* The control waits at most once in the queue, and only where it awaits a write.
Turns ==
    /\ queue \in Seq(Callers)
    /\ OneOf("ctl", queue)
    /\ ctl.pc \notin Waits => NoneOf("ctl", queue)

\* Nobody moves in the queue, and a control that awaited nothing may do what it likes.
Stays == queue' = queue /\ (ctl.pc \in Waits => ctl'.pc \in Waits)
\* Another caller joins.
Joins == (\E w \in Callers \ {"ctl"} : queue' = Append(queue, w)) /\ ctl'.pc = ctl.pc
\* The control publishes.
Publish == queue' = Append(queue, "ctl") /\ ctl.pc \notin Waits /\ ctl'.pc \in Waits
\* The head goes on, and publishes again when it is the control that waits again.
GoesOn ==
    /\ queue # <<>>
    /\ \/ queue' = Tail(queue) /\ (Head(queue) = "ctl" \/ ctl'.pc = ctl.pc)
       \/ queue' = Append(Tail(queue), "ctl") /\ Head(queue) = "ctl" /\ ctl'.pc \in Waits
Turn == Stays \/ Joins \/ Publish \/ GoesOn

\* Such turns keep the queue in order.
LEMMA TurnKeepsTurns == ASSUME Turns, Turn PROVE Turns'
<1>0. queue \in Seq(Callers) /\ "ctl" \in Callers
  BY DEF Turns, Callers
<1>1. CASE Stays
  BY <1>1 DEF Stays, Turns
<1>2. CASE Joins
  <2>1. PICK w \in Callers \ {"ctl"} : queue' = Append(queue, w) /\ ctl'.pc = ctl.pc
    BY <1>2 DEF Joins
  <2> QED
    BY <1>0, <2>1, Joining DEF Turns
<1>3. CASE Publish
  BY <1>0, <1>3, Joining DEF Publish, Turns
<1>4. CASE GoesOn
  <2>1. Tail(queue) \in Seq(Callers) /\ OneOf("ctl", Tail(queue)) /\ (Head(queue) = "ctl" => NoneOf("ctl", Tail(queue)))
        /\ (NoneOf("ctl", queue) => NoneOf("ctl", Tail(queue)))
    BY <1>0, <1>4, Leaving DEF GoesOn, Turns
  <2>2. CASE queue' = Tail(queue) /\ (Head(queue) = "ctl" \/ ctl'.pc = ctl.pc)
    BY <2>1, <2>2 DEF Turns
  <2>3. CASE queue' = Append(Tail(queue), "ctl") /\ Head(queue) = "ctl" /\ ctl'.pc \in Waits
    BY <1>0, <2>1, <2>3, Joining DEF Turns
  <2> QED
    BY <1>4, <2>2, <2>3 DEF GoesOn
<1> QED
  BY <1>1, <1>2, <1>3, <1>4 DEF Turn

\* Every step is a turn, except a reboot.
LEMMA StepsAreTurns ==
    ASSUME CtlType, [Next]_vars, ~Crash, ~Restart PROVE Turn
<1>1. CASE \E p \in Clients : ClientExits(p) \/ ExitEvent(p)
  BY <1>1 DEF CtlType, Controlling, ClientExits, ExitEvent, Turn, Stays, Joins, Callers
<1>2. CASE TimerFires \/ Written
  BY <1>2 DEF TimerFires, Written, StartWritten, RestartWritten, ShutWritten, Turn, Stays, Joins, GoesOn, Callers
<1>3. CASE Reconcile
  BY <1>3 DEF CtlType, Controlling, Reconcile, ReadSettings, Report, CompareMatches, CompareDiffers,
         StoppedForApply, BeginApply, Apply, Verified, SaveDevice, StartMatched, SpawnMatched,
         NothingToStart, ReconcileFails, VerifyFails, Publishes, Goes, Ends, Resumes, ResumesTo, Fails,
         Turn, Stays, Publish, GoesOn, Waits
<1>4. CASE Tick \/ Controls
  BY <1>4 DEF CtlType, Controlling, Tick, Controls, BootReconciles, Connect, SetUp, SetUpFails, Connected, Pause,
         Resume, Disconnect, SaveChange, SaveFails, PauseStopped, DisconnectStopped, Unlink,
         UnlinkFails, StopTimesOut, Finish, Publishes, Goes, Ends, Resumes, Asked, Idle, Saving,
         Turn, Stays, Publish, GoesOn, Waits
<1>5. CASE Process \/ SettingsSaved
  BY <1>5 DEF CtlType, Controlling, Process, SettingsSaved, StartDropped, StatusFails, Shutdown, ShutTimesOut,
         ShutStopped, Fails, Goes, Ends, Turn, Stays, Joins, Publish, GoesOn, Waits, Callers
<1>6. CASE UNCHANGED vars
  BY <1>6 DEF vars, Turn, Stays
<1> QED
  BY <1>1, <1>2, <1>3, <1>4, <1>5, <1>6 DEF Next
-----------------------------------------------------------------------------
(* The known client *)

Alone == OneOf("start", queue) /\ (ctl.pc = "start" => NoneOf("start", queue))

\* What makes OneClient inductive: every process that runs is the known one, a
\* start on its way finds no known client, and there is no second such start.
Known ==
    /\ ClientTypes
    /\ ~crossed =>
        /\ \A p \in Clients : client[p] = "running" => p = child
        /\ Starting => child = None
        /\ Alone

\* Nobody joins the queue in order to start.
NoStartJoins ==
    \/ queue' = queue
    \/ \E w \in Callers \ {"start"} : queue' = Append(queue, w)
    \/ queue # <<>> /\ queue' \in {Tail(queue), Append(Tail(queue), "ctl")}
\* No start passes its test.
NoStart == NoStartJoins /\ (ctl'.pc = "start" => ctl.pc = "start")
\* Clients end, and one is forgotten only when it does not run.
Fewer ==
    /\ \A p \in Clients : client'[p] = "running" => client[p] = "running" /\ (p = child => p = child')
    /\ child' \in {child, None}
    /\ ClientTypes'
\* What happened is not forgotten.
Remembers == (strayed => strayed') /\ (crossed => crossed')

\* Starting in terms of the queue.
LEMMA WhoStarts == Starting <=> ctl.pc = "start" \/ ~NoneOf("start", queue)
  BY DEF Starting, NoneOf

\* Where nobody joins in order to start, there are no more starts than before.
LEMMA NoStartAdds ==
    ASSUME queue \in Seq(Callers), NoStartJoins
    PROVE  /\ NoneOf("start", queue) => NoneOf("start", queue')
           /\ OneOf("start", queue) => OneOf("start", queue')
<1>1. CASE queue' = queue
  BY <1>1
<1>2. CASE \E w \in Callers \ {"start"} : queue' = Append(queue, w)
  BY <1>2, Joining
<1>3. CASE queue # <<>> /\ queue' \in {Tail(queue), Append(Tail(queue), "ctl")}
  <2>1. /\ Tail(queue) \in Seq(Callers) /\ "ctl" \in Callers
        /\ NoneOf("start", queue) => NoneOf("start", Tail(queue))
        /\ OneOf("start", queue) => OneOf("start", Tail(queue))
    BY <1>3, Leaving DEF Callers
  <2>2. /\ NoneOf("start", Tail(queue)) => NoneOf("start", Append(Tail(queue), "ctl"))
        /\ OneOf("start", Tail(queue)) => OneOf("start", Append(Tail(queue), "ctl"))
    BY <2>1, Joining
  <2> QED
    BY <1>3, <2>1, <2>2
<1> QED
  BY <1>1, <1>2, <1>3 DEF NoStartJoins

\* So a step in which no start passes makes none be on its way.
LEMMA NoStartStarts ==
    ASSUME queue \in Seq(Callers), NoStart PROVE (Starting' => Starting) /\ (Alone => Alone')
<1>1. /\ NoneOf("start", queue) => NoneOf("start", queue')
      /\ OneOf("start", queue) => OneOf("start", queue')
  BY NoStartAdds DEF NoStart
<1>2. Starting' <=> ctl'.pc = "start" \/ ~NoneOf("start", queue')
  BY DEF Starting, NoneOf
<1> QED
  BY <1>1, <1>2, WhoStarts DEF NoStart, Alone

\* Only the timer and a control that found the settings matching start clients.
LEMMA WhoPasses ==
    ASSUME CtlType, [Next]_vars, ~TimerFires, ~StartMatched, ~Crash, ~Restart PROVE NoStart
<1>1. CASE \E p \in Clients : ClientExits(p) \/ ExitEvent(p)
  BY <1>1 DEF CtlType, Controlling, ClientExits, ExitEvent, NoStart, NoStartJoins, Callers
<1>2. CASE Written
  BY <1>2 DEF Written, StartWritten, RestartWritten, ShutWritten, NoStart, NoStartJoins, Callers
<1>3. CASE Reconcile
  <2>1. CASE ReadSettings \/ Report("refresh", "compare") \/ Report("verify", "verified") \/ CompareMatches
             \/ CompareDiffers \/ StoppedForApply \/ BeginApply \/ Apply
    BY <2>1 DEF CtlType, Controlling, ReadSettings, Report, CompareMatches, CompareDiffers, StoppedForApply,
       BeginApply, Apply, Publishes, Goes, Resumes, ResumesTo, NoStart, NoStartJoins, Callers
  <2>2. CASE Verified \/ SaveDevice \/ SpawnMatched \/ NothingToStart \/ ReconcileFails \/ VerifyFails
    BY <2>2 DEF CtlType, Controlling, Verified, SaveDevice, SpawnMatched, NothingToStart, ReconcileFails, VerifyFails,
       Publishes, Goes, Ends, Idle, Resumes, ResumesTo, Fails, NoStart, NoStartJoins, Callers
  <2> QED
    BY <1>3, <2>1, <2>2 DEF Reconcile
<1>4. CASE Tick \/ Controls
  <2>1. CASE Connect \/ Pause \/ Resume \/ Disconnect
    <3>1. queue' = queue
      BY <2>1 DEF Connect, Pause, Resume, Disconnect
    <3>2. ctl'.pc # "start"
      BY <2>1 DEF Connect, Pause, Resume, Disconnect, Asked, Idle
    <3> QED
      BY <3>1, <3>2 DEF NoStart, NoStartJoins
  <2>2. CASE BootReconciles \/ SetUp \/ SetUpFails \/ Connected \/ PauseStopped \/ Unlink \/ Finish
    <3>1. queue' = Append(queue, "ctl") \/ (queue # <<>> /\ queue' = Tail(queue))
      <4>1. CASE BootReconciles \/ Connected \/ Finish
        BY <4>1 DEF BootReconciles, Connected, Finish, Resumes
      <4>2. CASE SetUp \/ Unlink
        BY <4>2 DEF SetUp, Unlink, Publishes
      <4>3. CASE SetUpFails \/ PauseStopped
        BY <4>3 DEF SetUpFails, PauseStopped, Publishes
      <4> QED
        BY <2>2, <4>1, <4>2, <4>3
    <3>2. ctl'.pc # "start"
      BY <2>2 DEF CtlType, Controlling, BootReconciles, SetUp, SetUpFails, Connected, PauseStopped, Unlink, Finish,
         Publishes, Goes, Ends, Idle
    <3> QED
      BY <3>1, <3>2 DEF NoStart, NoStartJoins, Callers
  <2>3. CASE Tick \/ SaveChange \/ SaveFails \/ DisconnectStopped \/ UnlinkFails \/ StopTimesOut
    <3>1. queue' = queue
      BY <2>3 DEF Tick, SaveChange, SaveFails, DisconnectStopped, UnlinkFails, StopTimesOut
    <3>2. ctl'.pc = "start" => ctl.pc = "start"
      <4>1. CASE Tick \/ SaveFails \/ DisconnectStopped \/ UnlinkFails
        BY <4>1 DEF CtlType, Controlling, Tick, SaveFails, DisconnectStopped, UnlinkFails, Goes, Ends, Idle
      <4>2. CASE SaveChange
        BY <4>2 DEF CtlType, Controlling, SaveChange, Goes
      <4>3. CASE StopTimesOut
        BY <4>3 DEF CtlType, Controlling, StopTimesOut
      <4> QED
        BY <2>3, <4>1, <4>2, <4>3
    <3> QED
      BY <3>1, <3>2 DEF NoStart, NoStartJoins
  <2> QED
    BY <1>4, <2>1, <2>2, <2>3 DEF Controls
<1>5. CASE Process \/ SettingsSaved
  BY <1>5 DEF CtlType, Controlling, Process, SettingsSaved, StartDropped, StatusFails, Shutdown, ShutTimesOut,
     ShutStopped, Fails, Goes, Ends, Idle, NoStart, NoStartJoins, Callers
<1>6. CASE UNCHANGED vars
  BY <1>6 DEF vars, NoStart, NoStartJoins
<1> QED
  BY <1>1, <1>2, <1>3, <1>4, <1>5, <1>6 DEF Next

\* Only a start adds a client; the exit event of the known one comes when it no longer runs.
LEMMA WhoAddsClients ==
    ASSUME ClientTypes, [Next]_vars, ~StartWritten, ~SpawnMatched, ~Crash, ~Restart PROVE Fewer
<1>1. CASE UNCHANGED <<client, child>>
  BY <1>1 DEF Fewer, ClientTypes
<1>2. CASE \E p \in Clients : ClientExits(p)
  BY <1>2 DEF ClientExits, Fewer, ClientTypes, sup
<1>3. CASE \E p \in Clients : ExitEvent(p)
  <2>1. PICK p \in Clients : ExitEvent(p)
    BY <1>3
  <2>2. /\ client[p] = "dead" /\ client' = [client EXCEPT ![p] = "free"]
        /\ child' \in {None, child} /\ (child' # child => child = p)
    BY <2>1 DEF ExitEvent
  <2> QED
    BY <2>2 DEF Fewer, ClientTypes
<1>4. CASE StopTimesOut \/ ShutTimesOut
  <2>1. PICK p : Killed(p) /\ child' = child
    BY <1>4 DEF StopTimesOut, ShutTimesOut, sup
  <2> QED
    BY <2>1 DEF Killed, Fewer, ClientTypes
<1>5. CASE TimerFires \/ RestartWritten \/ ShutWritten \/ Tick \/ SettingsSaved
  BY <1>1, <1>5 DEF TimerFires, RestartWritten, ShutWritten, Tick, SettingsSaved, sup, world
<1>6. CASE Reconcile /\ ~SpawnMatched
  BY <1>1, <1>6 DEF Reconcile, ReadSettings, Report, CompareMatches, CompareDiffers,
       StoppedForApply, BeginApply, Apply, Verified, SaveDevice, StartMatched,
       NothingToStart, ReconcileFails, VerifyFails, sup, world
<1>7. CASE Controls /\ ~StopTimesOut
  BY <1>1, <1>7 DEF Controls, BootReconciles, Connect, SetUp, SetUpFails, Connected, Pause,
       Resume, Disconnect, SaveChange, SaveFails, PauseStopped, DisconnectStopped, Unlink,
       UnlinkFails, Finish, sup, world
<1>8. CASE StartDropped \/ StatusFails \/ Shutdown \/ ShutStopped
  BY <1>1, <1>8 DEF StartDropped, StatusFails, Shutdown, ShutStopped, sup, world
<1>9. CASE UNCHANGED vars
  BY <1>1, <1>9 DEF vars, sup, world
<1> QED
  BY <1>2, <1>3, <1>4, <1>5, <1>6, <1>7, <1>8, <1>9 DEF Next, Written, Process

\* The past is forgotten only with the container.
LEMMA ThePastIsKept == ASSUME [Next]_vars, ~Crash, ~Restart PROVE Remembers
<1>1. CASE UNCHANGED <<strayed, crossed>>
  BY <1>1 DEF Remembers
<1>2. CASE (\E p \in Clients : ClientExits(p) \/ ExitEvent(p)) \/ Written \/ Tick \/ SettingsSaved \/ UNCHANGED vars
  BY <1>1, <1>2 DEF ClientExits, ExitEvent, Written, StartWritten, RestartWritten, ShutWritten, Tick, SettingsSaved, vars, past
<1>3. CASE TimerFires \/ StartMatched
  <2>1. strayed' = strayed
    BY <1>3 DEF TimerFires, StartMatched
  <2>2. crossed' = (crossed \/ Starting) \/ UNCHANGED crossed
    BY <1>3 DEF TimerFires, StartMatched, Passes
  <2>3. crossed => crossed'
    BY <2>2
  <2> QED
    BY <2>1, <2>3 DEF Remembers
<1>4. CASE CompareDiffers \/ Pause \/ Disconnect \/ Unlink \/ Shutdown
  <2>1. strayed' = (strayed \/ Starting)
    BY <1>4 DEF CompareDiffers, Pause, Disconnect, Unlink, Shutdown, TakesBack
  <2>2. crossed' = crossed
    BY <1>4 DEF CompareDiffers, Pause, Disconnect, Unlink, Shutdown
  <2>3. strayed => strayed'
    BY <2>1
  <2> QED
    BY <2>2, <2>3 DEF Remembers
<1>5. CASE Reconcile /\ ~StartMatched /\ ~CompareDiffers
  BY <1>1, <1>5 DEF Reconcile, ReadSettings, Report, CompareMatches, StoppedForApply, BeginApply, Apply, Verified,
     SaveDevice, SpawnMatched, NothingToStart, ReconcileFails, VerifyFails, past
<1>6. CASE Controls /\ ~Pause /\ ~Disconnect /\ ~Unlink
  BY <1>1, <1>6 DEF Controls, BootReconciles, Connect, SetUp, SetUpFails, Connected, Resume, SaveChange, SaveFails,
     PauseStopped, DisconnectStopped, UnlinkFails, StopTimesOut, Finish, past
<1>7. CASE StartDropped \/ StatusFails \/ ShutTimesOut \/ ShutStopped
  BY <1>1, <1>7 DEF StartDropped, StatusFails, ShutTimesOut, ShutStopped, past
<1> QED
  BY <1>2, <1>3, <1>4, <1>5, <1>6, <1>7 DEF Next, Process

\* A start that was alone and finds no known client adds the only one that runs.
LEMMA SpawnAddsTheOnlyOne ==
    ASSUME Known, Spawns, UNCHANGED crossed, ~crossed => Starting /\ ~Starting' /\ Alone' PROVE Known'
<1>1. PICK p \in Clients : client' = [client EXCEPT ![p] = "running"] /\ child' = p
  BY DEF Spawns
<1>2. ClientTypes'
  BY <1>1 DEF Known, ClientTypes
<1>3. ASSUME ~crossed, NEW q \in Clients, client'[q] = "running" PROVE q = child'
  <2>1. \A r \in Clients : client[r] # "running"
    BY <1>3 DEF Known, None, Clients
  <2> QED
    BY <1>1, <1>3, <2>1 DEF Known, ClientTypes
<1> QED
  BY <1>2, <1>3 DEF Known

\* No client runs at first and none is being started.
LEMMA KnownAtFirst == Init => Known
<1> SUFFICES ASSUME Init PROVE Known
  OBVIOUS
<1>1. queue = <<"ctl">> /\ ctl.pc = "boot" /\ client = [p \in Clients |-> "free"] /\ child = None
  BY DEF Init, Idle
<1>2. Alone /\ ~Starting
  BY <1>1 DEF Alone, OneOf, NoneOf, Starting
<1> QED
  BY <1>1, <1>2 DEF Known, ClientTypes

\* No step of the supervisor breaks Known.
LEMMA KnownIsKept == ASSUME CtlType, Known, Turns, [Next]_vars PROVE Known'
<1>0. queue \in Seq(Callers) /\ ClientTypes
  BY DEF Turns, Known
<1>1. CASE StartWritten
  <2>1. queue # <<>> /\ Head(queue) = "start" /\ queue' = Tail(queue) /\ UNCHANGED <<ctl, crossed>>
    BY <1>1 DEF StartWritten, past
  <2>2. ~NoneOf("start", queue) /\ (OneOf("start", queue) => NoneOf("start", queue'))
    BY <1>0, <2>1, Leaving
  <2>3. ~crossed => Starting /\ ctl.pc # "start" /\ NoneOf("start", queue') /\ OneOf("start", queue')
    BY <2>2, WhoStarts DEF Known, Alone, NoneOf, OneOf
  <2>4. ~crossed => ~Starting' /\ Alone'
    BY <2>1, <2>3 DEF Starting, NoneOf, Alone
  <2> QED
    BY <1>1, <2>1, <2>3, <2>4, SpawnAddsTheOnlyOne DEF StartWritten
<1>2. CASE SpawnMatched
  <2>1. /\ queue # <<>> /\ queue' = Append(Tail(queue), "ctl") /\ UNCHANGED crossed
        /\ ctl.pc = "start" /\ ctl'.pc = "finish"
    BY <1>2 DEF SpawnMatched, ResumesTo, Goes, CtlType, Controlling, past
  <2>2. ~crossed => NoneOf("start", queue)
    BY <2>1 DEF Known, Alone
  <2>3. NoneOf("start", queue) => NoneOf("start", queue')
    BY <1>0, <2>1, NoStartAdds DEF NoStartJoins
  <2>4. ~crossed => Starting /\ ~Starting' /\ Alone'
    BY <2>1, <2>2, <2>3 DEF Starting, NoneOf, OneOf, Alone
  <2> QED
    BY <1>2, <2>1, <2>4, SpawnAddsTheOnlyOne DEF SpawnMatched
<1>3. CASE Crash \/ Restart
  <2>1. queue' = <<"ctl">> /\ ctl'.pc = "boot" /\ client' = [p \in Clients |-> "free"] /\ child' = None
    BY <1>3 DEF Crash, Restart, Reboot, Idle
  <2>2. Alone' /\ ~Starting'
    BY <2>1 DEF Alone, OneOf, NoneOf, Starting
  <2> QED
    BY <2>1, <2>2 DEF Known, ClientTypes
<1>4. CASE ~StartWritten /\ ~SpawnMatched /\ ~Crash /\ ~Restart
  <2>1. Fewer /\ Remembers
    BY <1>0, <1>4, WhoAddsClients, ThePastIsKept
  <2>2. \A p \in Clients : ~crossed' /\ client'[p] = "running" => p = child'
    BY <2>1 DEF Fewer, Remembers, Known
  <2>3. ~crossed' => Alone' /\ (Starting' => child' = None)
    <3>1. CASE NoStart
      BY <1>0, <2>1, <3>1, NoStartStarts DEF Fewer, Remembers, Known
    <3>2. CASE TimerFires /\ ~NoStart
      <4>1. Passes /\ queue' = Append(queue, "start") /\ UNCHANGED <<ctl, child>>
        BY <3>2 DEF TimerFires, NoStart, NoStartJoins
      <4>2. ~crossed' => NoneOf("start", queue) /\ ctl.pc # "start" /\ child = None
        BY <4>1, WhoStarts DEF Passes, MayStart
      <4>3. NoneOf("start", queue) => OneOf("start", queue)
        BY DEF NoneOf, OneOf
      <4>4. NoneOf("start", queue) => OneOf("start", queue')
        BY <1>0, <4>1, <4>3, Joining DEF Callers
      <4> QED
        BY <4>1, <4>2, <4>4 DEF Alone
    <3>3. CASE StartMatched
      <4>1. Passes /\ queue # <<>> /\ queue' = Append(Tail(queue), "ctl") /\ UNCHANGED child
        BY <3>3 DEF StartMatched, ResumesTo
      <4>2. ~crossed' => NoneOf("start", queue) /\ child = None
        BY <4>1, WhoStarts DEF Passes, MayStart
      <4>3. NoneOf("start", queue) => NoneOf("start", queue')
        BY <1>0, <4>1, NoStartAdds DEF NoStartJoins
      <4>4. NoneOf("start", queue') => OneOf("start", queue')
        BY DEF NoneOf, OneOf
      <4> QED
        BY <4>1, <4>2, <4>3, <4>4 DEF Alone
    <3> QED
      BY <1>4, <3>1, <3>2, <3>3, WhoPasses
  <2> QED
    BY <2>1, <2>2, <2>3 DEF Known, Fewer
<1> QED
  BY <1>1, <1>2, <1>3, <1>4

-----------------------------------------------------------------------------
(* What was said and who runs *)

Suits(p) == (conn = "paused" => p) /\ (conn = "running" => ~p)

\* What a control has said so far: only the temporary pause of reconcileConfig
\* may make `paused` disagree with the connection, and what it was is kept.
Said ==
    /\ ~torn /\ ctl.pc \notin Saving => file = conn
    /\ IF ctl.pc = "stop" THEN paused /\ Suits(ctl.was) ELSE Suits(paused)
    /\ ctl.pc = "resume_save" => conn = "running"
    /\ ctl.pc \in {"pause_save", "pause_stop", "disconnect_save", "disconnect_stop", "unlink"} => conn # "running"

\* Whom a pause or a disconnect has still to stop.
Quiet ==
    ~strayed /\ ~crossed /\ conn # "running" =>
        /\ ctl.pc \in {"pause_stop", "disconnect_stop"} => Running \subseteq {ctl.wait}
        /\ ctl.pc = "unlink" => Running = {}
        /\ ~torn /\ ctl.pc \notin Saving \cup {"pause_stop", "disconnect_stop"} => Running = {}

\* Every step keeps word and file together; a status write that fails while the
\* client is being stopped would not, but then none is awaited (Turns).
LEMMA SaidIsKept == ASSUME CtlType, OtherTypes, Turns, Said, [Next]_vars PROVE Said'
<1>0. ctl.pc = "stop" => NoneOf("ctl", queue)
  BY DEF Turns, Waits
<1>1. CASE UNCHANGED <<paused, conn, file, torn>> /\ ctl'.pc = ctl.pc /\ ctl'.was = ctl.was
  BY <1>1 DEF Said, Suits
<1>2. CASE (\E p \in Clients : ClientExits(p) \/ ExitEvent(p)) \/ TimerFires \/ Written \/ SettingsSaved \/ UNCHANGED vars
  BY <1>1, <1>2 DEF CtlType, Controlling, ClientExits, ExitEvent, TimerFires, Written, StartWritten, RestartWritten, ShutWritten,
     SettingsSaved, vars, sup, world, past
<1>3. CASE StartDropped \/ Shutdown \/ ShutTimesOut \/ ShutStopped \/ StopTimesOut
  BY <1>1, <1>3 DEF CtlType, Controlling, StartDropped, Shutdown, ShutTimesOut, ShutStopped, StopTimesOut, sup, world, past
<1>4. CASE CompareDiffers
  BY <1>4 DEF CompareDiffers, Resumes, CtlType, Controlling, Said, Suits, OtherTypes, world, past, Saving
<1>5. CASE StoppedForApply
  BY <1>5 DEF StoppedForApply, Publishes, Goes, CtlType, Controlling, Said, Suits, world, past, Saving
<1>6. CASE SaveDevice \/ Apply
  BY <1>6 DEF SaveDevice, Apply, Publishes, Goes, CtlType, Controlling, Said, Suits, sup, past, Saving
<1>7. CASE ReadSettings \/ Report("refresh", "compare") \/ Report("verify", "verified") \/ CompareMatches \/ BeginApply
           \/ Verified \/ StartMatched \/ SpawnMatched \/ NothingToStart \/ ReconcileFails \/ VerifyFails
  <2>1. UNCHANGED <<paused, conn, file, torn>>
    BY <1>7 DEF ReadSettings, Report, CompareMatches, BeginApply, Verified, StartMatched, SpawnMatched, NothingToStart,
       ReconcileFails, VerifyFails, sup, world, past
  <2>0. ctl.pc \in Reconciling \ {"stop"}
    <3>1. CASE ReadSettings \/ Report("refresh", "compare") \/ Report("verify", "verified") \/ CompareMatches \/ BeginApply
      BY <3>1 DEF ReadSettings, Report, CompareMatches, BeginApply, Resumes, ResumesTo, Reconciling, Applying
    <3>2. CASE Verified \/ StartMatched \/ SpawnMatched \/ NothingToStart \/ ReconcileFails \/ VerifyFails
      BY <3>2 DEF Verified, StartMatched, SpawnMatched, NothingToStart, ReconcileFails, VerifyFails, Resumes, ResumesTo,
         Reconciling, Applying
    <3> QED
      BY <1>7, <3>1, <3>2
  <2>2. ctl'.pc \in {"idle", "finish", "refresh", "compare", "verified", "matched", "apply", "save", "start"}
    <3>1. CASE ReadSettings \/ Report("refresh", "compare") \/ Report("verify", "verified") \/ CompareMatches \/ BeginApply
      BY <3>1 DEF ReadSettings, Report, CompareMatches, BeginApply, ResumesTo, Goes, CtlType, Controlling
    <3>2. CASE Verified \/ StartMatched \/ SpawnMatched
      BY <3>2 DEF Verified, StartMatched, SpawnMatched, ResumesTo, Goes, CtlType, Controlling
    <3>3. CASE NothingToStart \/ ReconcileFails \/ VerifyFails
      BY <3>3 DEF NothingToStart, ReconcileFails, VerifyFails, Fails, Goes, Ends, Idle, CtlType, Controlling
    <3> QED
      BY <1>7, <3>1, <3>2, <3>3
  <2> QED
    BY <2>0, <2>1, <2>2 DEF Said, Suits, Saving, Reconciling, Applying
<1>8. CASE Tick \/ BootReconciles \/ SetUpFails \/ Connected \/ PauseStopped \/ DisconnectStopped \/ UnlinkFails \/ Finish
  BY <1>8 DEF Tick, BootReconciles, SetUpFails, Connected, PauseStopped, DisconnectStopped, UnlinkFails, Finish,
     Publishes, Resumes, Goes, Ends, Idle, CtlType, Controlling, Said, Suits, sup, world, past, Saving
<1>9. CASE Connect \/ Pause \/ Resume \/ Disconnect
  <2>0. ctl.pc = "idle"
    BY <1>9 DEF Connect, Pause, Resume, Disconnect, Asked, Idle
  <2>1. ctl'.pc \in Saving \/ UNCHANGED <<conn, file, torn>>
    <3>1. CASE Connect
      BY <3>1 DEF Connect, sup, world, past
    <3>2. CASE Pause \/ Resume
      BY <3>2 DEF Pause, Resume, Asked, Idle, Saving
    <3>3. CASE Disconnect
      BY <3>3 DEF Disconnect, Asked, Idle, Saving, world, past
    <3> QED
      BY <1>9, <3>1, <3>2, <3>3
  <2>2. \/ ctl'.pc = "setup" /\ UNCHANGED <<conn, paused>>
        \/ ctl'.pc = "pause_save" /\ conn' = "paused" /\ paused'
        \/ ctl'.pc = "resume_save" /\ conn' = "running" /\ ~paused'
        \/ ctl'.pc = "disconnect_save" /\ conn' = "paused" /\ paused'
        \/ ctl'.pc = "disconnect_stop" /\ conn' = "none" /\ paused'
    BY <1>9 DEF Connect, Pause, Resume, Disconnect, Asked, Idle, sup
  <2> QED
    BY <2>0, <2>1, <2>2 DEF Said, Suits, Saving
<1>10. CASE SetUp \/ Unlink
  BY <1>10 DEF SetUp, Unlink, Publishes, Goes, CtlType, Controlling, Said, Suits, Saving
<1>11. CASE SaveChange \/ SaveFails
  <2>1. ctl.pc \in Saving /\ UNCHANGED <<conn, paused>> /\ (file' = conn \/ torn')
    BY <1>11 DEF SaveChange, SaveFails, sup
  <2>2. \/ ctl.pc \in {"pause_save", "disconnect_save"} /\ ctl'.pc \in {"pause_stop", "disconnect_stop"}
        \/ ctl'.pc \in {"settings", "idle"}
    <3>1. CASE SaveChange
      BY <3>1 DEF SaveChange, Goes, CtlType, Controlling
    <3>2. CASE SaveFails
      BY <3>2 DEF SaveFails, Ends, Idle
    <3> QED
      BY <1>11, <3>1, <3>2
  <2> QED
    BY <2>1, <2>2 DEF Said, Suits, Saving
<1>12. CASE Crash \/ Restart
  BY <1>12 DEF Crash, Restart, Reboot, Idle, Said, Suits, OtherTypes, Saving
<1>13. CASE StatusFails
  <2>1. ctl.pc # "stop" /\ UNCHANGED <<paused, conn, file, torn>>
    BY <1>0, <1>13, Leaving DEF StatusFails, Turns, sup, world
  <2> QED
    BY <1>13, <2>1 DEF StatusFails, Fails, Goes, Ends, Idle, CtlType, Controlling, Said, Suits, Saving, Reconciling, Applying
<1> QED
  BY <1>2, <1>3, <1>4, <1>5, <1>6, <1>7, <1>8, <1>9, <1>10, <1>11, <1>12, <1>13 DEF Next, Reconcile, Controls, Process

\* A start on its way has leave to start, unless somebody took it back meanwhile.
Leave == ~strayed /\ Starting => MayRun

\* Who passes the test has leave; who takes it back is remembered.
LEMMA LeaveIsKept == ASSUME CtlType, OtherTypes, Turns, Said, Leave, [Next]_vars PROVE Leave'
<1>0. queue \in Seq(Callers)
  BY DEF Turns
<1>1. CASE TimerFires \/ StartMatched
  <2>1. UNCHANGED <<strayed, conn, paused, shut>>
    BY <1>1 DEF TimerFires, StartMatched, past
  <2>2. MayRun' <=> MayRun
    BY <2>1 DEF MayRun, Stopping
  <2>3. MayRun \/ UNCHANGED <<queue, ctl>>
    BY <1>1 DEF TimerFires, StartMatched, Passes, MayStart
  <2> QED
    BY <2>1, <2>2, <2>3 DEF Leave, Starting
<1>2. CASE Crash \/ Restart
  <2>1. queue' = <<"ctl">> /\ ctl'.pc = "boot"
    BY <1>2 DEF Crash, Restart, Reboot, Idle
  <2> QED
    BY <2>1 DEF Leave, Starting
<1>3. CASE ~TimerFires /\ ~StartMatched /\ ~Crash /\ ~Restart
  <2>1. (Starting' => Starting) /\ (strayed => strayed')
    BY <1>0, <1>3, WhoPasses, NoStartStarts, ThePastIsKept DEF Remembers
  <2>2. CASE UNCHANGED <<conn, paused, shut>>
    BY <2>1, <2>2 DEF Leave, MayRun, Stopping
  <2>3. CASE CompareDiffers \/ Pause \/ Disconnect \/ Unlink \/ Shutdown
    BY <2>1, <2>3 DEF CompareDiffers, Pause, Disconnect, Unlink, Shutdown, TakesBack, Leave
  <2>4. CASE StoppedForApply
    BY <2>1, <2>4 DEF StoppedForApply, Said, Leave, MayRun
  <2>5. CASE SetUp \/ Resume
    BY <2>1, <2>5 DEF SetUp, Resume, Leave, MayRun, Stopping
  <2>6. CASE (\E p \in Clients : ExitEvent(p)) \/ ShutTimesOut \/ ShutStopped \/ ShutWritten
    <3>1. UNCHANGED <<conn, paused>> /\ (Stopping' => Stopping)
      <4>1. CASE \E p \in Clients : ExitEvent(p)
        <5>1. PICK p \in Clients : ExitEvent(p)
          BY <4>1
        <5>2. UNCHANGED <<conn, paused>> /\ shut' = [shut EXCEPT !.wait = IF @ = p THEN None ELSE @]
          BY <5>1 DEF ExitEvent
        <5> QED
          BY <5>2 DEF OtherTypes, Stopping
      <4>2. CASE ShutTimesOut \/ ShutStopped
        BY <4>2 DEF ShutTimesOut, ShutStopped, Stopping, sup
      <4>3. CASE ShutWritten
        <5>1. UNCHANGED <<conn, paused>> /\ shut' = [shut EXCEPT !.pc = "closing"] /\ shut.pc # "no"
          BY <4>3 DEF ShutWritten, sup
        <5> QED
          BY <5>1 DEF Stopping
      <4> QED
        BY <2>6, <4>1, <4>2, <4>3
    <3> QED
      BY <2>1, <3>1 DEF Leave, MayRun
  <2>7. CASE (\E p \in Clients : ClientExits(p)) \/ StartWritten \/ RestartWritten \/ Tick \/ SettingsSaved \/ UNCHANGED vars
             \/ StartDropped \/ StatusFails
    BY <2>2, <2>7 DEF ClientExits, StartWritten, RestartWritten, Tick, SettingsSaved, vars, StartDropped, StatusFails, sup
  <2>8. CASE Reconcile /\ ~CompareDiffers /\ ~StoppedForApply /\ ~StartMatched
    BY <2>2, <2>8 DEF Reconcile, ReadSettings, Report, CompareMatches, BeginApply, Apply, Verified, SaveDevice,
       SpawnMatched, NothingToStart, ReconcileFails, VerifyFails, sup
  <2>9. CASE Controls /\ ~SetUp /\ ~Resume /\ ~Pause /\ ~Disconnect /\ ~Unlink
    BY <2>2, <2>9 DEF Controls, BootReconciles, Connect, SetUpFails, Connected, SaveChange, SaveFails, PauseStopped,
       DisconnectStopped, UnlinkFails, StopTimesOut, Finish, sup
  <2> QED
    BY <1>3, <2>3, <2>4, <2>5, <2>6, <2>7, <2>8, <2>9 DEF Next, Written, Process
<1> QED
  BY <1>1, <1>2, <1>3

\* A step that starts no client, has none to stop and leaves the connection as it was.
LEMMA CalmKeepsQuiet ==
    ASSUME Quiet, Remembers, UNCHANGED <<conn, torn>>, Running' \subseteq Running,
           ctl.pc \notin Saving \cup {"pause_stop", "disconnect_stop"},
           ctl'.pc \notin Saving \cup {"pause_stop", "disconnect_stop", "unlink"} \/ ctl'.pc = ctl.pc
    PROVE  Quiet'
  BY DEF Quiet, Saving, Remembers

\* A start that spawns does so while a client should run, unless it strayed.
LEMMA SpawnsObey == ASSUME Said, Leave, Starting, OtherTypes, ~strayed PROVE conn = "running"
  BY DEF Leave, MayRun, Said, Suits, OtherTypes

\* No step but a start that strays lets a client run where none should.
LEMMA QuietIsKept ==
    ASSUME CtlType, OtherTypes, ClientTypes, Turns, Said, Leave, Quiet, Known, [Next]_vars PROVE Quiet'
<1>15. CASE Crash \/ Restart
  BY <1>15 DEF Crash, Restart, Reboot, Quiet, Running, Idle
<1> SUFFICES ASSUME ~Crash, ~Restart PROVE Quiet'
  BY <1>15
<1>r. Remembers
  BY ThePastIsKept
<1>0. None \notin Clients
  BY SupervisorConstants DEF None, Clients
<1>1. CASE \E p \in Clients : ClientExits(p)
  <2>1. Running' \subseteq Running /\ UNCHANGED <<conn, torn, ctl>>
    BY <1>1 DEF ClientExits, ClientTypes, Running, sup, past
  <2> QED
    BY <1>r, <2>1 DEF Quiet, Remembers
<1>2. CASE \E p \in Clients : ExitEvent(p)
  <2>1. PICK p \in Clients : ExitEvent(p)
    BY <1>2
  <2>2. Running' \subseteq Running \ {p} /\ UNCHANGED <<conn, torn>>
    BY <2>1 DEF ExitEvent, ClientTypes, Running, past
  <2>3. ctl'.pc = ctl.pc /\ ctl'.wait \in {ctl.wait, None} /\ (ctl'.wait # ctl.wait => ctl.wait = p)
    BY <2>1 DEF ExitEvent, CtlType, Controlling
  <2> QED
    BY <1>r, <2>2, <2>3 DEF Quiet, Remembers
<1>3. CASE StartWritten \/ SpawnMatched
  <2>1. UNCHANGED <<conn, strayed>> /\ Starting
    <3>1. CASE StartWritten
      <4>1. Len(queue) \in Nat /\ Len(queue) > 0 /\ queue[1] = "start"
        BY <3>1 DEF StartWritten, Turns
      <4> QED
        BY <3>1, <4>1 DEF StartWritten, Starting, past
    <3>2. CASE SpawnMatched
      BY <3>2 DEF SpawnMatched, ResumesTo, Starting, past
    <3> QED
      BY <1>3, <3>1, <3>2
  <2> QED
    BY <2>1, SpawnsObey DEF Quiet
<1>4. CASE \/ TimerFires \/ RestartWritten \/ ShutWritten \/ SettingsSaved \/ UNCHANGED vars
           \/ StartDropped \/ Shutdown \/ ShutStopped
  <2>1. UNCHANGED <<client, conn, torn, ctl>>
    BY <1>4 DEF TimerFires, RestartWritten, ShutWritten, SettingsSaved, vars, StartDropped, Shutdown, ShutStopped, sup, world, past
  <2> QED
    BY <1>r, <2>1 DEF Quiet, Running, Remembers
<1>5. CASE ShutTimesOut
  <2>1. UNCHANGED <<conn, torn, ctl>> /\ Running' \subseteq Running
    BY <1>5 DEF ShutTimesOut, Killed, ClientTypes, Running, sup, past
  <2> QED
    BY <1>r, <2>1 DEF Quiet, Remembers
<1>6. CASE StopTimesOut
  <2>1. Running' \subseteq Running \ {ctl.wait} /\ UNCHANGED <<conn, torn>>
    BY <1>6 DEF StopTimesOut, Killed, ClientTypes, Running, sup, past
  <2>2. ctl'.pc = ctl.pc
    BY <1>6 DEF StopTimesOut, CtlType, Controlling
  <2> QED
    BY <1>r, <2>1, <2>2 DEF Quiet, Remembers
<1>7. CASE Reconcile /\ ~SpawnMatched
  <2>1. UNCHANGED <<client, conn, torn>>
    BY <1>7 DEF Reconcile, ReadSettings, Report, CompareMatches, CompareDiffers, StoppedForApply, BeginApply, Apply,
       Verified, SaveDevice, StartMatched, NothingToStart, ReconcileFails, VerifyFails, sup, world, past
  <2>2. ctl.pc \in Reconciling
    BY <1>7 DEF Reconcile, ReadSettings, Report, CompareMatches, CompareDiffers, StoppedForApply, BeginApply, Apply,
       Verified, SaveDevice, StartMatched, NothingToStart, ReconcileFails, VerifyFails, Resumes, ResumesTo, Reconciling, Applying
  <2>3. ctl'.pc \in Reconciling \cup {"idle", "finish"}
    <3>1. CASE ReadSettings \/ Report("refresh", "compare") \/ Report("verify", "verified") \/ CompareDiffers
      BY <3>1 DEF ReadSettings, Report, CompareDiffers, CtlType, Controlling, Reconciling, Applying
    <3>2. CASE CompareMatches \/ StoppedForApply \/ BeginApply \/ Apply \/ Verified \/ SaveDevice
      BY <3>2 DEF CompareMatches, StoppedForApply, BeginApply, Apply, Verified, SaveDevice, ResumesTo, Publishes, Goes,
         CtlType, Controlling, Reconciling, Applying
    <3>3. CASE StartMatched \/ NothingToStart \/ ReconcileFails \/ VerifyFails
      BY <3>3 DEF StartMatched, NothingToStart, ReconcileFails, VerifyFails, ResumesTo, Fails, Goes, Ends, Idle,
         CtlType, Controlling, Reconciling, Applying
    <3> QED
      BY <1>7, <3>1, <3>2, <3>3 DEF Reconcile
  <2> QED
    BY <1>r, <2>1, <2>2, <2>3, CalmKeepsQuiet DEF Running, Reconciling, Applying, Saving
<1>8. CASE Tick \/ BootReconciles \/ Connect \/ SetUpFails \/ Connected \/ UnlinkFails \/ Finish
  <2>1. UNCHANGED <<client, conn, torn>>
    BY <1>8 DEF Tick, BootReconciles, Connect, SetUpFails, Connected, UnlinkFails, Finish, sup, world, past
  <2>2. ctl.pc \in {"idle", "boot", "setup", "connected", "unlink", "finish"}
    BY <1>8 DEF Tick, BootReconciles, Connect, SetUpFails, Connected, UnlinkFails, Finish, Asked, Resumes, Idle
  <2>3. ctl'.pc \in {"idle", "settings", "setup", "finish"}
    <3>1. CASE Tick \/ SetUpFails \/ Connected
      BY <3>1 DEF Tick, SetUpFails, Connected, Publishes, Goes, CtlType, Controlling
    <3>2. CASE BootReconciles
      BY <3>2 DEF BootReconciles, Goes, Ends, Idle, CtlType, Controlling
    <3>3. CASE UnlinkFails \/ Finish
      BY <3>3 DEF UnlinkFails, Finish, Ends, Idle
    <3>4. CASE Connect
      BY <3>4 DEF Connect, Asked, Idle
    <3> QED
      BY <1>8, <3>1, <3>2, <3>3, <3>4
  <2> QED
    BY <1>r, <2>1, <2>2, <2>3, CalmKeepsQuiet DEF Running, Saving
<1>9. CASE Pause \/ Resume \/ Disconnect
  <2>1. \/ ctl'.pc \in Saving
        \/ ctl'.pc = "disconnect_stop" /\ ctl'.wait = child
    BY <1>9 DEF Pause, Resume, Disconnect, Asked, Idle, Saving
  <2>2. UNCHANGED <<client, child>>
    BY <1>9 DEF Pause, Resume, Disconnect, world, past
  <2> QED
    BY <1>r, <2>1, <2>2 DEF Quiet, Known, Running, Saving, Remembers
<1>10. CASE SetUp
  BY <1>r, <1>10 DEF SetUp, Quiet, Remembers
<1>11. CASE SaveChange
  <2>1. UNCHANGED <<client, child, conn>>
    BY <1>11 DEF SaveChange, sup
  <2>2. CASE ctl'.pc \in {"pause_stop", "disconnect_stop"} /\ ctl'.wait = child
    BY <1>r, <2>1, <2>2 DEF Quiet, Known, Running, Saving, Remembers
  <2>3. CASE ctl.pc = "resume_save"
    BY <1>r, <2>1, <2>3 DEF Said, Quiet, Remembers
  <2> QED
    BY <1>11, <2>2, <2>3 DEF SaveChange, CtlType, Controlling
<1>12. CASE SaveFails
  <2>1. torn' /\ ctl'.pc = "idle"
    BY <1>12 DEF SaveFails, Ends, Idle
  <2> QED
    BY <1>r, <2>1 DEF Quiet, Remembers
<1>13. CASE PauseStopped \/ DisconnectStopped
  <2>1. ctl.wait = None /\ ctl.pc \in {"pause_stop", "disconnect_stop"} /\ UNCHANGED <<client, conn, torn>>
    BY <1>13 DEF PauseStopped, DisconnectStopped, sup, world, past
  <2>2. ~strayed /\ ~crossed /\ conn # "running" => Running = {}
    BY <1>r, <1>0, <2>1 DEF Quiet, Running, Remembers
  <2> QED
    BY <1>r, <2>1, <2>2 DEF Quiet, Running, Remembers
<1>14. CASE Unlink
  <2>1. ctl.pc = "unlink" /\ UNCHANGED <<client>> /\ ctl'.pc = "finish"
    BY <1>14 DEF Unlink, Publishes, Goes, CtlType, Controlling
  <2> QED
    BY <1>r, <2>1 DEF Said, Quiet, Running, Remembers
<1>16. CASE StatusFails
  <2>1. UNCHANGED <<client, conn, torn>>
    BY <1>16 DEF StatusFails, sup, world
  <2>2. ctl.pc \in Reconciling \cup {"connected", "finish"} /\ ctl'.pc \in {ctl.pc, "finish", "idle"}
    BY <1>16 DEF StatusFails, Fails, Goes, Ends, Idle, CtlType, Controlling, Reconciling, Applying
  <2> QED
    BY <1>r, <2>1, <2>2, CalmKeepsQuiet DEF Running, Reconciling, Applying, Saving
<1> QED
  BY <1>1, <1>2, <1>3, <1>4, <1>5, <1>6, <1>7, <1>8, <1>9, <1>10, <1>11, <1>12, <1>13, <1>14, <1>16
     DEF Next, Written, Controls, Process

-----------------------------------------------------------------------------
(* The theorems *)

SupervisorInv ==
    /\ CtlType /\ OtherTypes /\ BoundTypes
    /\ Known /\ Turns /\ Said /\ Leave /\ Quiet

\* The invariant holds at the first boot and every step keeps it.
LEMMA SupervisorInvariant == Spec => []SupervisorInv
<1>0. Limits
  BY SupervisorConstants DEF Limits
<1>1. Init => SupervisorInv
  <2> SUFFICES ASSUME Init PROVE SupervisorInv
    OBVIOUS
  <2>1. CtlType
    <3>1. Idle \in Controlling /\ "boot" \in Pcs
      BY <1>0 DEF Controlling, Idle, Pcs, None, Limits
    <3>2. [Idle EXCEPT !.pc = "boot"] \in Controlling
      BY <3>1 DEF Controlling
    <3> QED
      BY <3>2 DEF Init, CtlType
  <2>2. OtherTypes
    BY DEF Init, OtherTypes, None
  <2>3. BoundTypes
    BY <1>0 DEF Init, BoundTypes, Limits
  <2>4. Turns
    <3>1. queue \in Seq(Callers) /\ Len(queue) = 1
      BY DEF Init, Callers
    <3> QED
      BY <3>1 DEF Init, Turns, OneOf, NoneOf, Idle, Waits
  <2>5. Said /\ Leave /\ Quiet
    <3>1. queue = <<"ctl">> /\ ctl.pc = "boot"
      BY DEF Init, Idle
    <3>2. ~Starting
      BY <3>1 DEF Starting
    <3> QED
      BY <3>1, <3>2 DEF Init, Said, Suits, Leave, Quiet, Running, Saving
  <2> QED
    BY <2>1, <2>2, <2>3, <2>4, <2>5, KnownAtFirst DEF SupervisorInv
<1>2. ASSUME SupervisorInv, [Next]_vars PROVE SupervisorInv'
  <2>0. CtlType /\ OtherTypes /\ BoundTypes /\ ClientTypes /\ Known /\ Turns /\ Said /\ Leave /\ Quiet
    BY <1>2 DEF SupervisorInv, Known
  <2>1. CtlType'
    BY <1>0, <1>2, <2>0, CtlKeepsItsType DEF OtherTypes, BoundTypes
  <2>2. OtherTypes' /\ BoundTypes'
    BY <1>0, <1>2, <2>0, TheRestKeepsItsType, TheBoundsHold
  <2>3. Turns'
    <3>1. CASE Crash \/ Restart
      <4>1. queue' = <<"ctl">> /\ ctl'.pc = "boot"
        BY <3>1 DEF Crash, Restart, Reboot, Idle
      <4>2. queue' \in Seq(Callers) /\ Len(queue') = 1
        BY <4>1 DEF Callers
      <4> QED
        BY <4>1, <4>2 DEF Turns, OneOf, NoneOf, Waits
    <3>2. CASE ~Crash /\ ~Restart
      BY <1>2, <2>0, <3>2, StepsAreTurns, TurnKeepsTurns
    <3> QED
      BY <3>1, <3>2
  <2>4. Said' /\ Leave' /\ Quiet'
    BY <1>2, <2>0, SaidIsKept, LeaveIsKept, QuietIsKept
  <2> QED
    BY <1>2, <2>0, <2>1, <2>2, <2>3, <2>4, KnownIsKept DEF SupervisorInv
<1> QED
  BY <1>1, <1>2, PTL DEF Spec

\* Nothing in the supervisor leaves its type: the one control, the queue of status
\* writes, the shutdown, the clients and the counters (supervisor.mjs).
THEOREM SupervisorTypes == Spec => []TypeOK
<1>1. SupervisorInv => TypeOK
  BY TypeParts DEF SupervisorInv, Known, Turns
<1> QED
  BY <1>1, SupervisorInvariant, PTL

\* Whatever fails, ends or is restarted, between two controls what people asked for
\* last holds in memory, in connection.json and of the process: a paused or
\* disconnected vault has no client (pause, resume, disconnect, reconcileConfig).
THEOREM AskedIsObeyed == Spec => []Obeyed
<1>1. SupervisorInv => Obeyed
  BY DEF SupervisorInv, Obeyed, AtRest, Idle, Said, Suits, Quiet, Saving
<1> QED
  BY <1>1, SupervisorInvariant, PTL

\* Whatever people ask, whatever fails and however often clients end and are
\* restarted, the client that runs on the vault is the known one: a start tests
\* that there is none, and the exit of a known client is what forgets it.  Only two
\* starts between test and spawn at once defeat it (startSync, handleChildExit).
THEOREM OneClientAlways == Spec => []OneClient
<1>1. SupervisorInv => OneClient
  BY DEF SupervisorInv, Known, OneClient, Running
<1> QED
  BY <1>1, SupervisorInvariant, PTL

=============================================================================
