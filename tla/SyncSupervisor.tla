--------------------------- MODULE SyncSupervisor ---------------------------
(***************************************************************************)
(* services/obsidian-sync/supervisor.mjs: one Node process that keeps one  *)
(* `ob sync` client running over the vault.  Its functions run on one      *)
(* event loop and give it up at every await, so an action is what happens  *)
(* between two awaits.  At most one control runs at a time (controlBusy);  *)
(* beside it run restarts by the timer, exit events of the client and the  *)
(* shutdown.  Every status write waits in one queue, and whoever awaits it *)
(* goes on when it has been written: `queue` holds who goes on next.       *)
(*                                                                         *)
(* Left out: credentials, the fields of the status that only describe, the *)
(* growing delay of a restart, GET /status, the simulator.                 *)
(***************************************************************************)
EXTENDS Naturals, FiniteSets, Sequences

CONSTANTS
    MaxClients,   \* client processes that exist at once
    MaxRequests,  \* controls that people ask for
    MaxExits,     \* clients that end without being told to
    MaxSettings,  \* changes of the saved settings
    MaxFaults     \* failed commands and writes, crashes and shutdowns

ASSUME SupervisorConstants ==
    /\ MaxClients \in Nat \ {0}
    /\ {MaxRequests, MaxExits, MaxSettings, MaxFaults} \subseteq Nat

VARIABLES
    child,     \* the client process the supervisor knows of
    timer,     \* restartTimer is set
    paused,    \* status.paused
    conn,      \* connection: none, or its `paused`
    syncing,   \* status.syncing
    ctl,       \* the control that owns controlBusy
    shut,      \* how far the shutdown is, and the client it waits for
    queue,     \* who awaits which status write
    client,    \* the client processes
    file,      \* connection.json: none, or its `paused`
    settings,  \* version of settings.yaml
    config,    \* version the client's own configuration agrees with
    requests, exits, faults,
    strayed,   \* history: somebody took back the leave to start while a start awaited its status write
    crossed,   \* history: a start passed its test while another one awaited its status write
    torn,      \* history: connection.json could not be written after a change
    failed     \* history: the last reconcileConfig threw, before or after it stopped the client

sup    == <<child, timer, paused, conn, syncing>>
world  == <<client, file, settings, config>>
bounds == <<requests, exits, faults>>
past   == <<strayed, crossed, torn, failed>>
vars   == <<sup, ctl, shut, queue, world, bounds, past>>

Clients == 1..MaxClients
None == 0
Running == {p \in Clients : client[p] = "running"}
Stopping == shut.pc # "no"

Idle == [pc |-> "idle", was |-> FALSE, wait |-> None, desired |-> 0, live |-> FALSE]

\* What reconcileConfig does between its stop of the client and a verified apply.
Applying == {"stop", "configuring", "apply", "verify", "verified", "save"}
\* Inside the try of reconcileConfig.
Reconciling == Applying \cup {"settings", "refresh", "compare", "matched", "start"}
Saving == {"pause_save", "resume_save", "disconnect_save"}
Stops == {"stop", "pause_stop", "disconnect_stop"}
Pcs == {"idle", "boot", "setup", "connected", "unlink", "finish"}
          \cup Reconciling \cup Saving \cup {"pause_stop", "disconnect_stop"}

TypeOK ==
    /\ child \in Clients \cup {None}
    /\ {timer, paused, syncing, strayed, crossed, torn} \subseteq BOOLEAN
    /\ {conn, file} \subseteq {"none", "paused", "running"}
    /\ ctl \in [pc : Pcs, was : BOOLEAN, wait : Clients \cup {None}, desired : 0..MaxSettings + 1, live : BOOLEAN]
    /\ shut \in [pc : {"no", "stop", "publish", "closing"}, wait : Clients \cup {None}]
    /\ queue \in Seq({"start", "restart", "ctl", "shut"})
    /\ client \in [Clients -> {"free", "running", "dead"}]
    /\ settings \in 1..MaxSettings + 1 /\ config \in 0..MaxSettings + 1
    /\ requests \in 0..MaxRequests /\ exits \in 0..MaxExits /\ faults \in 0..MaxFaults
    /\ failed \in {"no", "before", "after"}

\* The first boot, before anybody connected: its reconcileConfig owns
\* controlBusy before anybody can ask.
Init ==
    /\ file = "none" /\ settings = 1 /\ config = 0
    /\ requests = 0 /\ exits = 0 /\ faults = 0
    /\ child = None /\ timer = FALSE /\ syncing = FALSE
    /\ conn = "none" /\ paused = FALSE
    /\ ctl = [Idle EXCEPT !.pc = "boot"] /\ queue = <<"ctl">>
    /\ shut = [pc |-> "no", wait |-> None]
    /\ client = [p \in Clients |-> "free"]
    /\ strayed = FALSE /\ crossed = FALSE /\ torn = FALSE /\ failed = "before"

Fault == faults < MaxFaults /\ faults' = faults + 1
Goes(pc) == ctl' = [ctl EXCEPT !.pc = pc]
\* publishStatus by the control: it goes on at pc when the status is written.
Publishes(pc) == Goes(pc) /\ queue' = Append(queue, "ctl")
Ends == ctl' = Idle

-----------------------------------------------------------------------------
(* The client process and startSync *)

MayRun == conn # "none" /\ ~paused /\ ~Stopping

MayStart == MayRun /\ child = None

\* Between its test and its spawn a start awaits a status write, and tests no more.
Starting == ctl.pc = "start" \/ \E i \in 1..Len(queue) : queue[i] = "start"

Passes == MayStart /\ crossed' = (crossed \/ Starting)
TakesBack == strayed' = (strayed \/ Starting)

Spawns ==
    \E p \in Clients :
        /\ client[p] = "free"
        /\ client' = [client EXCEPT ![p] = "running"]
        /\ child' = p
        /\ syncing' = TRUE

ClientExits(p) ==
    /\ client[p] = "running"
    /\ \/ p \in {ctl.wait, shut.wait} /\ exits' = exits
       \/ p \notin {ctl.wait, shut.wait} /\ exits < MaxExits /\ exits' = exits + 1
    /\ client' = [client EXCEPT ![p] = "dead"]
    /\ UNCHANGED <<sup, ctl, shut, queue, file, settings, config, requests, faults, past>>

\* The exit event reaches handleChildExit and whoever waits in stopChild.
ExitEvent(p) ==
    /\ client[p] = "dead"
    /\ client' = [client EXCEPT ![p] = "free"]
    /\ ctl' = [ctl EXCEPT !.wait = IF @ = p THEN None ELSE @]
    /\ shut' = [shut EXCEPT !.wait = IF @ = p THEN None ELSE @]
    /\ \/ /\ child = p
          /\ child' = None /\ syncing' = FALSE
          /\ queue' = IF Stopping \/ paused THEN queue ELSE Append(queue, "restart")
       \/ child # p /\ UNCHANGED <<child, syncing, queue>>
    /\ UNCHANGED <<timer, paused, conn, file, settings, config, bounds, past>>

TimerFires ==
    /\ timer
    /\ timer' = FALSE
    /\ \/ Passes /\ syncing' = FALSE /\ queue' = Append(queue, "start")
       \/ ~MayStart /\ UNCHANGED <<syncing, queue, crossed>>
    /\ UNCHANGED <<child, paused, conn, ctl, shut, world, bounds, strayed, torn, failed>>

StartWritten ==
    /\ queue # <<>> /\ Head(queue) = "start"
    /\ queue' = Tail(queue)
    /\ Spawns
    /\ UNCHANGED <<timer, paused, conn, ctl, shut, file, settings, config, bounds, past>>

\* The end of handleChildExit: scheduleRestart.
RestartWritten ==
    /\ queue # <<>> /\ Head(queue) = "restart"
    /\ queue' = Tail(queue)
    /\ timer' = (timer \/ MayRun)
    /\ UNCHANGED <<child, paused, conn, syncing, ctl, shut, world, bounds, past>>

\* The SIGTERM of stopChild may be ignored; after two seconds comes SIGKILL,
\* and stopChild returns without waiting for the exit.
Killed(p) == client' = [client EXCEPT ![p] = IF @ = "running" THEN "dead" ELSE @]
-----------------------------------------------------------------------------
(* reconcileConfig *)

ReadSettings ==
    /\ ctl.pc = "settings"
    /\ ctl' = [ctl EXCEPT !.pc = "refresh", !.desired = settings]
    /\ UNCHANGED <<sup, shut, queue, world, bounds, past>>

\* refreshClientStatus: a report that cannot be had is no live report.
Report(from, to) ==
    /\ ctl.pc = from
    /\ \E live \in BOOLEAN :
        /\ live \/ faults < MaxFaults
        /\ faults' = IF live THEN faults ELSE faults + 1
        /\ ctl' = [ctl EXCEPT !.pc = to, !.live = live]
    /\ queue' = Append(queue, "ctl")
    /\ UNCHANGED <<sup, shut, world, requests, exits, past>>

Matches == ctl.live /\ config = ctl.desired

Resumes(pc) == queue # <<>> /\ Head(queue) = "ctl" /\ ctl.pc = pc /\ queue' = Tail(queue)
\* As Resumes, and the status is published again.
ResumesTo(pc, next) ==
    /\ queue # <<>> /\ Head(queue) = "ctl" /\ ctl.pc = pc
    /\ queue' = Append(Tail(queue), "ctl")
    /\ Goes(next)

CompareMatches ==
    /\ Matches
    /\ ResumesTo("compare", "matched")
    /\ failed' = "no"
    /\ UNCHANGED <<sup, shut, world, bounds, strayed, crossed, torn>>

\* The temporary pause keeps the exit of the client from being a surprise.
CompareDiffers ==
    /\ ~Matches
    /\ Resumes("compare")
    /\ timer' = FALSE
    /\ paused' = TRUE /\ TakesBack
    /\ ctl' = [ctl EXCEPT !.pc = "stop", !.was = paused, !.wait = child]
    /\ UNCHANGED <<child, conn, syncing, shut, world, bounds, crossed, torn, failed>>

StoppedForApplyPaused ==
    /\ ctl.pc = "stop" /\ ctl.wait = None
    /\ syncing' = FALSE
    /\ Publishes("configuring")
    /\ UNCHANGED <<child, timer, paused, conn, shut, world, bounds, past>>

StoppedForApply ==
    /\ ctl.pc = "stop" /\ ctl.wait = None
    /\ paused' = ctl.was
    /\ syncing' = FALSE
    /\ Publishes("configuring")
    /\ UNCHANGED <<child, timer, conn, shut, world, bounds, past>>

BeginApply ==
    /\ Resumes("configuring") /\ Goes("apply")
    /\ UNCHANGED <<sup, shut, world, bounds, past>>

Apply ==
    /\ ctl.pc = "apply"
    /\ config' = ctl.desired
    /\ Goes("verify")
    /\ UNCHANGED <<sup, shut, queue, client, file, settings, bounds, past>>

Verified ==
    /\ Matches
    /\ Resumes("verified") /\ Goes("save")
    /\ UNCHANGED <<sup, shut, world, bounds, past>>

SaveDevice ==
    /\ ctl.pc = "save"
    /\ file' = conn
    /\ failed' = "no"
    /\ Publishes("matched")
    /\ UNCHANGED <<sup, shut, client, settings, config, bounds, strayed, crossed, torn>>

\* if (!status.paused) await startSync()
StartMatched ==
    /\ Passes
    /\ ResumesTo("matched", "start")
    /\ syncing' = FALSE
    /\ UNCHANGED <<child, timer, paused, conn, shut, world, bounds, strayed, torn, failed>>

SpawnMatched ==
    /\ ResumesTo("start", "finish")
    /\ Spawns
    /\ UNCHANGED <<timer, paused, conn, shut, file, settings, config, bounds, past>>

NothingToStart ==
    /\ ~MayStart
    /\ Resumes("matched") /\ Ends
    /\ UNCHANGED <<sup, shut, world, bounds, past>>

\* The catch of reconcileConfig publishes config_error.  A sync-config that
\* failed may have changed the client's configuration all the same.
Fails ==
    /\ failed' = IF ctl.pc \in Applying \ {"stop"} THEN "after" ELSE "before"
    /\ Goes("finish")

ReconcileFails ==
    /\ Fault
    /\ \/ ctl.pc \in {"settings", "save"} /\ UNCHANGED config
       \/ ctl.pc = "apply" /\ config' \in {config, ctl.desired}
    /\ Fails
    /\ queue' = Append(queue, "ctl")
    /\ UNCHANGED <<sup, shut, client, file, settings, requests, exits, strayed, crossed, torn>>

\* "Configuration did not match after apply"
VerifyFails ==
    /\ ~Matches
    /\ queue # <<>> /\ Head(queue) = "ctl" /\ ctl.pc = "verified"
    /\ queue' = Append(Tail(queue), "ctl")
    /\ Fails
    /\ UNCHANGED <<sup, shut, world, bounds, strayed, crossed, torn>>

Reconcile ==
    \/ ReadSettings \/ Report("refresh", "compare") \/ Report("verify", "verified")
    \/ CompareMatches \/ CompareDiffers \/ StoppedForApply \/ BeginApply \/ Apply
    \/ Verified \/ SaveDevice \/ StartMatched \/ SpawnMatched \/ NothingToStart
    \/ ReconcileFails \/ VerifyFails

-----------------------------------------------------------------------------
(* The controls *)

\* controlBusy admits one control; it begins at pc, stopping proc if there is one.
Asked(pc, proc) ==
    /\ ctl = Idle
    /\ requests < MaxRequests /\ requests' = requests + 1
    /\ ctl' = [Idle EXCEPT !.pc = pc, !.wait = proc]

\* The interval of 15 seconds, and POST /configure.
Tick ==
    /\ ctl = Idle /\ ~Stopping /\ conn # "none"
    /\ Goes("settings")
    /\ UNCHANGED <<sup, shut, queue, world, bounds, past>>

BootReconciles ==
    /\ Resumes("boot")
    /\ IF conn = "none" THEN Ends ELSE Goes("settings")
    /\ UNCHANGED <<sup, shut, world, bounds, past>>

Connect ==
    /\ conn = "none"
    /\ Asked("setup", None)
    /\ UNCHANGED <<sup, shut, queue, world, exits, faults, past>>

\* login, create, list and setup, then the connection file; sync-setup leaves
\* the client with a configuration of its own.
SetUp ==
    /\ ctl.pc = "setup"
    /\ config' = 0
    /\ file' = "running" /\ conn' = "running" /\ paused' = FALSE
    /\ failed' = "before" /\ torn' = FALSE
    /\ Publishes("connected")
    /\ UNCHANGED <<child, timer, syncing, shut, client, settings, bounds, strayed, crossed>>

SetUpFails ==
    /\ ctl.pc = "setup"
    /\ Fault
    /\ Publishes("finish")
    /\ UNCHANGED <<sup, shut, world, requests, exits, past>>

Connected ==
    /\ Resumes("connected") /\ Goes("settings")
    /\ UNCHANGED <<sup, shut, world, bounds, past>>

PauseForgets ==
    /\ conn # "none"
    /\ Asked("pause_save", None)
    /\ paused' = TRUE /\ timer' = FALSE /\ TakesBack
    /\ UNCHANGED <<child, conn, syncing, shut, queue, world, exits, faults, crossed, torn, failed>>

Pause ==
    /\ conn # "none"
    /\ Asked("pause_save", None)
    /\ conn' = "paused" /\ paused' = TRUE /\ timer' = FALSE /\ TakesBack
    /\ UNCHANGED <<child, syncing, shut, queue, world, exits, faults, crossed, torn, failed>>

Resume ==
    /\ conn # "none"
    /\ Asked("resume_save", None)
    /\ conn' = "running" /\ paused' = FALSE
    /\ UNCHANGED <<child, timer, syncing, shut, queue, world, exits, faults, past>>

\* Allowed without a connection too: a failed setup can leave an account token.
Disconnect ==
    /\ \/ conn # "none" /\ Asked("disconnect_save", None) /\ conn' = "paused"
       \/ conn = "none" /\ Asked("disconnect_stop", child) /\ conn' = conn
    /\ timer' = FALSE /\ paused' = TRUE /\ TakesBack
    /\ UNCHANGED <<child, syncing, shut, queue, world, exits, faults, crossed, torn, failed>>

\* saveConnection, and the SIGTERM that follows in pause and disconnect.
SaveChange ==
    /\ ctl.pc \in Saving
    /\ file' = conn
    /\ torn' = FALSE
    /\ \/ ctl.pc = "pause_save" /\ ctl' = [ctl EXCEPT !.pc = "pause_stop", !.wait = child]
       \/ ctl.pc = "disconnect_save" /\ ctl' = [ctl EXCEPT !.pc = "disconnect_stop", !.wait = child]
       \/ ctl.pc = "resume_save" /\ Goes("settings")
    /\ UNCHANGED <<sup, shut, queue, client, settings, config, bounds, strayed, crossed, failed>>

\* The exception ends the control; memory keeps what the file does not say.
SaveFails ==
    /\ ctl.pc \in Saving
    /\ Fault
    /\ torn' = TRUE
    /\ failed' = IF failed = "no" THEN "before" ELSE failed
    /\ Ends
    /\ UNCHANGED <<sup, shut, queue, world, requests, exits, strayed, crossed>>

PauseStopped ==
    /\ ctl.pc = "pause_stop" /\ ctl.wait = None
    /\ syncing' = FALSE
    /\ Publishes("finish")
    /\ UNCHANGED <<child, timer, paused, conn, shut, world, bounds, past>>

DisconnectStopped ==
    /\ ctl.pc = "disconnect_stop" /\ ctl.wait = None
    /\ Goes("unlink")
    /\ UNCHANGED <<sup, shut, queue, world, bounds, past>>

\* sync-unlink, logout, and the connection is forgotten.
Unlink ==
    /\ ctl.pc = "unlink"
    /\ file' = "none" /\ conn' = "none" /\ paused' = FALSE /\ syncing' = FALSE
    /\ torn' = FALSE /\ TakesBack
    /\ Publishes("finish")
    /\ UNCHANGED <<child, timer, shut, client, settings, config, bounds, crossed, failed>>

UnlinkFails ==
    /\ ctl.pc = "unlink"
    /\ Fault
    /\ Ends
    /\ UNCHANGED <<sup, shut, queue, world, requests, exits, past>>

\* Two seconds after the SIGTERM: SIGKILL, and stopChild is done.
StopTimesOut ==
    /\ ctl.pc \in Stops /\ ctl.wait # None
    /\ Killed(ctl.wait)
    /\ ctl' = [ctl EXCEPT !.wait = None]
    /\ UNCHANGED <<sup, shut, queue, file, settings, config, bounds, past>>

Finish ==
    /\ Resumes("finish") /\ Ends
    /\ UNCHANGED <<sup, shut, world, bounds, past>>

Controls ==
    \/ BootReconciles \/ Connect \/ SetUp \/ SetUpFails \/ Connected \/ Pause \/ Resume
    \/ Disconnect \/ SaveChange \/ SaveFails \/ PauseStopped \/ DisconnectStopped
    \/ Unlink \/ UnlinkFails \/ StopTimesOut \/ Finish

-----------------------------------------------------------------------------
(* Failed status writes, shutdown and restart *)

\* The write fails that the head of the queue awaits.  After a report it is
\* taken for a report that could not be had; elsewhere in reconcileConfig for
\* a failed apply.  In handleChildExit nobody catches it, which is Crash.
StartDropped ==
    /\ queue # <<>> /\ Head(queue) = "start"
    /\ Fault
    /\ queue' = Tail(queue)
    /\ failed' = IF failed = "no" THEN "before" ELSE failed
    /\ UNCHANGED <<sup, ctl, shut, world, requests, exits, strayed, crossed, torn>>

StatusFails ==
    /\ queue # <<>> /\ Head(queue) = "ctl"
    /\ Fault
    /\ \/ /\ ctl.pc \in {"compare", "verified"} /\ ctl.live
          /\ queue' = Append(Tail(queue), "ctl")
          /\ ctl' = [ctl EXCEPT !.live = FALSE]
          /\ UNCHANGED failed
       \/ /\ ctl.pc \in Reconciling /\ (ctl.pc \in {"compare", "verified"} => ~ctl.live)
          /\ queue' = Append(Tail(queue), "ctl")
          /\ Fails
       \/ /\ ctl.pc = "connected"
          /\ queue' = Append(Tail(queue), "ctl")
          /\ Goes("finish")
          /\ UNCHANGED failed
       \/ /\ ctl.pc = "finish"
          /\ queue' = Tail(queue)
          /\ Ends
          /\ UNCHANGED failed
    /\ UNCHANGED <<sup, shut, world, requests, exits, strayed, crossed, torn>>

Shutdown ==
    /\ ~Stopping
    /\ Fault
    /\ shut' = [pc |-> "stop", wait |-> child]
    /\ timer' = FALSE /\ TakesBack
    /\ UNCHANGED <<child, paused, conn, syncing, ctl, queue, world, requests, exits, crossed, torn, failed>>

ShutTimesOut ==
    /\ shut.pc = "stop" /\ shut.wait # None
    /\ Killed(shut.wait)
    /\ shut' = [shut EXCEPT !.wait = None]
    /\ UNCHANGED <<sup, ctl, queue, file, settings, config, bounds, past>>

ShutStopped ==
    /\ shut.pc = "stop" /\ shut.wait = None
    /\ shut' = [shut EXCEPT !.pc = "publish"]
    /\ syncing' = FALSE
    /\ queue' = Append(queue, "shut")
    /\ UNCHANGED <<child, timer, paused, conn, ctl, world, bounds, past>>

ShutWritten ==
    /\ shut.pc = "publish"
    /\ queue # <<>> /\ Head(queue) = "shut"
    /\ queue' = Tail(queue)
    /\ shut' = [shut EXCEPT !.pc = "closing"]
    /\ UNCHANGED <<sup, ctl, world, bounds, past>>

\* The container ends with the supervisor, and its clients with it; then
\* loadConnection: connection.json decides.
Reboot ==
    /\ child' = None /\ timer' = FALSE /\ syncing' = FALSE
    /\ conn' = file /\ paused' = (file = "paused")
    /\ ctl' = [Idle EXCEPT !.pc = "boot"] /\ queue' = <<"ctl">>
    /\ shut' = [pc |-> "no", wait |-> None]
    /\ client' = [p \in Clients |-> "free"]
    /\ strayed' = FALSE /\ crossed' = FALSE /\ torn' = FALSE /\ failed' = "before"
    /\ UNCHANGED <<file, settings, config, requests, exits>>
Crash == Fault /\ Reboot
Restart == shut.pc = "closing" /\ Reboot /\ UNCHANGED faults

SettingsSaved ==
    /\ settings <= MaxSettings
    /\ settings' = settings + 1
    /\ UNCHANGED <<sup, ctl, shut, queue, client, file, config, bounds, past>>

-----------------------------------------------------------------------------
Written == StartWritten \/ RestartWritten \/ ShutWritten
Process ==
    \/ StartDropped \/ StatusFails \/ Shutdown \/ ShutTimesOut \/ ShutStopped \/ Crash \/ Restart

Next ==
    \/ \E p \in Clients : ClientExits(p) \/ ExitEvent(p)
    \/ TimerFires \/ Written \/ Reconcile \/ Tick \/ Controls \/ Process \/ SettingsSaved

\* The event loop runs what is ready; commands end, for they are killed after a
\* minute; the interval comes round.  Nobody is obliged to ask for anything.
Fairness ==
    /\ WF_vars(TimerFires) /\ WF_vars(Written) /\ WF_vars(Reconcile) /\ WF_vars(Tick)
    /\ WF_vars(BootReconciles \/ SetUp \/ Connected \/ SaveChange \/ PauseStopped \/ DisconnectStopped
                 \/ Unlink \/ StopTimesOut \/ Finish)
    /\ WF_vars(ShutTimesOut \/ ShutStopped \/ Restart)
    /\ \A p \in Clients : WF_vars(ExitEvent(p))

Spec == Init /\ [][Next]_vars /\ Fairness

-----------------------------------------------------------------------------
AtRest == ctl = Idle /\ ~Stopping

\* No restart, control, failure or reboot leaves two clients on one vault: the
\* client that runs is the one the supervisor knows, which is the one that pause,
\* disconnect and shutdown can stop.  Only two starts that both tested before
\* either spawned can defeat it: a restart by the timer and the control that found
\* the settings matching, one awaiting its status write (startSync).
OneClient == ~crossed => Running \subseteq {child}

\* Whenever no control is under way, what people asked for last is what holds in
\* memory, in connection.json and of the process: paused or disconnected means
\* that no client runs and a reboot will not start one (pause, resume,
\* disconnect, reconcileConfig's temporary pause, late exit events).
Obeyed ==
    AtRest /\ ~torn /\ ~strayed /\ ~crossed =>
        /\ file = conn
        /\ conn = "paused" => paused
        /\ conn = "running" => ~paused
        /\ conn # "running" => Running = {}

\* A saved connection that is not paused gets its client in the end, whatever
\* failed before: a crash, a command, a write, a client that will not stop.
Wanted == conn = "running" /\ ~Stopping
ComesBack == Wanted ~> Running # {} \/ ~Wanted

\* "A failed apply leaves sync stopped until a verified retry" (supervisor.mjs:282-283).
FailedApplyLeavesStopped == failed = "after" => Running = {}

=============================================================================
