----------------------------- MODULE XrayApply -----------------------------
(***************************************************************************)
(* How the panel applies configuration to xray: the `xray_apply` mutex,    *)
(* the handlers that start, stop and restart the process, the hot routing  *)
(* path and its recovery restart, the geofile refresh, and the in-memory   *)
(* markers that tell the operator whether the live router is in step.      *)
(*                                                                         *)
(* A task stands for one handler future (or background task) of the panel; *)
(* `pc` names the await point it is suspended at, so that everything the   *)
(* other tasks may do there can happen.  A handler's future is dropped     *)
(* when its connection closes (Drop); work handed to `uncancellable` runs  *)
(* on (`shielded`) and only loses its caller (`gone`).                     *)
(***************************************************************************)
EXTENDS Naturals, FiniteSets

CONSTANTS
    Tasks,            \* slots for handler futures and background tasks
    Kinds,            \* the handlers clients may call
    Rules,            \* routing rule sets an operator can save
    IPv4Rules,        \* those whose rules target the direct-ipv4 outbound
    RefusedRules,     \* those xray refuses to build
    UnbuildableRules, \* those the panel cannot encode for the router
    InitRules,        \* the rule set stored when the panel starts
    ConcurrentSaves,  \* whether two settings saves may overlap
    RecordLate,       \* whether a task may be preempted before it stores an outcome
    ZombieVisible,    \* whether pid_alive sees an exited, unreaped child
    Faults,           \* the kinds of failure that may happen
    MaxRequests,      \* bound: requests made
    MaxFaults,        \* bound: failures
    MaxDrops,         \* bound: connections closed under a handler
    MaxCrashes        \* bound: exits of the panel process

ASSUME RulesAssumption ==
    /\ IPv4Rules \subseteq Rules
    /\ RefusedRules \subseteq Rules
    /\ UnbuildableRules \subseteq Rules
    /\ InitRules \in Rules \ (RefusedRules \cup UnbuildableRules)
    /\ "wiped" \notin Rules

ASSUME TasksAssumption == "free" \notin Tasks

ASSUME BoundsAssumption ==
    /\ {MaxRequests, MaxFaults, MaxDrops, MaxCrashes} \subseteq Nat
    /\ {ConcurrentSaves, RecordLate, ZombieVisible} \subseteq BOOLEAN
    /\ Faults \subseteq {"db", "regen", "push", "reply", "spawn", "kill", "unpack",
                   "swap", "exit"}
    /\ Kinds \subseteq {"Save", "Start", "Stop", "Restart", "Install",
                        "Geo", "GeoNightly"}

VARIABLES
    lock,   \* holder of xray_apply
    pc,     \* the await point every task is suspended at
    task,   \* what every task carries along
    db,     \* the routing rules stored in panel_settings
    disk,   \* config.json
    proc,   \* the xray process and what lives in its memory
    ctl,    \* XrayState of the controller: the pid it tracks
    marks,  \* routing_stale, routing_out_of_sync, live_ipv4_outbound, geo_apply_pending
    budget  \* what is left of the bounds

vars == <<lock, pc, task, db, disk, proc, ctl, marks, budget>>

Free    == "free"
Wiped   == "wiped"   \* the router after a refused AddRule: no rules, no api pin
NoPid   == 0
Idle    == "idle"

HttpKinds  == {"Save", "Start", "Stop", "Restart", "Install", "Geo"}
BootKinds  == {"BootApply", "BootReconcile"}
AllKinds   == HttpKinds \cup {"GeoNightly"} \cup BootKinds
Appliers   == {"Save", "BootApply"}
Starters   == {"Start", "Install"}
GeoKinds   == {"Geo", "GeoNightly"}

Steps == {Idle, "write", "lock", "apply", "push", "answer", "regen", "take",
          "kill", "unpack", "spawn", "check", "note", "resync", "swap",
          "settle", "release", "record"}

NoTask == [kind |-> "Stop", shielded |-> FALSE, gone |-> FALSE,
           rules |-> InitRules, changed |-> FALSE, regen |-> "none",
           ipv4 |-> FALSE, wiped |-> FALSE, up |-> FALSE, running |-> FALSE,
           victim |-> NoPid, reply |-> "none"]

Busy(t)    == pc[t] # Idle
Quiet      == \A t \in Tasks : ~Busy(t)
Kind(t)    == task[t].kind
Fails(f)   == f \in Faults /\ budget.faults > 0
SpendFault == budget' = [budget EXCEPT !.faults = @ - 1]

At(t, l)   == pc[t] = l
Goto(t, l) == pc' = [pc EXCEPT ![t] = l]
Finish(t)  == pc' = [pc EXCEPT ![t] = Idle] /\ task' = [task EXCEPT ![t] = NoTask]

\* XrayController::status: a tracked pid that is still alive.
Running == /\ ctl.pid # NoPid
           /\ \/ proc.alive /\ proc.pid = ctl.pid
              \/ ZombieVisible /\ ctl.owned

InForce == [rules |-> disk.rules, svc |-> disk.svc,
            ipv4 |-> disk.rules \in IPv4Rules]

-----------------------------------------------------------------------------
\* Whether a process the panel adopts outlives SIGTERM and SIGKILL: it may be
\* another user's. A child of the panel is waited for until it is gone.
Immunities == {FALSE, "kill" \in Faults}

(* Boot. The process may already run on an older file than the rules in the *)
(* database, from before the panel declared RoutingService (svc).           *)
Init ==
    /\ lock = Free
    /\ pc = [t \in Tasks |-> Idle]
    /\ task = [t \in Tasks |-> NoTask]
    /\ db = InitRules
    /\ \E svc \in BOOLEAN :
          /\ disk = [rules |-> InitRules, svc |-> svc]
          /\ \E immune \in Immunities :
                proc = [alive |-> TRUE, pid |-> 1, rules |-> InitRules, svc |-> svc,
                        ipv4 |-> InitRules \in IPv4Rules, pushed |-> TRUE,
                        geo |-> TRUE, immune |-> immune]
    /\ ctl = [pid |-> 1, owned |-> FALSE]
    /\ marks = [stale |-> FALSE, retry |-> FALSE,
                ipv4 |-> InitRules \in IPv4Rules, pending |-> FALSE]
    /\ budget = [requests |-> MaxRequests, faults |-> MaxFaults,
                 drops |-> MaxDrops, crashes |-> MaxCrashes]

\* A client calls a handler, or the nightly timer fires. The body of a restart
\* runs on a task of its own from the start; a save has read the stored row.
Request(t, k, r) ==
    /\ ~Busy(t)
    /\ budget.requests > 0
    /\ k = "Save" => ConcurrentSaves \/ \A s \in Tasks : Busy(s) => Kind(s) # "Save"
    /\ Goto(t, IF k = "Save" THEN "write" ELSE "lock")
    /\ task' = [task EXCEPT ![t] = [NoTask EXCEPT !.kind = k,
                    !.shielded = k = "Restart",
                    !.rules = IF k = "Save" THEN r ELSE InitRules,
                    !.changed = k = "Save" /\ r # db]]
    /\ budget' = [budget EXCEPT !.requests = @ - 1]
    /\ UNCHANGED <<lock, db, disk, proc, ctl, marks>>

\* update_panel commits the row, then decides whether the router needs a push.
WriteRow(t) ==
    /\ At(t, "write")
    /\ db' = task[t].rules
    /\ IF task[t].changed \/ marks.retry
       THEN Goto(t, "lock") /\ UNCHANGED task
       ELSE Finish(t)
    /\ UNCHANGED <<lock, disk, proc, ctl, marks, budget>>

FirstStep == [Save |-> "apply", BootApply |-> "apply", BootReconcile |-> "resync",
              Start |-> "regen", Restart |-> "regen", Stop |-> "take",
              Geo |-> "swap", GeoNightly |-> "swap"]

\* Mutant: stop kills the process without taking the mutex.
AcquireUnlessStop(t) ==
    /\ At(t, "lock")
    /\ lock = Free \/ Kind(t) = "Stop"
    /\ lock' = IF Kind(t) = "Stop" THEN lock ELSE t
    /\ Goto(t, IF Kind(t) = "Install"
               THEN IF Running THEN "take" ELSE "unpack"
               ELSE FirstStep[Kind(t)])
    /\ task' = [task EXCEPT ![t].running = Running]
    /\ UNCHANGED <<db, disk, proc, ctl, marks, budget>>

Acquire(t) ==
    /\ At(t, "lock")
    /\ lock = Free
    /\ lock' = t
    /\ Goto(t, IF Kind(t) = "Install"
               THEN IF Running THEN "take" ELSE "unpack"
               ELSE FirstStep[Kind(t)])
    /\ task' = [task EXCEPT ![t].running = Running]
    /\ UNCHANGED <<db, disk, proc, ctl, marks, budget>>

-----------------------------------------------------------------------------
(* The hot routing path.                                                    *)

\* Mutant: the outcome is written over that of the regeneration.
OutcomeOverRegen(t, reply) ==
    Goto(t, "release") /\ task' = [task EXCEPT ![t].regen = reply]

\* What the hot path tells the operator: rules live, worth retrying, or not.
Outcome(t, reply) ==
    Goto(t, "release") /\ task' = [task EXCEPT ![t].reply = reply]

\* Mutant: the rebuild runs inline, in the caller's future.
RebuildInline(t, wiped) ==
    /\ Goto(t, "regen")
    /\ task' = [task EXCEPT ![t].wiped = wiped]

\* Hand the rebuild to a spawned task.
Rebuild(t, wiped) ==
    /\ Goto(t, "regen")
    /\ task' = [task EXCEPT ![t].shielded = TRUE, ![t].wiped = wiped]

\* Mutant: the marker is not consulted.
LacksIPv4Unasked == db \in {}

\* Only the bootstrap config creates the direct-ipv4 outbound.
LacksIPv4 == db \in IPv4Rules /\ ~marks.ipv4

ApplyRouting(t) ==
    /\ At(t, "apply")
    /\ \/ /\ ~Running
          /\ Outcome(t, "retry")
          /\ UNCHANGED budget
       \/ /\ Running
          /\ Fails("db")
          /\ Outcome(t, "retry")
          /\ SpendFault
       \/ /\ Running
          /\ LacksIPv4
          /\ Rebuild(t, FALSE)
          /\ UNCHANGED budget
       \/ /\ Running
          /\ ~LacksIPv4
          /\ IF db \in UnbuildableRules
             THEN Outcome(t, "refused")
             ELSE Goto(t, "push") /\ task' = [task EXCEPT ![t].rules = db]
          /\ UNCHANGED budget
    /\ UNCHANGED <<lock, db, disk, proc, ctl, marks>>

Replies(t, reply) ==
    Goto(t, "answer") /\ task' = [task EXCEPT ![t].reply = reply]

\* AddRule(shouldAppend = false) as xray handles it: the old set is cleared
\* before the new one is built.
AddRule(rules) ==
    [proc EXCEPT !.rules = IF rules \in RefusedRules THEN Wiped ELSE rules]

\* Without the api pin a new connection does not reach the API any more; a
\* connection that is still open does. A call that ends neither with an answer
\* of xray's nor with a dead connection may have been handled or not.

Push(t) ==
    /\ At(t, "push")
    /\ \/ /\ proc.alive /\ proc.svc
          /\ proc' = AddRule(task[t].rules)
          /\ Replies(t, IF task[t].rules \in RefusedRules THEN "rejected" ELSE "live")
          /\ UNCHANGED budget
       \/ /\ proc.alive /\ ~proc.svc
          /\ Replies(t, "unsupported")
          /\ UNCHANGED <<proc, budget>>
       \/ /\ ~proc.alive \/ proc.rules = Wiped
          /\ Replies(t, "retry")
          /\ UNCHANGED <<proc, budget>>
       \/ /\ Fails("push")
          /\ Replies(t, "retry")
          /\ SpendFault
          /\ UNCHANGED proc
       \/ /\ Fails("reply")
          /\ Replies(t, "ambiguous")
          /\ SpendFault
          /\ \/ UNCHANGED proc
             \/ proc.alive /\ proc.svc /\ proc' = AddRule(task[t].rules)
    /\ UNCHANGED <<lock, db, disk, ctl, marks>>

\* Mutants: an undelivered push restarts; a refused one is taken for harmless.
RestartAlways == {"rejected", "ambiguous", "unsupported", "retry"}
NothingWiped  == {}

\* classify_push_code and recovery: which failures call for a restart, and which
\* of them are taken to have left the router empty.
RestartReplies == {"rejected", "ambiguous", "unsupported"}
WipedReplies   == {"rejected", "ambiguous"}

Answer(t) ==
    /\ At(t, "answer")
    /\ \/ /\ task[t].reply \in WipedReplies
          /\ Rebuild(t, TRUE)
       \/ /\ task[t].reply \in RestartReplies \ WipedReplies
          /\ Rebuild(t, FALSE)
       \/ /\ task[t].reply \notin RestartReplies
          /\ Goto(t, "release")
          /\ UNCHANGED task
    /\ UNCHANGED <<lock, db, disk, proc, ctl, marks, budget>>

-----------------------------------------------------------------------------
(* Writing config.json: validated, published by rename.                     *)

Regen(t) ==
    /\ At(t, "regen")
    /\ db \notin RefusedRules \cup UnbuildableRules
    /\ disk' = [rules |-> db, svc |-> TRUE]
    /\ Goto(t, IF Kind(t) \in Starters THEN "spawn" ELSE "take")
    /\ task' = [task EXCEPT ![t].regen = "ok", ![t].ipv4 = db \in IPv4Rules]
    /\ UNCHANGED <<lock, db, proc, ctl, marks, budget>>

\* A failed regeneration leaves the last-good file. Start and install go on
\* with it, restart answers 400, the recovery restarts only a wiped router.
RegenFails(t) ==
    /\ At(t, "regen")
    /\ \/ db \in RefusedRules \cup UnbuildableRules /\ UNCHANGED budget
       \/ Fails("regen") /\ SpendFault
    /\ Goto(t, IF Kind(t) \in Starters THEN "spawn"
               ELSE IF Kind(t) \in Appliers /\ task[t].wiped THEN "take"
               ELSE "release")
    /\ task' = [task EXCEPT ![t].regen = "failed",
                            ![t].reply = IF task[t].wiped THEN @ ELSE "refused"]
    /\ UNCHANGED <<lock, db, disk, proc, ctl, marks>>

-----------------------------------------------------------------------------
(* XrayController: stop, start.                                             *)

\* Mutant: the pid is read after the fields were cleared.
StopTakeLate(t) ==
    /\ At(t, "take")
    /\ Goto(t, "kill")
    /\ task' = [task EXCEPT ![t].victim = NoPid]
    /\ ctl' = [pid |-> NoPid, owned |-> FALSE]
    /\ UNCHANGED <<lock, db, disk, proc, marks, budget>>

\* stop() takes the lifecycle fields in one critical section...
StopTake(t) ==
    /\ At(t, "take")
    /\ Goto(t, "kill")
    /\ task' = [task EXCEPT ![t].victim = ctl.pid]
    /\ ctl' = [pid |-> NoPid, owned |-> FALSE]
    /\ UNCHANGED <<lock, db, disk, proc, marks, budget>>

Kill(pid) == [proc EXCEPT !.alive = @ /\ (proc.pid # pid \/ proc.immune)]

\* ...and kills outside of it: SIGTERM, up to 3s, SIGKILL. A restart and an
\* install go on beside a process that survives both.
StopKill(t) ==
    /\ At(t, "kill")
    /\ proc' = Kill(task[t].victim)
    /\ Goto(t, IF Kind(t) = "Stop" THEN "release"
               ELSE IF Kind(t) = "Install" THEN "unpack" ELSE "spawn")
    /\ UNCHANGED <<lock, task, db, disk, ctl, marks, budget>>

\* The new binary is in place, or the download or the archive was bad.
Unpack(t) ==
    /\ At(t, "unpack")
    /\ \/ /\ Goto(t, IF task[t].running THEN "regen" ELSE "release")
          /\ UNCHANGED budget
       \/ /\ Fails("unpack")
          /\ Goto(t, "release")
          /\ SpendFault
    /\ UNCHANGED <<lock, task, db, disk, proc, ctl, marks>>

\* Where a handler goes when the process did not come up.
StartFailed(t) ==
    /\ Goto(t, IF Kind(t) \in Appliers THEN "resync"
               ELSE IF Kind(t) \in GeoKinds THEN "settle" ELSE "release")
    /\ task' = [task EXCEPT ![t].reply = "retry"]

StartBails(t) ==
    /\ At(t, "spawn")
    /\ ctl.pid # NoPid
    /\ StartFailed(t)
    /\ UNCHANGED <<lock, db, disk, proc, ctl, marks, budget>>

\* A process that finds the API port taken exits at once, as may any other.
Spawn(t) ==
    /\ At(t, "spawn")
    /\ ctl.pid = NoPid
    /\ ctl' = [pid |-> proc.pid + 1, owned |-> TRUE]
    /\ Goto(t, "check")
    /\ \/ /\ proc.alive
          /\ UNCHANGED <<proc, budget>>
       \/ /\ ~proc.alive
          /\ Fails("spawn")
          /\ SpendFault
          /\ UNCHANGED proc
       \/ /\ ~proc.alive
          /\ proc' = [alive |-> TRUE, pid |-> ctl'.pid, rules |-> InForce.rules,
                      svc |-> InForce.svc, ipv4 |-> InForce.ipv4,
                      pushed |-> FALSE, geo |-> TRUE, immune |-> FALSE]
          /\ UNCHANGED budget
    /\ UNCHANGED <<lock, task, db, disk, marks>>

\* 800 ms later: an exited child is noticed and the fields are rolled back.
Check(t) ==
    /\ At(t, "check")
    /\ IF ctl.owned /\ ~(proc.alive /\ proc.pid = ctl.pid)
       THEN StartFailed(t) /\ ctl' = [pid |-> NoPid, owned |-> FALSE]
       ELSE /\ Goto(t, "note")
            /\ task' = [task EXCEPT ![t].up = TRUE]
            /\ UNCHANGED ctl
    /\ UNCHANGED <<lock, db, disk, proc, marks, budget>>

-----------------------------------------------------------------------------
(* After the process came up: markers, then the handlers pushed again.      *)

\* Mutant: a start on the last-good file leaves the markers as they are.
LeftUnsaid(m) == m

InStep(m)     == [m EXCEPT !.stale = FALSE, !.retry = FALSE]
LeftBehind(m) == [m EXCEPT !.stale = TRUE]

NoteStarted(t) ==
    /\ At(t, "note")
    /\ Kind(t) \in Starters \cup {"Restart"}
    /\ marks' = IF task[t].regen = "ok"
                THEN InStep([marks EXCEPT !.ipv4 = task[t].ipv4])
                ELSE LeftBehind([marks EXCEPT !.ipv4 = InForce.ipv4])
    /\ Goto(t, "resync")
    /\ UNCHANGED <<lock, task, db, disk, proc, ctl, budget>>

NoteRebuilt(t) ==
    /\ At(t, "note")
    /\ Kind(t) \in Appliers
    /\ Goto(t, "resync")
    /\ IF task[t].regen = "ok"
       THEN /\ marks' = [marks EXCEPT !.ipv4 = task[t].ipv4]
            /\ task' = [task EXCEPT ![t].reply = "live"]
       ELSE /\ task' = [task EXCEPT ![t].reply = "refused"]
            /\ UNCHANGED marks
    /\ UNCHANGED <<lock, db, disk, proc, ctl, budget>>

NoteGeo(t) ==
    /\ At(t, "note")
    /\ Kind(t) \in GeoKinds
    /\ marks' = InStep(marks)
    /\ Goto(t, "resync")
    /\ UNCHANGED <<lock, task, db, disk, proc, ctl, budget>>

\* Whether the re-push gets through: it is skipped when no process is running,
\* and lost without the api pin.
Reconciled == Running /\ proc.alive /\ proc.rules # Wiped

\* resync_xray_state; start, install and restart then clear the pending
\* geofile apply.
Resync(t) ==
    /\ At(t, "resync")
    /\ proc' = [proc EXCEPT !.pushed = @ \/ Reconciled]
    /\ marks' = IF Kind(t) \in Starters \cup {"Restart"}
                THEN [marks EXCEPT !.pending = FALSE] ELSE marks
    /\ Goto(t, IF Kind(t) \in GeoKinds THEN "settle" ELSE "release")
    /\ UNCHANGED <<lock, task, db, disk, ctl, budget>>

-----------------------------------------------------------------------------
(* run_geo_refresh, after the download.                                     *)

\* The bytes differ from what the process parsed, or they do not. Only the
\* button restarts, and only a process that runs.
Swap(t) ==
    /\ At(t, "swap")
    /\ \E changed \in BOOLEAN :
          /\ proc' = [proc EXCEPT !.geo = @ /\ ~changed]
          /\ \/ /\ changed \/ marks.pending
                /\ LET restart == Kind(t) = "Geo" /\ Running IN
                   /\ Goto(t, IF restart THEN "take" ELSE "settle")
                   /\ task' = [task EXCEPT ![t].shielded = restart,
                                           ![t].running = Running]
             \/ /\ ~changed /\ ~marks.pending
                /\ Goto(t, "release")
                /\ UNCHANGED task
    /\ UNCHANGED <<lock, db, disk, ctl, marks, budget>>

\* The second file cannot be written: the first one stays, nothing is noted.
SwapFails(t) ==
    /\ At(t, "swap")
    /\ Fails("swap")
    /\ SpendFault
    /\ proc' = [proc EXCEPT !.geo = FALSE]
    /\ Goto(t, "release")
    /\ UNCHANGED <<lock, task, db, disk, ctl, marks>>

\* Mutant: only the button leaves a note.
OwedByButton(t) == ~task[t].up /\ Kind(t) = "Geo"

\* geo_apply_pending = !restarted && running, by the caller if it is still there.
StillOwed(t) == ~task[t].up /\ task[t].running

Settle(t) ==
    /\ At(t, "settle")
    /\ marks' = IF task[t].gone THEN marks
                ELSE [marks EXCEPT !.pending = StillOwed(t)]
    /\ Goto(t, "release")
    /\ UNCHANGED <<lock, task, db, disk, proc, ctl, budget>>

-----------------------------------------------------------------------------
(* The end of a handler.                                                    *)

\* Mutant: the guard is leaked.
StillLocked(t) == lock

\* The guard t holds, if it still does, goes out of scope.
Unlocked(t) == IF lock = t THEN Free ELSE lock

\* What hot_apply_routing stores once apply_routing has returned.
Recorded(t) == [marks EXCEPT !.retry = task[t].reply = "retry",
                             !.stale = task[t].reply # "live"]

\* The outcome of a push is stored after the mutex is free again: there is no
\* wait in between, but other threads may run if the task is preempted.
Release(t) ==
    /\ At(t, "release")
    /\ lock' = Unlocked(t)
    /\ \/ /\ Kind(t) \notin Appliers \/ task[t].gone
          /\ Finish(t)
          /\ UNCHANGED marks
       \/ /\ Kind(t) \in Appliers /\ ~task[t].gone
          /\ IF RecordLate
             THEN Goto(t, "record") /\ UNCHANGED <<task, marks>>
             ELSE Finish(t) /\ marks' = Recorded(t)
    /\ UNCHANGED <<db, disk, proc, ctl, budget>>

Record(t) ==
    /\ At(t, "record")
    /\ marks' = Recorded(t)
    /\ Finish(t)
    /\ UNCHANGED <<lock, db, disk, proc, ctl, budget>>

-----------------------------------------------------------------------------
(* The environment.                                                         *)

\* The connection closes under a handler. A future suspended at an await point
\* goes away with everything it holds; shielded work runs on, but the guard the
\* caller holds is dropped. A restart takes the lock inside its shield.
DropCaller(t) ==
    /\ Kind(t) \in HttpKinds
    /\ budget.drops > 0
    /\ ~task[t].gone
    /\ \/ /\ ~task[t].shielded
          /\ pc[t] \notin {Idle, "note", "release", "record"}
          /\ Finish(t)
          /\ \/ UNCHANGED proc
             \/ At(t, "kill") /\ proc' = Kill(task[t].victim)
       \/ /\ task[t].shielded
          /\ pc[t] # "release"
          /\ task' = [task EXCEPT ![t].gone = TRUE]
          /\ UNCHANGED <<pc, proc>>
    /\ lock' = IF Kind(t) = "Restart" THEN lock ELSE Unlocked(t)
    /\ budget' = [budget EXCEPT !.drops = @ - 1]
    /\ UNCHANGED <<db, disk, ctl, marks>>

\* xray exits by itself. The controller still tracks the pid.
XrayExits ==
    /\ proc.alive
    /\ Fails("exit")
    /\ proc' = [proc EXCEPT !.alive = FALSE]
    /\ SpendFault
    /\ UNCHANGED <<lock, pc, task, db, disk, ctl, marks>>

\* The panel exits and comes back. It adopts a live xray by its path, trusts the
\* file on disk for what that process loaded, and queues the routing push and
\* the reconcile; otherwise it starts one on a regenerated file, if it can.
PanelRestarts ==
    /\ budget.crashes > 0
    /\ budget' = [budget EXCEPT !.crashes = @ - 1]
    /\ lock' = Free
    /\ \E a, r \in Tasks :
          /\ a # r
          /\ pc' = [t \in Tasks |->
                       IF t = r \/ (t = a /\ proc.alive) THEN "lock" ELSE Idle]
          /\ task' = [t \in Tasks |->
                         IF t = r THEN [NoTask EXCEPT !.kind = "BootReconcile"]
                         ELSE IF t = a THEN [NoTask EXCEPT !.kind = "BootApply"]
                         ELSE NoTask]
    /\ \/ /\ proc.alive
          /\ ctl' = [pid |-> proc.pid, owned |-> FALSE]
          /\ marks' = [InStep(marks) EXCEPT !.ipv4 = InForce.ipv4]
          /\ \E immune \in Immunities : proc' = [proc EXCEPT !.immune = immune]
          /\ UNCHANGED disk
       \/ /\ ~proc.alive
          /\ db \notin RefusedRules \cup UnbuildableRules
          /\ disk' = [rules |-> db, svc |-> TRUE]
          /\ proc' = [alive |-> TRUE, pid |-> proc.pid + 1, rules |-> db, svc |-> TRUE,
                      ipv4 |-> db \in IPv4Rules, pushed |-> FALSE, geo |-> TRUE,
                      immune |-> FALSE]
          /\ ctl' = [pid |-> proc'.pid, owned |-> TRUE]
          /\ marks' = [InStep(marks) EXCEPT !.ipv4 = db \in IPv4Rules, !.pending = FALSE]
       \/ /\ ~proc.alive
          /\ disk' \in {disk} \cup {[rules |-> r, svc |-> TRUE] :
                            r \in {db} \ (RefusedRules \cup UnbuildableRules)}
          /\ ctl' = [pid |-> NoPid, owned |-> FALSE]
          /\ marks' = [InStep(marks) EXCEPT !.ipv4 = FALSE, !.pending = FALSE]
          /\ UNCHANGED proc
    /\ UNCHANGED db

-----------------------------------------------------------------------------

Step(t) ==
    \/ WriteRow(t)
    \/ ApplyRouting(t)
    \/ Push(t)
    \/ Answer(t)
    \/ Regen(t)
    \/ RegenFails(t)
    \/ StopTake(t)
    \/ StopKill(t)
    \/ Unpack(t)
    \/ StartBails(t)
    \/ Spawn(t)
    \/ Check(t)
    \/ NoteStarted(t)
    \/ NoteRebuilt(t)
    \/ NoteGeo(t)
    \/ Resync(t)
    \/ Swap(t)
    \/ SwapFails(t)
    \/ Settle(t)
    \/ Release(t)
    \/ Record(t)

Next ==
    \/ \E t \in Tasks :
          \/ \E k \in Kinds, r \in Rules : Request(t, k, r)
          \/ Acquire(t)
          \/ Step(t)
          \/ DropCaller(t)
    \/ XrayExits
    \/ PanelRestarts

Spec == Init /\ [][Next]_vars

\* The runtime polls every ready task, the waits inside are timed, and the
\* mutex hands out its guard in FIFO order.
FairSpec ==
    /\ Spec
    /\ \A t \in Tasks : WF_vars(Step(t)) /\ SF_vars(Acquire(t))

-----------------------------------------------------------------------------
(* Properties.                                                              *)

TaskRecords ==
    [kind : AllKinds, shielded : BOOLEAN, gone : BOOLEAN, rules : Rules,
     changed : BOOLEAN, regen : {"none", "ok", "failed"}, ipv4 : BOOLEAN,
     wiped : BOOLEAN, up : BOOLEAN, running : BOOLEAN, victim : Nat,
     reply : {"none", "live", "retry", "refused", "rejected", "ambiguous",
              "unsupported"}]

TypeOK ==
    /\ lock \in Tasks \cup {Free}
    /\ pc \in [Tasks -> Steps]
    /\ task \in [Tasks -> TaskRecords]
    /\ db \in Rules
    /\ disk \in [rules : Rules, svc : BOOLEAN]
    /\ proc \in [alive : BOOLEAN, pid : Nat, rules : Rules \cup {Wiped},
                 svc : BOOLEAN, ipv4 : BOOLEAN, pushed : BOOLEAN, geo : BOOLEAN,
                 immune : BOOLEAN]
    /\ ctl \in [pid : Nat, owned : BOOLEAN]
    /\ marks \in [stale : BOOLEAN, retry : BOOLEAN, ipv4 : BOOLEAN, pending : BOOLEAN]
    /\ budget \in [requests : Nat, faults : Nat, drops : Nat, crashes : Nat]

\* The steps that apply config to xray or (re)start the process.
Section == {"apply", "push", "answer", "regen", "take", "kill", "unpack",
            "spawn", "check", "note", "resync", "swap"}

\* xray_apply "serialises everything that applies config to xray or (re)starts
\* the process": never two tasks in such a step.
ApplyExclusive ==
    \A s, t \in Tasks :
        pc[s] \in Section /\ pc[t] \in Section => s = t

\* A process that stop() can end.
Stoppable == proc.alive /\ ~proc.immune

\* What the mutex is for: a start that gets past the "already running" check
\* never launches a second xray while an older one still holds the API port,
\* unless the older one is a process that survives being killed.
SpawnOntoFreePort ==
    \A t \in Tasks :
        At(t, "spawn") /\ ctl.pid = NoPid => ~Stoppable

\* Why both hold as long as nobody hangs up: a task in the section holds the
\* mutex until it has released it...
Holders == Section \cup {"settle", "release"}

HoldsMutex ==
    \A t \in Tasks : pc[t] \in Holders => lock = t

\* ...and a live process the controller does not track is about to be killed,
\* or has survived that.
Tracked ==
    /\ proc.pid > 0
    /\ Stoppable /\ ctl.pid # proc.pid =>
          \E t \in Tasks : At(t, "kill") /\ task[t].victim = proc.pid

\* Once every handler has answered, a live router that is not running the stored
\* rules is marked as stale: no save after that reads as a clean one.
MarkersHonest ==
    Quiet /\ proc.alive /\ proc.rules # db => marks.stale

\* A core that serves nobody never outlives the handlers: whoever brought a
\* process up has pushed the inbounds into it before it ends, unless an older process
\* that does not die stands in its way.
InboundsServed ==
    Quiet /\ Stoppable => proc.pushed

\* No connection has closed and the panel has not exited.
Undisturbed == budget.drops = MaxDrops /\ budget.crashes = MaxCrashes

\* Until then a refused rule set, which empties the router, costs a restart that
\* puts the api pin back before the mutex is released, if stop() can end the
\* process at all.
RouterKeepsApiPin ==
    Undisturbed /\ lock = Free /\ Stoppable => proc.rules # Wiped

\* Until then no live rule targets the direct-ipv4 outbound in a process without
\* it (live_ipv4_outbound).
NoDanglingRule ==
    Undisturbed /\ proc.alive /\ proc.rules \in IPv4Rules => proc.ipv4

\* Until then a geofile the live process has not parsed is owed a restart, whichever of
\* the button, the nightly task and the restarts came last, unless the panel
\* has lost a process that does not die.
GeoOwed ==
    Undisturbed /\ lock = Free /\ Stoppable /\ ~proc.geo => marks.pending

\* Until then a settings save stops the core only when no push could have made the
\* rules live: the router is wiped, has no RoutingService, or is not known to have
\* the direct-ipv4 outbound; or when nobody can say whether the push was handled.
\* An undelivered push is no such cause.
SaveRestartsForCause ==
    [][\A t \in Tasks :
          Undisturbed /\ At(t, "kill") /\ Kind(t) \in Appliers /\ proc.alive /\ ~proc'.alive =>
              \/ proc.rules = Wiped
              \/ ~proc.svc
              \/ db \in IPv4Rules /\ ~(marks.ipv4 /\ proc.ipv4)
              \/ task[t].reply = "ambiguous"
              \/ UNCHANGED pc]_vars

\* Every handler comes to its end, whatever fails and whoever hangs up: the
\* mutex is never left locked behind a handler that is gone.
HandlersEnd ==
    \A t \in Tasks : Busy(t) ~> ~Busy(t)
=============================================================================
