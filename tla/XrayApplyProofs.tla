-------------------------- MODULE XrayApplyProofs --------------------------
(***************************************************************************)
(* For every set of tasks and rule sets, every number of requests and      *)
(* failures: types hold; and until a connection closes under a handler,    *)
(* what applies configuration or (re)starts xray is exclusive, and no      *)
(* start launches a second xray beside one that can be stopped; and what   *)
(* the handlers leave behind is a process that serves, a router with its   *)
(* api pin and a note of every geofile that is owed a restart.             *)
(***************************************************************************)
EXTENDS XrayApply, TLAPS

\* What the proofs need of the constants.
LEMMA Constants ==
    /\ InitRules \in Rules
    /\ Kinds \subseteq AllKinds
    /\ Free \notin Tasks
    /\ Wiped \notin Rules
    /\ MaxRequests \in Nat /\ MaxFaults \in Nat /\ MaxDrops \in Nat /\ MaxCrashes \in Nat
<1>1. Kinds \subseteq AllKinds
  BY BoundsAssumption DEF AllKinds, HttpKinds, BootKinds
<1>. QED
  BY <1>1, RulesAssumption, TasksAssumption, BoundsAssumption DEF Free, Wiped

\* A slot nothing runs in carries a record like any other.
LEMMA IdleTask ==
    NoTask \in TaskRecords
BY Constants DEF NoTask, TaskRecords, AllKinds, HttpKinds, BootKinds, NoPid

\* A record stays one when its reply, its caller or its shield changes.
LEMMA Retouched ==
    ASSUME NEW r \in TaskRecords, NEW a \in BOOLEAN, NEW b \in BOOLEAN,
           NEW reply \in {"none", "live", "retry", "refused", "rejected", "ambiguous",
                          "unsupported"}
    PROVE  /\ [r EXCEPT !.reply = reply] \in TaskRecords
           /\ [r EXCEPT !.gone = a] \in TaskRecords
           /\ [r EXCEPT !.shielded = a, !.wiped = b] \in TaskRecords
<1>1. [r EXCEPT !.reply = reply] \in TaskRecords
  BY DEF TaskRecords
<1>2. [r EXCEPT !.gone = a] \in TaskRecords
  BY DEF TaskRecords
<1>3. [r EXCEPT !.shielded = a, !.wiped = b] \in TaskRecords
  BY DEF TaskRecords
<1>. QED
  BY <1>1, <1>2, <1>3

\* Ending a handler keeps the program counters and the task records typed.
LEMMA FinishType ==
    ASSUME TypeOK, NEW t \in Tasks, Finish(t)
    PROVE  pc' \in [Tasks -> Steps] /\ task' \in [Tasks -> TaskRecords]
BY IdleTask DEF Finish, TypeOK, Steps, Idle

\* A typed task record names one of the modelled handlers.
LEMMA KindType ==
    ASSUME TypeOK, NEW t \in Tasks
    PROVE  Kind(t) \in AllKinds
BY DEF TypeOK, Kind, TaskRecords

\* A new request is typed: the handler called and the rule set it brings.
LEMMA RequestType ==
    ASSUME TypeOK, NEW t \in Tasks, NEW k \in Kinds, NEW r \in Rules, Request(t, k, r)
    PROVE  TypeOK'
<1>1. pc' \in [Tasks -> Steps]
  BY DEF Request, Goto, TypeOK, Steps
<1>2. task' \in [Tasks -> TaskRecords]
  <2>1. k \in AllKinds
    BY Constants
  <2>2. (IF k = "Save" THEN r ELSE InitRules) \in Rules
    BY Constants
  <2>3. [NoTask EXCEPT !.kind = k, !.shielded = k = "Restart",
                       !.rules = IF k = "Save" THEN r ELSE InitRules,
                       !.changed = k = "Save" /\ r # db] \in TaskRecords
    BY IdleTask, <2>1, <2>2 DEF TaskRecords
  <2>. QED
    BY <2>3 DEF Request, TypeOK
<1>3. budget' \in [requests : Nat, faults : Nat, drops : Nat, crashes : Nat]
  BY DEF Request, TypeOK
<1>. QED
  BY <1>1, <1>2, <1>3 DEF Request, TypeOK

\* Committing the settings row stores a known rule set.
LEMMA WriteRowType ==
    ASSUME TypeOK, NEW t \in Tasks, WriteRow(t)
    PROVE  TypeOK'
<1>1. pc' \in [Tasks -> Steps] /\ task' \in [Tasks -> TaskRecords]
  BY FinishType DEF WriteRow, Goto, TypeOK, Steps
<1>2. db' \in Rules
  BY DEF WriteRow, TypeOK, TaskRecords
<1>. QED
  BY <1>1, <1>2 DEF WriteRow, TypeOK

\* Taking xray_apply, or queueing for it at boot.
LEMMA AcquireType ==
    ASSUME TypeOK, NEW t \in Tasks, Acquire(t)
    PROVE  TypeOK'
<1>1. pc' \in [Tasks -> Steps]
  <2>1. Kind(t) # "Install" => FirstStep[Kind(t)] \in Steps
    BY KindType DEF FirstStep, Steps, AllKinds, HttpKinds, BootKinds
  <2>. QED
    BY <2>1 DEF Acquire, Goto, TypeOK, Steps
<1>2. Running \in BOOLEAN
  BY DEF Running, TypeOK
<1>3. task' \in [Tasks -> TaskRecords]
  BY <1>2 DEF Acquire, TypeOK, TaskRecords
<1>. QED
  BY <1>1, <1>3 DEF Acquire, TypeOK

\* A failure that may happen leaves a natural number of them.
LEMMA FaultSpent ==
    ASSUME TypeOK, NEW f, Fails(f), SpendFault
    PROVE  budget' \in [requests : Nat, faults : Nat, drops : Nat, crashes : Nat]
BY DEF Fails, SpendFault, TypeOK

\* Ending the hot path with an outcome.
LEMMA OutcomeType ==
    ASSUME TypeOK, NEW t \in Tasks,
           NEW reply \in {"live", "retry", "refused", "rejected", "ambiguous", "unsupported"},
           Outcome(t, reply) \/ Replies(t, reply)
    PROVE  pc' \in [Tasks -> Steps] /\ task' \in [Tasks -> TaskRecords]
<1>1. pc' \in [Tasks -> Steps]
  BY DEF Outcome, Replies, Goto, TypeOK, Steps
<1>2. task' \in [Tasks -> TaskRecords]
  <2>1. task \in [Tasks -> TaskRecords]
    BY DEF TypeOK
  <2>2. [task[t] EXCEPT !.reply = reply] \in TaskRecords
    BY <2>1, Retouched
  <2>3. task' = [task EXCEPT ![t] = [task[t] EXCEPT !.reply = reply]]
    BY <2>1 DEF Outcome, Replies
  <2>. QED
    BY <2>1, <2>2, <2>3
<1>. QED
  BY <1>1, <1>2

\* Handing the recovery restart to a task of its own.
LEMMA RebuildType ==
    ASSUME TypeOK, NEW t \in Tasks, NEW wiped \in BOOLEAN, Rebuild(t, wiped)
    PROVE  pc' \in [Tasks -> Steps] /\ task' \in [Tasks -> TaskRecords]
<1>1. pc' \in [Tasks -> Steps]
  BY DEF Rebuild, Goto, TypeOK, Steps
<1>2. task' \in [Tasks -> TaskRecords]
  <2>1. task \in [Tasks -> TaskRecords]
    BY DEF TypeOK
  <2>2. [task[t] EXCEPT !.shielded = TRUE, !.wiped = wiped] \in TaskRecords
    BY <2>1, Retouched
  <2>3. task' = [task EXCEPT ![t] = [task[t] EXCEPT !.shielded = TRUE, !.wiped = wiped]]
    BY <2>1 DEF Rebuild
  <2>. QED
    BY <2>1, <2>2, <2>3
<1>. QED
  BY <1>1, <1>2

\* Every branch of apply_routing.
LEMMA ApplyRoutingType ==
    ASSUME TypeOK, NEW t \in Tasks, ApplyRouting(t)
    PROVE  TypeOK'
<1>1. ASSUME Goto(t, "push"), task' = [task EXCEPT ![t].rules = db]
      PROVE  pc' \in [Tasks -> Steps] /\ task' \in [Tasks -> TaskRecords]
  <2>1. pc' \in [Tasks -> Steps]
    BY <1>1 DEF Goto, TypeOK, Steps
  <2>2. task' \in [Tasks -> TaskRecords]
    BY <1>1 DEF TypeOK, TaskRecords
  <2>. QED
    BY <2>1, <2>2
<1>2. pc' \in [Tasks -> Steps] /\ task' \in [Tasks -> TaskRecords]
  BY <1>1, OutcomeType, RebuildType DEF ApplyRouting
<1>3. budget' \in [requests : Nat, faults : Nat, drops : Nat, crashes : Nat]
  <2>1. UNCHANGED budget \/ (Fails("db") /\ SpendFault)
    BY DEF ApplyRouting
  <2>. QED
    BY <2>1, FaultSpent DEF TypeOK
<1>. QED
  BY <1>2, <1>3 DEF ApplyRouting, TypeOK

\* Every answer of AddRule, the one that empties the router included.
LEMMA PushType ==
    ASSUME TypeOK, NEW t \in Tasks, Push(t)
    PROVE  TypeOK'
<1>1. PICK reply \in {"live", "retry", "rejected", "ambiguous", "unsupported"} :
         Replies(t, reply)
  BY DEF Push
<1>2. pc' \in [Tasks -> Steps] /\ task' \in [Tasks -> TaskRecords]
  BY <1>1, OutcomeType
<1>3. proc' \in [alive : BOOLEAN, pid : Nat, rules : Rules \cup {Wiped},
                svc : BOOLEAN, ipv4 : BOOLEAN, pushed : BOOLEAN, geo : BOOLEAN,
                immune : BOOLEAN]
  <2>1. proc' = proc \/ proc' = AddRule(task[t].rules)
    BY DEF Push
  <2>2. task[t].rules \in Rules
    BY DEF TypeOK, TaskRecords
  <2>. QED
    BY <2>1, <2>2 DEF AddRule, TypeOK
<1>4. budget' \in [requests : Nat, faults : Nat, drops : Nat, crashes : Nat]
  BY FaultSpent DEF Push, TypeOK
<1>. QED
  BY <1>2, <1>3, <1>4 DEF Push, TypeOK

\* Acting on the answer to a push.
LEMMA AnswerType ==
    ASSUME TypeOK, NEW t \in Tasks, Answer(t)
    PROVE  TypeOK'
<1>1. ASSUME Goto(t, "release"), UNCHANGED task
      PROVE  pc' \in [Tasks -> Steps] /\ task' \in [Tasks -> TaskRecords]
  BY <1>1 DEF Goto, TypeOK, Steps
<1>2. pc' \in [Tasks -> Steps] /\ task' \in [Tasks -> TaskRecords]
  BY <1>1, RebuildType DEF Answer
<1>3. UNCHANGED <<lock, db, disk, proc, ctl, marks, budget>>
  BY DEF Answer
<1>. QED
  BY <1>2, <1>3 DEF TypeOK

\* A regeneration, successful or not.
LEMMA RegenType ==
    ASSUME TypeOK, NEW t \in Tasks, Regen(t) \/ RegenFails(t)
    PROVE  TypeOK'
<1>1. pc' \in [Tasks -> Steps]
  BY DEF Regen, RegenFails, Goto, TypeOK, Steps
<1>2. task' \in [Tasks -> TaskRecords]
  BY DEF Regen, RegenFails, TypeOK, TaskRecords
<1>3. disk' \in [rules : Rules, svc : BOOLEAN]
  <2>1. disk' = disk \/ disk' = [rules |-> db, svc |-> TRUE]
    BY DEF Regen, RegenFails
  <2>2. [rules |-> db, svc |-> TRUE] \in [rules : Rules, svc : BOOLEAN]
    BY DEF TypeOK
  <2>. QED
    BY <2>1, <2>2 DEF TypeOK
<1>4. budget' \in [requests : Nat, faults : Nat, drops : Nat, crashes : Nat]
  BY FaultSpent DEF Regen, RegenFails, TypeOK
<1>. QED
  BY <1>1, <1>2, <1>3, <1>4 DEF Regen, RegenFails, TypeOK

\* stop() taking the lifecycle fields.
LEMMA StopTakeType ==
    ASSUME TypeOK, NEW t \in Tasks, StopTake(t)
    PROVE  TypeOK'
<1>1. pc' \in [Tasks -> Steps]
  BY DEF StopTake, Goto, TypeOK, Steps
<1>2. task' \in [Tasks -> TaskRecords]
  BY DEF StopTake, TypeOK, TaskRecords
<1>. QED
  BY <1>1, <1>2 DEF StopTake, TypeOK, NoPid

\* stop() killing the process it took.
LEMMA StopKillType ==
    ASSUME TypeOK, NEW t \in Tasks, StopKill(t)
    PROVE  TypeOK'
<1>1. pc' \in [Tasks -> Steps]
  BY DEF StopKill, Goto, TypeOK, Steps
<1>. QED
  BY <1>1 DEF StopKill, Kill, TypeOK

\* The new binary, or the failure to install it.
LEMMA UnpackType ==
    ASSUME TypeOK, NEW t \in Tasks, Unpack(t)
    PROVE  TypeOK'
<1>1. pc' \in [Tasks -> Steps]
  BY DEF Unpack, Goto, TypeOK, Steps
<1>2. budget' \in [requests : Nat, faults : Nat, drops : Nat, crashes : Nat]
  BY FaultSpent DEF Unpack, TypeOK
<1>. QED
  BY <1>1, <1>2 DEF Unpack, TypeOK

\* Wherever a failed start sends its handler.
LEMMA StartFailedType ==
    ASSUME TypeOK, NEW t \in Tasks, StartFailed(t)
    PROVE  pc' \in [Tasks -> Steps] /\ task' \in [Tasks -> TaskRecords]
<1>1. pc' \in [Tasks -> Steps]
  BY DEF StartFailed, Goto, TypeOK, Steps
<1>2. task' \in [Tasks -> TaskRecords]
  <2>1. task \in [Tasks -> TaskRecords]
    BY DEF TypeOK
  <2>2. [task[t] EXCEPT !.reply = "retry"] \in TaskRecords
    BY <2>1, Retouched
  <2>3. task' = [task EXCEPT ![t] = [task[t] EXCEPT !.reply = "retry"]]
    BY <2>1 DEF StartFailed
  <2>. QED
    BY <2>1, <2>2, <2>3
<1>. QED
  BY <1>1, <1>2

\* start() on a controller that already tracks a process.
LEMMA StartBailsType ==
    ASSUME TypeOK, NEW t \in Tasks, StartBails(t)
    PROVE  TypeOK'
BY StartFailedType DEF StartBails, TypeOK

\* start() spawning a process, which may exit at once.
LEMMA SpawnType ==
    ASSUME TypeOK, NEW t \in Tasks, Spawn(t)
    PROVE  TypeOK'
<1>1. pc' \in [Tasks -> Steps]
  BY DEF Spawn, Goto, TypeOK, Steps
<1>2. ctl' = [pid |-> proc.pid + 1, owned |-> TRUE]
  BY DEF Spawn
<1>3. ctl' \in [pid : Nat, owned : BOOLEAN] /\ ctl'.pid \in Nat
  BY <1>2 DEF TypeOK
<1>4. proc' \in [alive : BOOLEAN, pid : Nat, rules : Rules \cup {Wiped},
                svc : BOOLEAN, ipv4 : BOOLEAN, pushed : BOOLEAN, geo : BOOLEAN,
                immune : BOOLEAN]
  <2>1. \/ proc' = proc
        \/ proc' = [alive |-> TRUE, pid |-> ctl'.pid, rules |-> InForce.rules,
                    svc |-> InForce.svc, ipv4 |-> InForce.ipv4,
                    pushed |-> FALSE, geo |-> TRUE, immune |-> FALSE]
    BY DEF Spawn
  <2>2. InForce.rules \in Rules /\ InForce.svc \in BOOLEAN /\ InForce.ipv4 \in BOOLEAN
    BY DEF InForce, TypeOK
  <2>3. [alive |-> TRUE, pid |-> ctl'.pid, rules |-> InForce.rules, svc |-> InForce.svc,
         ipv4 |-> InForce.ipv4, pushed |-> FALSE, geo |-> TRUE, immune |-> FALSE]
           \in [alive : BOOLEAN, pid : Nat, rules : Rules \cup {Wiped},
                svc : BOOLEAN, ipv4 : BOOLEAN, pushed : BOOLEAN, geo : BOOLEAN,
                immune : BOOLEAN]
    BY <1>3, <2>2
  <2>. QED
    BY <2>1, <2>3 DEF TypeOK
<1>5. budget' \in [requests : Nat, faults : Nat, drops : Nat, crashes : Nat]
  BY FaultSpent DEF Spawn, TypeOK
<1>. QED
  BY <1>1, <1>3, <1>4, <1>5 DEF Spawn, TypeOK

\* The look at the child 800 ms later.
LEMMA CheckType ==
    ASSUME TypeOK, NEW t \in Tasks, Check(t)
    PROVE  TypeOK'
<1>1. ASSUME Goto(t, "note"), task' = [task EXCEPT ![t].up = TRUE]
      PROVE  pc' \in [Tasks -> Steps] /\ task' \in [Tasks -> TaskRecords]
  <2>1. pc' \in [Tasks -> Steps]
    BY <1>1 DEF Goto, TypeOK, Steps
  <2>0. task[t] \in TaskRecords
    BY DEF TypeOK
  <2>2. [task[t] EXCEPT !.up = TRUE] \in TaskRecords
    BY <2>0 DEF TaskRecords
  <2>3. task' \in [Tasks -> TaskRecords]
    BY <1>1, <2>2 DEF TypeOK
  <2>. QED
    BY <2>1, <2>3
<1>2. pc' \in [Tasks -> Steps] /\ task' \in [Tasks -> TaskRecords]
  BY <1>1, StartFailedType DEF Check
<1>3. ctl' \in [pid : Nat, owned : BOOLEAN]
  <2>1. ctl' = ctl \/ ctl' = [pid |-> NoPid, owned |-> FALSE]
    BY DEF Check
  <2>2. [pid |-> NoPid, owned |-> FALSE] \in [pid : Nat, owned : BOOLEAN]
    BY DEF NoPid
  <2>. QED
    BY <2>1, <2>2 DEF TypeOK
<1>. QED
  BY <1>2, <1>3 DEF Check, TypeOK

MarkRecords == [stale : BOOLEAN, retry : BOOLEAN, ipv4 : BOOLEAN, pending : BOOLEAN]

\* Clearing both routing markers.
LEMMA InStepType ==
    ASSUME NEW m \in MarkRecords
    PROVE  InStep(m) \in MarkRecords /\ LeftBehind(m) \in MarkRecords
BY DEF InStep, LeftBehind, MarkRecords

\* The markers each kind of handler sets once the process is up.
LEMMA NoteType ==
    ASSUME TypeOK, NEW t \in Tasks, NoteStarted(t) \/ NoteRebuilt(t) \/ NoteGeo(t)
    PROVE  TypeOK'
<1>1. pc' \in [Tasks -> Steps]
  BY DEF NoteStarted, NoteRebuilt, NoteGeo, Goto, TypeOK, Steps
<1>2. task \in [Tasks -> TaskRecords] /\ task[t] \in TaskRecords
  BY DEF TypeOK
<1>3. task' \in [Tasks -> TaskRecords]
  <2>1. /\ [task[t] EXCEPT !.reply = "live"] \in TaskRecords
        /\ [task[t] EXCEPT !.reply = "refused"] \in TaskRecords
    BY <1>2 DEF TaskRecords
  <2>2. \/ task' = task
        \/ task' = [task EXCEPT ![t] = [task[t] EXCEPT !.reply = "live"]]
        \/ task' = [task EXCEPT ![t] = [task[t] EXCEPT !.reply = "refused"]]
    BY <1>2 DEF NoteStarted, NoteRebuilt, NoteGeo
  <2>. QED
    BY <1>2, <2>1, <2>2
<1>4. marks \in MarkRecords /\ task[t].ipv4 \in BOOLEAN /\ InForce.ipv4 \in BOOLEAN
  BY <1>2 DEF TypeOK, MarkRecords, TaskRecords, InForce
<1>5. /\ [marks EXCEPT !.ipv4 = task[t].ipv4] \in MarkRecords
      /\ [marks EXCEPT !.ipv4 = InForce.ipv4] \in MarkRecords
  BY <1>4 DEF MarkRecords
<1>6. marks' \in MarkRecords
  <2>1. \/ marks' = marks
        \/ marks' = [marks EXCEPT !.ipv4 = task[t].ipv4]
        \/ marks' = InStep([marks EXCEPT !.ipv4 = task[t].ipv4])
        \/ marks' = LeftBehind([marks EXCEPT !.ipv4 = InForce.ipv4])
        \/ marks' = InStep(marks)
    BY DEF NoteStarted, NoteRebuilt, NoteGeo
  <2>. QED
    BY <1>4, <1>5, <2>1, InStepType
<1>7. UNCHANGED <<lock, db, disk, proc, ctl, budget>>
  BY DEF NoteStarted, NoteRebuilt, NoteGeo
<1>. QED
  BY <1>1, <1>3, <1>6, <1>7 DEF TypeOK, MarkRecords

\* Pushing the handlers again.
LEMMA ResyncType ==
    ASSUME TypeOK, NEW t \in Tasks, Resync(t)
    PROVE  TypeOK'
<1>1. pc' \in [Tasks -> Steps]
  BY DEF Resync, Goto, TypeOK, Steps
<1>2. marks' \in MarkRecords
  BY DEF Resync, TypeOK, MarkRecords
<1>3. proc' \in [alive : BOOLEAN, pid : Nat, rules : Rules \cup {Wiped},
                svc : BOOLEAN, ipv4 : BOOLEAN, pushed : BOOLEAN, geo : BOOLEAN,
                immune : BOOLEAN]
  BY DEF Resync, TypeOK
<1>. QED
  BY <1>1, <1>2, <1>3 DEF Resync, TypeOK, MarkRecords

\* Replacing the geofiles, wholly or in part.
LEMMA SwapType ==
    ASSUME TypeOK, NEW t \in Tasks, Swap(t) \/ SwapFails(t)
    PROVE  TypeOK'
<1>1. pc' \in [Tasks -> Steps]
  BY DEF Swap, SwapFails, Goto, TypeOK, Steps
<1>2. task \in [Tasks -> TaskRecords] /\ task[t] \in TaskRecords /\ Running \in BOOLEAN
  BY DEF TypeOK, Running
<1>3. task' \in [Tasks -> TaskRecords]
  <2>1. \A b \in BOOLEAN :
           [task[t] EXCEPT !.shielded = b, !.running = Running] \in TaskRecords
    BY <1>2 DEF TaskRecords
  <2>2. \/ task' = task
        \/ \E b \in BOOLEAN :
              task' = [task EXCEPT ![t] = [task[t] EXCEPT !.shielded = b,
                                                          !.running = Running]]
    BY <1>2 DEF Swap, SwapFails
  <2>. QED
    BY <1>2, <2>1, <2>2
<1>4. proc' \in [alive : BOOLEAN, pid : Nat, rules : Rules \cup {Wiped},
                svc : BOOLEAN, ipv4 : BOOLEAN, pushed : BOOLEAN, geo : BOOLEAN,
                immune : BOOLEAN]
  <2>1. \A b \in BOOLEAN : [proc EXCEPT !.geo = b] \in
             [alive : BOOLEAN, pid : Nat, rules : Rules \cup {Wiped},
              svc : BOOLEAN, ipv4 : BOOLEAN, pushed : BOOLEAN, geo : BOOLEAN,
              immune : BOOLEAN]
    BY DEF TypeOK
  <2>2. proc.geo \in BOOLEAN
    BY DEF TypeOK
  <2>3. \E b \in BOOLEAN : proc' = [proc EXCEPT !.geo = b]
    BY <2>2 DEF Swap, SwapFails
  <2>. QED
    BY <2>1, <2>3
<1>5. budget' \in [requests : Nat, faults : Nat, drops : Nat, crashes : Nat]
  BY FaultSpent DEF Swap, SwapFails, TypeOK
<1>6. UNCHANGED <<lock, db, disk, ctl, marks>>
  BY DEF Swap, SwapFails
<1>. QED
  BY <1>1, <1>3, <1>4, <1>5, <1>6 DEF TypeOK

\* Recording whether a geofile apply is still owed.
LEMMA SettleType ==
    ASSUME TypeOK, NEW t \in Tasks, Settle(t)
    PROVE  TypeOK'
<1>1. pc' \in [Tasks -> Steps]
  BY DEF Settle, Goto, TypeOK, Steps
<1>2. marks' \in MarkRecords
  BY DEF Settle, StillOwed, TypeOK, MarkRecords
<1>. QED
  BY <1>1, <1>2 DEF Settle, TypeOK, MarkRecords

\* Releasing the mutex and storing the outcome, now or a moment later.
LEMMA ReleaseType ==
    ASSUME TypeOK, NEW t \in Tasks, Release(t) \/ Record(t)
    PROVE  TypeOK'
<1>1. pc' \in [Tasks -> Steps]
  BY FinishType DEF Release, Record, Goto, TypeOK, Steps
<1>2. task' \in [Tasks -> TaskRecords]
  BY FinishType DEF Release, Record, TypeOK
<1>3. marks' \in MarkRecords
  <2>1. marks' = marks \/ marks' = Recorded(t)
    BY DEF Release, Record
  <2>2. Recorded(t) \in MarkRecords
    BY DEF Recorded, TypeOK, MarkRecords
  <2>. QED
    BY <2>1, <2>2 DEF TypeOK, MarkRecords
<1>4. lock' \in Tasks \cup {Free}
  BY DEF Release, Record, Unlocked, TypeOK
<1>5. UNCHANGED <<db, disk, proc, ctl, budget>>
  BY DEF Release, Record
<1>. QED
  BY <1>1, <1>2, <1>3, <1>4, <1>5 DEF TypeOK, MarkRecords

\* A connection closing under a handler.
LEMMA DropCallerType ==
    ASSUME TypeOK, NEW t \in Tasks, DropCaller(t)
    PROVE  TypeOK'
<1>1. pc' \in [Tasks -> Steps] /\ task' \in [Tasks -> TaskRecords]
  <2>1. CASE Finish(t)
    BY <2>1, FinishType
  <2>2. CASE task' = [task EXCEPT ![t].gone = TRUE] /\ UNCHANGED pc
    <3>1. task \in [Tasks -> TaskRecords]
      BY DEF TypeOK
    <3>2. [task[t] EXCEPT !.gone = TRUE] \in TaskRecords
      BY <3>1, Retouched
    <3>3. task' = [task EXCEPT ![t] = [task[t] EXCEPT !.gone = TRUE]]
      BY <2>2, <3>1
    <3>. QED
      BY <2>2, <3>1, <3>2, <3>3 DEF TypeOK
  <2>. QED
    BY <2>1, <2>2 DEF DropCaller
<1>2. proc' \in [alive : BOOLEAN, pid : Nat, rules : Rules \cup {Wiped},
                svc : BOOLEAN, ipv4 : BOOLEAN, pushed : BOOLEAN, geo : BOOLEAN,
                immune : BOOLEAN]
  <2>1. proc' = proc \/ proc' = Kill(task[t].victim)
    BY DEF DropCaller
  <2>. QED
    BY <2>1 DEF Kill, TypeOK
<1>3. lock' \in Tasks \cup {Free}
  BY DEF DropCaller, Unlocked, TypeOK
<1>4. budget' \in [requests : Nat, faults : Nat, drops : Nat, crashes : Nat]
  BY DEF DropCaller, TypeOK
<1>5. UNCHANGED <<db, disk, ctl, marks>>
  BY DEF DropCaller
<1>. QED
  BY <1>1, <1>2, <1>3, <1>4, <1>5 DEF TypeOK

\* xray exiting by itself.
LEMMA XrayExitsType ==
    ASSUME TypeOK, XrayExits
    PROVE  TypeOK'
<1>1. proc' \in [alive : BOOLEAN, pid : Nat, rules : Rules \cup {Wiped},
                svc : BOOLEAN, ipv4 : BOOLEAN, pushed : BOOLEAN, geo : BOOLEAN,
                immune : BOOLEAN]
  BY DEF XrayExits, TypeOK
<1>. QED
  BY <1>1, FaultSpent DEF XrayExits, TypeOK

\* The panel exiting and booting next to a live or a dead xray.
LEMMA PanelRestartsType ==
    ASSUME TypeOK, PanelRestarts
    PROVE  TypeOK'
<1>1. pc' \in [Tasks -> Steps]
  BY DEF PanelRestarts, Steps, Idle
<1>2. task' \in [Tasks -> TaskRecords]
  <2>1. /\ [NoTask EXCEPT !.kind = "BootReconcile"] \in TaskRecords
        /\ [NoTask EXCEPT !.kind = "BootApply"] \in TaskRecords
    BY IdleTask DEF TaskRecords, AllKinds, BootKinds
  <2>2. PICK a \in Tasks, r \in Tasks :
           task' = [t \in Tasks |-> IF t = r THEN [NoTask EXCEPT !.kind = "BootReconcile"]
                                    ELSE IF t = a THEN [NoTask EXCEPT !.kind = "BootApply"]
                                    ELSE NoTask]
    BY DEF PanelRestarts
  <2>. QED
    BY <2>1, <2>2, IdleTask
<1>3. disk' \in [rules : Rules, svc : BOOLEAN]
  <2>1. [rules |-> db, svc |-> TRUE] \in [rules : Rules, svc : BOOLEAN]
    BY DEF TypeOK
  <2>2. disk' = disk \/ disk' = [rules |-> db, svc |-> TRUE]
    BY DEF PanelRestarts
  <2>. QED
    BY <2>1, <2>2 DEF TypeOK
<1>4. proc' \in [alive : BOOLEAN, pid : Nat, rules : Rules \cup {Wiped},
                svc : BOOLEAN, ipv4 : BOOLEAN, pushed : BOOLEAN, geo : BOOLEAN,
                immune : BOOLEAN]
  <2> DEFINE new == [alive |-> TRUE, pid |-> proc.pid + 1, rules |-> db, svc |-> TRUE,
                     ipv4 |-> db \in IPv4Rules, pushed |-> FALSE, geo |-> TRUE,
                     immune |-> FALSE]
  <2>1. new \in [alive : BOOLEAN, pid : Nat, rules : Rules \cup {Wiped},
                 svc : BOOLEAN, ipv4 : BOOLEAN, pushed : BOOLEAN, geo : BOOLEAN,
                 immune : BOOLEAN]
    <3>1. proc.pid + 1 \in Nat /\ db \in Rules
      BY DEF TypeOK
    <3>. QED
      BY <3>1
  <2>2. \/ proc' = proc \/ proc' = new
        \/ \E immune \in BOOLEAN : proc' = [proc EXCEPT !.immune = immune]
    <3>1. Immunities \subseteq BOOLEAN
      BY DEF Immunities
    <3> HIDE DEF new
    <3>2. \/ proc' = proc \/ proc' = new
          \/ \E immune \in Immunities : proc' = [proc EXCEPT !.immune = immune]
      BY DEF PanelRestarts, new
    <3>. QED
      BY <3>1, <3>2
  <2>3. CASE \E immune \in BOOLEAN : proc' = [proc EXCEPT !.immune = immune]
    BY <2>3 DEF TypeOK
  <2>. QED
    BY <2>1, <2>2, <2>3 DEF TypeOK
<1>5. ctl' \in [pid : Nat, owned : BOOLEAN]
  <2>1. \A p \in Nat, o \in BOOLEAN : [pid |-> p, owned |-> o] \in [pid : Nat, owned : BOOLEAN]
    OBVIOUS
  <2>2. proc.pid \in Nat /\ proc'.pid \in Nat /\ NoPid \in Nat
    BY <1>4 DEF TypeOK, NoPid
  <2>3. \/ ctl' = [pid |-> proc.pid, owned |-> FALSE]
        \/ ctl' = [pid |-> proc'.pid, owned |-> TRUE]
        \/ ctl' = [pid |-> NoPid, owned |-> FALSE]
    BY DEF PanelRestarts
  <2>. QED
    BY <2>1, <2>2, <2>3
<1>6. marks' \in MarkRecords
  <2> DEFINE kept(b)  == [InStep(marks) EXCEPT !.ipv4 = b]
             fresh(b) == [InStep(marks) EXCEPT !.ipv4 = b, !.pending = FALSE]
  <2>1. marks \in MarkRecords
    BY DEF TypeOK, MarkRecords
  <2>2. InStep(marks) \in MarkRecords
    BY <2>1, InStepType
  <2>3. /\ kept(TRUE) \in MarkRecords /\ kept(FALSE) \in MarkRecords
        /\ fresh(TRUE) \in MarkRecords /\ fresh(FALSE) \in MarkRecords
    BY <2>2 DEF MarkRecords
  <2>4. \/ marks' = kept(InForce.ipv4)
        \/ marks' = fresh(db \in IPv4Rules)
        \/ marks' = fresh(FALSE)
    BY DEF PanelRestarts
  <2>5. InForce.ipv4 = TRUE \/ InForce.ipv4 = FALSE
    BY DEF InForce
  <2>6. (db \in IPv4Rules) = TRUE \/ (db \in IPv4Rules) = FALSE
    OBVIOUS
  <2> HIDE DEF kept, fresh
  <2>7. CASE marks' = kept(InForce.ipv4)
    BY <2>3, <2>5, <2>7, Zenon
  <2>8. CASE marks' = fresh(db \in IPv4Rules)
    BY <2>3, <2>6, <2>8, Zenon
  <2>. QED
    BY <2>3, <2>4, <2>7, <2>8, Zenon
<1>7. budget' \in [requests : Nat, faults : Nat, drops : Nat, crashes : Nat]
  BY DEF PanelRestarts, TypeOK
<1>. QED
  BY <1>1, <1>2, <1>3, <1>4, <1>5, <1>6, <1>7 DEF PanelRestarts, TypeOK, MarkRecords

\* The state the panel boots into is typed.
LEMMA InitType ==
    Init => TypeOK
<1> SUFFICES ASSUME Init PROVE TypeOK
  OBVIOUS
<1>1. pc \in [Tasks -> Steps] /\ task \in [Tasks -> TaskRecords]
  BY IdleTask DEF Init, Steps, Idle
<1>2. db \in Rules /\ disk \in [rules : Rules, svc : BOOLEAN]
  BY Constants DEF Init
<1>3. proc \in [alive : BOOLEAN, pid : Nat, rules : Rules \cup {Wiped},
               svc : BOOLEAN, ipv4 : BOOLEAN, pushed : BOOLEAN, geo : BOOLEAN,
               immune : BOOLEAN]
  <2>1. PICK svc \in BOOLEAN, immune \in BOOLEAN :
           proc = [alive |-> TRUE, pid |-> 1, rules |-> InitRules, svc |-> svc,
                   ipv4 |-> InitRules \in IPv4Rules, pushed |-> TRUE, geo |-> TRUE,
                   immune |-> immune]
    <3>1. Immunities \subseteq BOOLEAN
      BY DEF Immunities
    <3>. QED
      BY <3>1 DEF Init
  <2>2. InitRules \in Rules
    BY Constants
  <2>. QED
    BY <2>1, <2>2
<1>4. ctl \in [pid : Nat, owned : BOOLEAN]
  BY DEF Init
<1>5. marks \in MarkRecords
  BY DEF Init, MarkRecords
<1>6. budget \in [requests : Nat, faults : Nat, drops : Nat, crashes : Nat]
  BY Constants DEF Init
<1>7. lock \in Tasks \cup {Free}
  BY DEF Init
<1>. QED
  BY <1>1, <1>2, <1>3, <1>4, <1>5, <1>6, <1>7 DEF TypeOK, MarkRecords

\* Every step of a task keeps the types.
LEMMA StepType ==
    ASSUME TypeOK, NEW t \in Tasks, Acquire(t) \/ Step(t) \/ DropCaller(t)
    PROVE  TypeOK'
BY WriteRowType, AcquireType, ApplyRoutingType, PushType, AnswerType, RegenType,
   StopTakeType, StopKillType, UnpackType, StartBailsType, SpawnType, CheckType,
   NoteType, ResyncType, SwapType, SettleType, ReleaseType, DropCallerType DEF Step

\* Every step of the system keeps the types.
LEMMA NextType ==
    TypeOK /\ [Next]_vars => TypeOK'
<1> SUFFICES ASSUME TypeOK, [Next]_vars PROVE TypeOK'
  OBVIOUS
<1>1. CASE UNCHANGED vars
  BY <1>1 DEF vars, TypeOK
<1>2. CASE Next
  BY <1>2, RequestType, StepType, XrayExitsType, PanelRestartsType DEF Next
<1>. QED
  BY <1>1, <1>2

\* Every variable keeps its type, whatever fails, closes or restarts.
THEOREM TypeCorrect ==
    Spec => []TypeOK
BY InitType, NextType, PTL DEF Spec

-----------------------------------------------------------------------------
(* Exclusion. While no connection has closed under a handler, a task past the *)
(* acquisition holds the mutex, so whoever kills, checks or spawns is alone;  *)
(* then a live process nobody tracks can only be one that is being killed.    *)

Serial ==
    /\ TypeOK
    /\ HoldsMutex
    /\ Tracked

\* Nobody has hung up yet; the panel has not exited yet.
Unhung    == budget.drops = MaxDrops
Uncrashed == budget.crashes = MaxCrashes

\* A step of one task leaves what every other task carries alone.
LEMMA OwnSlot ==
    ASSUME TypeOK, NEW t \in Tasks, Acquire(t) \/ Step(t),
           NEW s \in Tasks, s # t
    PROVE  pc'[s] = pc[s] /\ task'[s] = task[s]
<1>1. pc \in [Tasks -> Steps] /\ task \in [Tasks -> TaskRecords]
  BY DEF TypeOK
<1>2. CASE WriteRow(t) \/ Acquire(t) \/ Release(t) \/ Record(t)
  BY <1>1, <1>2 DEF WriteRow, Acquire, Release, Record, Finish, Goto
<1>3. CASE ApplyRouting(t) \/ Push(t) \/ Answer(t)
  BY <1>1, <1>3 DEF ApplyRouting, Push, Answer, Outcome, Replies, Rebuild, Goto
<1>4. CASE Regen(t) \/ RegenFails(t) \/ StopTake(t) \/ StopKill(t) \/ Unpack(t)
  BY <1>1, <1>4 DEF Regen, RegenFails, StopTake, StopKill, Unpack, Goto
<1>5. CASE StartBails(t) \/ Spawn(t) \/ Check(t)
  BY <1>1, <1>5 DEF StartBails, Spawn, Check, StartFailed, Goto
<1>6. CASE NoteStarted(t) \/ NoteRebuilt(t) \/ NoteGeo(t) \/ Resync(t)
  BY <1>1, <1>6 DEF NoteStarted, NoteRebuilt, NoteGeo, Resync, Goto
<1>7. CASE Swap(t) \/ SwapFails(t) \/ Settle(t)
  BY <1>1, <1>7 DEF Swap, SwapFails, Settle, Goto
<1>. QED
  BY <1>2, <1>3, <1>4, <1>5, <1>6, <1>7 DEF Step

\* A task past the acquisition keeps the mutex until it releases it, and a task
\* that is not past it does not get there without acquiring.
LEMMA MutexKept ==
    ASSUME TypeOK, NEW t \in Tasks, Step(t)
    PROVE  \/ pc[t] \in Holders /\ lock' = lock
           \/ pc'[t] \notin Holders /\ (lock' = lock \/ lock' = Unlocked(t))
<1>1. pc \in [Tasks -> Steps]
  BY DEF TypeOK
<1>2. CASE WriteRow(t) \/ Release(t) \/ Record(t)
  BY <1>1, <1>2 DEF WriteRow, Release, Record, Finish, Goto, Holders, Section, Idle
<1>3. CASE ApplyRouting(t) \/ Push(t) \/ Answer(t)
  BY <1>3 DEF ApplyRouting, Push, Answer, At, Holders, Section
<1>4. CASE Regen(t) \/ RegenFails(t) \/ StopTake(t) \/ StopKill(t) \/ Unpack(t)
  BY <1>4 DEF Regen, RegenFails, StopTake, StopKill, Unpack, At, Holders, Section
<1>5. CASE StartBails(t) \/ Spawn(t) \/ Check(t)
  BY <1>5 DEF StartBails, Spawn, Check, At, Holders, Section
<1>6. CASE NoteStarted(t) \/ NoteRebuilt(t) \/ NoteGeo(t) \/ Resync(t)
  BY <1>6 DEF NoteStarted, NoteRebuilt, NoteGeo, Resync, At, Holders, Section
<1>7. CASE Swap(t) \/ SwapFails(t) \/ Settle(t)
  BY <1>7 DEF Swap, SwapFails, Settle, At, Holders, Section
<1>. QED
  BY <1>2, <1>3, <1>4, <1>5, <1>6, <1>7 DEF Step

\* No step takes the mutex away from the task that is past its acquisition.
LEMMA HoldsMutexNext ==
    ASSUME Serial, Next, \A t \in Tasks : ~DropCaller(t)
    PROVE  HoldsMutex'
<1> SUFFICES ASSUME NEW s \in Tasks, pc'[s] \in Holders
             PROVE  lock' = s
  BY DEF HoldsMutex
<1>0. /\ TypeOK /\ pc \in [Tasks -> Steps] /\ Free \notin Tasks
      /\ \A u \in Tasks : pc[u] \in Holders => lock = u
  BY Constants DEF Serial, TypeOK, HoldsMutex
<1>1. ASSUME NEW t \in Tasks, NEW k \in Kinds, NEW r \in Rules, Request(t, k, r)
      PROVE  lock' = s
  BY <1>0, <1>1 DEF Request, Goto, Holders, Section
<1>2. ASSUME NEW t \in Tasks, Acquire(t)
      PROVE  lock' = s
  <2>1. lock = Free /\ lock' = t
    BY <1>2 DEF Acquire
  <2>2. CASE s = t
    BY <2>1, <2>2
  <2>3. CASE s # t
    BY <1>0, <1>2, <2>1, <2>3, OwnSlot
  <2>. QED
    BY <2>2, <2>3
<1>3. ASSUME NEW t \in Tasks, Step(t)
      PROVE  lock' = s
  <2>1. CASE s = t
    BY <1>0, <1>3, <2>1, MutexKept
  <2>2. CASE s # t
    <3>1. lock = s
      BY <1>0, <1>3, <2>2, OwnSlot
    <3>2. lock' = lock \/ lock' = Unlocked(t)
      BY <1>0, <1>3, MutexKept
    <3>. QED
      BY <2>2, <3>1, <3>2 DEF Unlocked
  <2>. QED
    BY <2>1, <2>2
<1>4. ASSUME NEW t \in Tasks, DropCaller(t)
      PROVE  FALSE
  BY <1>4
<1>5. CASE XrayExits
  BY <1>0, <1>5 DEF XrayExits
<1>6. CASE PanelRestarts
  BY <1>6 DEF PanelRestarts, Holders, Section, Idle
<1>. QED
  BY <1>1, <1>2, <1>3, <1>4, <1>5, <1>6 DEF Next

\* Whoever is past the acquisition is the only one there: nobody else kills.
LEMMA Alone ==
    ASSUME Serial, NEW t \in Tasks, pc[t] \in Holders, pc[t] # "kill"
    PROVE  /\ \A s \in Tasks : ~At(s, "kill")
           /\ Stoppable => ctl.pid = proc.pid
<1>1. ASSUME NEW s \in Tasks, At(s, "kill")
      PROVE  FALSE
  <2>1. lock = s /\ lock = t
    BY <1>1 DEF Serial, HoldsMutex, At, Holders, Section
  <2>. QED
    BY <1>1, <2>1 DEF At
<1>. QED
  BY <1>1 DEF Serial, Tracked

\* Nothing changes as long as the process, its pid, the tracked pid and those
\* about to kill it stay what they are.
LEMMA TrackedFrame ==
    ASSUME Tracked, proc'.pid = proc.pid, ctl'.pid = ctl.pid,
           Stoppable' => Stoppable,
           \A s \in Tasks : At(s, "kill") =>
               pc'[s] = pc[s] /\ task'[s].victim = task[s].victim
    PROVE  Tracked'
BY DEF Tracked, At

\* A step changes the process or the tracked pid only where it is alone.
LEMMA TrackedStep ==
    ASSUME Serial, NEW t \in Tasks, Acquire(t) \/ Step(t)
    PROVE  Tracked'
<1>0. /\ TypeOK /\ Tracked
      /\ pc \in [Tasks -> Steps] /\ task \in [Tasks -> TaskRecords]
      /\ proc.pid \in Nat /\ proc.pid > 0 /\ ctl.pid \in Nat
  BY DEF Serial, TypeOK, Tracked
<1>1. ASSUME pc[t] # "kill"
      PROVE  \A s \in Tasks : At(s, "kill") =>
                 pc'[s] = pc[s] /\ task'[s].victim = task[s].victim
  BY <1>0, <1>1, OwnSlot DEF At
<1>2. CASE StopTake(t)
  <2>1. /\ pc[t] = "take" /\ pc' = [pc EXCEPT ![t] = "kill"]
        /\ task' = [task EXCEPT ![t].victim = ctl.pid] /\ proc' = proc
    BY <1>2 DEF StopTake, At, Goto
  <2>2. Stoppable => ctl.pid = proc.pid
    BY <2>1, Alone DEF Holders, Section
  <2>3. At(t, "kill")' /\ task'[t].victim = ctl.pid
    BY <1>0, <2>1 DEF At, TaskRecords
  <2>. QED
    BY <1>0, <2>1, <2>2, <2>3 DEF Tracked, Stoppable
<1>3. CASE StopKill(t)
  <2>1. pc[t] = "kill" /\ proc' = Kill(task[t].victim) /\ ctl' = ctl
    BY <1>3 DEF StopKill, At
  <2>2. /\ proc'.pid = proc.pid
        /\ Stoppable' => Stoppable /\ proc.pid # task[t].victim
    BY <1>0, <2>1 DEF Kill, Stoppable, TypeOK
  <2>3. \A s \in Tasks : At(s, "kill") => s = t
    BY <2>1 DEF Serial, HoldsMutex, At, Holders, Section
  <2>4. Stoppable' => ctl.pid = proc.pid
    BY <1>0, <2>2, <2>3 DEF Tracked
  <2>. QED
    BY <1>0, <2>1, <2>2, <2>4 DEF Tracked
<1>4. CASE Spawn(t)
  <2>1. pc[t] = "spawn" /\ ctl.pid = NoPid
    BY <1>4 DEF Spawn, At
  <2>2. ~Stoppable
    BY <1>0, <2>1, Alone DEF Holders, Section, NoPid
  <2>3. ctl' = [pid |-> proc.pid + 1, owned |-> TRUE]
    BY <1>4 DEF Spawn
  <2>4. CASE proc' = proc
    BY <1>0, <2>2, <2>4 DEF Tracked, Stoppable
  <2>5. CASE proc' = [alive |-> TRUE, pid |-> ctl'.pid, rules |-> InForce.rules,
                      svc |-> InForce.svc, ipv4 |-> InForce.ipv4,
                      pushed |-> FALSE, geo |-> TRUE, immune |-> FALSE]
    BY <1>0, <2>3, <2>5 DEF Tracked
  <2>. QED
    BY <1>4, <2>4, <2>5 DEF Spawn
<1>5. CASE Check(t)
  <2>1. pc[t] = "check" /\ proc' = proc
    BY <1>5 DEF Check, At
  <2>2. Stoppable => ctl.pid = proc.pid
    BY <2>1, Alone DEF Holders, Section
  <2>3. Stoppable => ctl' = ctl
    BY <1>5, <2>2 DEF Check, Stoppable
  <2>. QED
    BY <1>0, <2>1, <2>2, <2>3 DEF Tracked, Stoppable
<1>6. CASE Push(t) \/ Resync(t) \/ Swap(t) \/ SwapFails(t)
  <2>1. pc[t] # "kill" /\ ctl' = ctl
    BY <1>6 DEF Push, Resync, Swap, SwapFails, At
  <2>2. proc'.pid = proc.pid /\ (Stoppable' => Stoppable)
    BY <1>0, <1>6 DEF Push, AddRule, Resync, Swap, SwapFails, TypeOK, Stoppable
  <2>. QED
    BY <1>0, <1>1, <2>1, <2>2, TrackedFrame
<1>7. CASE Acquire(t) \/ WriteRow(t) \/ ApplyRouting(t) \/ Answer(t) \/ Regen(t) \/ RegenFails(t)
  <2>1. pc[t] # "kill" /\ ctl' = ctl /\ proc' = proc
    BY <1>7 DEF Acquire, WriteRow, ApplyRouting, Answer, Regen, RegenFails, At
  <2>. QED
    BY <1>0, <1>1, <2>1, TrackedFrame DEF Stoppable
<1>8. CASE Unpack(t) \/ StartBails(t) \/ NoteStarted(t) \/ NoteRebuilt(t) \/ NoteGeo(t)
           \/ Settle(t) \/ Release(t) \/ Record(t)
  <2>1. pc[t] # "kill" /\ ctl' = ctl /\ proc' = proc
    BY <1>8 DEF Unpack, StartBails, NoteStarted, NoteRebuilt, NoteGeo, Settle,
                Release, Record, At
  <2>. QED
    BY <1>0, <1>1, <2>1, TrackedFrame DEF Stoppable
<1>. QED
  BY <1>2, <1>3, <1>4, <1>5, <1>6, <1>7, <1>8 DEF Step

\* A live process the controller does not track stays about to be killed.
LEMMA TrackedNext ==
    ASSUME Serial, Next, \A t \in Tasks : ~DropCaller(t)
    PROVE  Tracked'
<1>0. /\ TypeOK /\ Tracked
      /\ pc \in [Tasks -> Steps] /\ task \in [Tasks -> TaskRecords]
      /\ proc.pid \in Nat /\ proc.pid > 0
  BY DEF Serial, TypeOK, Tracked
<1>1. ASSUME NEW t \in Tasks, NEW k \in Kinds, NEW r \in Rules, Request(t, k, r)
      PROVE  Tracked'
  <2>1. /\ pc[t] = Idle /\ ctl' = ctl /\ proc' = proc
        /\ \A s \in Tasks : s # t => pc'[s] = pc[s] /\ task'[s] = task[s]
    BY <1>0, <1>1 DEF Request, Goto, Busy
  <2>2. \A s \in Tasks : At(s, "kill") => s # t
    BY <2>1 DEF At, Idle
  <2>. QED
    BY <1>0, <2>1, <2>2, TrackedFrame DEF Stoppable
<1>2. ASSUME NEW t \in Tasks, DropCaller(t)
      PROVE  FALSE
  BY <1>2
<1>3. CASE XrayExits
  BY <1>0, <1>3 DEF XrayExits, TypeOK, Tracked, Stoppable
<1>4. CASE PanelRestarts
  <2>1. CASE /\ ctl' = [pid |-> proc.pid, owned |-> FALSE]
             /\ \E immune \in Immunities : proc' = [proc EXCEPT !.immune = immune]
    <3>1. proc'.pid = proc.pid
      BY <2>1 DEF Serial, TypeOK
    <3>. QED
      BY <1>0, <2>1, <3>1 DEF Tracked
  <2>2. CASE /\ proc' = [alive |-> TRUE, pid |-> proc.pid + 1, rules |-> db, svc |-> TRUE,
                         ipv4 |-> db \in IPv4Rules, pushed |-> FALSE, geo |-> TRUE,
                         immune |-> FALSE]
             /\ ctl' = [pid |-> proc'.pid, owned |-> TRUE]
    BY <1>0, <2>2 DEF Tracked
  <2>3. CASE ~proc.alive /\ proc' = proc
    BY <1>0, <2>3 DEF Tracked, Stoppable
  <2>. QED
    BY <1>4, <2>1, <2>2, <2>3 DEF PanelRestarts
<1>. QED
  BY <1>1, <1>2, <1>3, <1>4, TrackedStep DEF Next

\* The bounds on closed connections and on exits of the panel are only used up:
\* a step after which one is whole has not used it.
LEMMA BudgetNext ==
    ASSUME TypeOK, budget.drops <= MaxDrops, budget.crashes <= MaxCrashes, Next
    PROVE  /\ budget'.drops <= MaxDrops /\ budget'.crashes <= MaxCrashes
           /\ Unhung' => Unhung /\ \A t \in Tasks : ~DropCaller(t)
           /\ Uncrashed' => Uncrashed /\ ~PanelRestarts
<1>1. budget \in [requests : Nat, faults : Nat, drops : Nat, crashes : Nat]
      /\ MaxDrops \in Nat /\ MaxCrashes \in Nat
  BY Constants DEF TypeOK
<1>2. ASSUME NEW t \in Tasks, Step(t)
      PROVE  UNCHANGED budget \/ SpendFault
  <2>1. CASE WriteRow(t) \/ ApplyRouting(t) \/ Push(t) \/ Answer(t) \/ Regen(t) \/ RegenFails(t)
    BY <2>1 DEF WriteRow, ApplyRouting, Push, Answer, Regen, RegenFails
  <2>2. CASE StopTake(t) \/ StopKill(t) \/ Unpack(t) \/ StartBails(t) \/ Spawn(t) \/ Check(t)
    BY <2>2 DEF StopTake, StopKill, Unpack, StartBails, Spawn, Check
  <2>3. CASE NoteStarted(t) \/ NoteRebuilt(t) \/ NoteGeo(t) \/ Resync(t)
    BY <2>3 DEF NoteStarted, NoteRebuilt, NoteGeo, Resync
  <2>4. CASE Swap(t) \/ SwapFails(t) \/ Settle(t) \/ Release(t) \/ Record(t)
    BY <2>4 DEF Swap, SwapFails, Settle, Release, Record
  <2>. QED
    BY <1>2, <2>1, <2>2, <2>3, <2>4 DEF Step
<1>3. \/ UNCHANGED budget
      \/ SpendFault
      \/ budget' = [budget EXCEPT !.requests = @ - 1]
      \/ /\ budget.drops > 0 /\ budget' = [budget EXCEPT !.drops = @ - 1]
         /\ \E t \in Tasks : DropCaller(t)
      \/ /\ budget.crashes > 0 /\ budget' = [budget EXCEPT !.crashes = @ - 1]
         /\ PanelRestarts
  BY <1>2 DEF Next, Request, Acquire, DropCaller, XrayExits, PanelRestarts
<1>4. /\ budget'.drops <= budget.drops
      /\ budget'.crashes <= budget.crashes
  BY <1>1, <1>3 DEF SpendFault
<1>5. ASSUME NEW t \in Tasks, DropCaller(t)
      PROVE  budget'.drops < budget.drops
  BY <1>1, <1>5 DEF DropCaller
<1>6. ASSUME PanelRestarts
      PROVE  budget'.crashes < budget.crashes
  BY <1>1, <1>6 DEF PanelRestarts
<1>7. budget' \in [requests : Nat, faults : Nat, drops : Nat, crashes : Nat]
  BY NextType DEF TypeOK
<1>. QED
  BY <1>1, <1>4, <1>5, <1>6, <1>7 DEF Unhung, Uncrashed

\* The steps each handler goes through.
HotSteps == {"lock", "apply", "push", "answer", "regen", "take", "kill", "spawn",
             "check", "note", "resync", "release", "record"}
UpSteps  == {"spawn", "check", "note", "resync", "release"}

StepsOf ==
    [Save |-> HotSteps \cup {"write"}, BootApply |-> HotSteps,
     BootReconcile |-> {"lock", "resync", "release"},
     Start |-> {"lock", "regen"} \cup UpSteps,
     Stop |-> {"lock", "take", "kill", "release"},
     Restart |-> {"lock", "regen", "take", "kill"} \cup UpSteps,
     Install |-> {"lock", "take", "kill", "unpack", "regen"} \cup UpSteps,
     Geo |-> {"lock", "swap", "take", "kill", "settle"} \cup UpSteps,
     GeoNightly |-> {"lock", "swap", "settle", "release"}]

Routes == \A t \in Tasks : Busy(t) => pc[t] \in StepsOf[Kind(t)]

\* Whose handler a task at one of the telling steps runs.
LEMMA KindAt ==
    ASSUME TypeOK, Routes, NEW t \in Tasks
    PROVE  /\ pc[t] = "write" => Kind(t) = "Save"
           /\ pc[t] \in {"apply", "push", "answer", "record"} => Kind(t) \in Appliers
           /\ pc[t] \in {"swap", "settle"} => Kind(t) \in GeoKinds
           /\ pc[t] = "unpack" => Kind(t) = "Install"
           /\ pc[t] = "regen" => Kind(t) \in Appliers \cup Starters \cup {"Restart"}
           /\ pc[t] \in {"take", "kill"} =>
                 Kind(t) \in Appliers \cup {"Stop", "Restart", "Install", "Geo"}
           /\ pc[t] \in {"spawn", "check", "note"} =>
                 Kind(t) \in Appliers \cup Starters \cup {"Restart", "Geo"}
BY KindType DEF Routes, StepsOf, HotSteps, UpSteps, Busy, Idle, AllKinds, HttpKinds,
   BootKinds, Appliers, Starters, GeoKinds

\* Every step leads where the handler goes.
LEMMA RoutesStep ==
    ASSUME TypeOK, Routes, NEW t \in Tasks, Acquire(t) \/ Step(t)
    PROVE  Routes'
<1> USE DEF At, Goto, Busy, Kind, Idle
<1>0. /\ pc \in [Tasks -> Steps] /\ task \in [Tasks -> TaskRecords]
      /\ task[t].kind \in AllKinds
      /\ pc[t] # "idle" => pc[t] \in StepsOf[task[t].kind]
      /\ TypeOK'
  BY StepType DEF TypeOK, TaskRecords, Routes
<1>1. SUFFICES pc'[t] # "idle" => pc'[t] \in StepsOf[task'[t].kind]
  BY OwnSlot DEF Routes
<1> USE DEF StepsOf, HotSteps, UpSteps, AllKinds, HttpKinds, BootKinds, Appliers,
            Starters, GeoKinds
<1>2. CASE WriteRow(t) \/ Acquire(t) \/ Release(t) \/ Record(t)
  <2>1. \/ pc'[t] = "idle"
        \/ /\ task'[t].kind = task[t].kind
           /\ \/ pc[t] = "write" /\ pc'[t] = "lock"
              \/ pc[t] = "lock" /\ pc'[t] = IF task[t].kind = "Install"
                                            THEN IF Running THEN "take" ELSE "unpack"
                                            ELSE FirstStep[task[t].kind]
              \/ /\ pc[t] = "release" /\ pc'[t] = "record"
                 /\ task[t].kind \in Appliers
    BY <1>0, <1>2 DEF WriteRow, Acquire, Release, Record, Finish, TaskRecords
  <2>. QED
    BY <1>0, <2>1 DEF FirstStep
<1>3. CASE ApplyRouting(t) \/ Push(t) \/ Answer(t)
  <2>1. /\ task'[t].kind = task[t].kind
        /\ pc[t] \in {"apply", "push", "answer"}
        /\ pc'[t] \in {"release", "regen", "push", "answer"}
    BY <1>0, <1>3 DEF ApplyRouting, Push, Answer, Outcome, Replies, Rebuild, TaskRecords
  <2>. QED
    BY <1>0, <2>1
<1>4. CASE Regen(t) \/ RegenFails(t) \/ StopTake(t) \/ StopKill(t) \/ Unpack(t)
  <2>1. /\ task'[t].kind = task[t].kind
        /\ \/ /\ pc[t] = "regen"
              /\ pc'[t] \in IF task[t].kind \in Starters THEN {"spawn"} ELSE {"take", "release"}
           \/ pc[t] = "take" /\ pc'[t] = "kill"
           \/ pc[t] = "kill" /\ pc'[t] = IF task[t].kind = "Stop" THEN "release"
                                         ELSE IF task[t].kind = "Install" THEN "unpack"
                                         ELSE "spawn"
           \/ pc[t] = "unpack" /\ pc'[t] \in {"regen", "release"}
    BY <1>0, <1>4 DEF Regen, RegenFails, StopTake, StopKill, Unpack, TaskRecords
  <2>. QED
    BY <1>0, <2>1
<1>5. CASE StartBails(t) \/ Spawn(t) \/ Check(t)
  <2>1. /\ task'[t].kind = task[t].kind
        /\ pc[t] \in {"spawn", "check"}
        /\ pc'[t] \in {"check", "note", IF task[t].kind \in Appliers THEN "resync"
                          ELSE IF task[t].kind \in GeoKinds THEN "settle" ELSE "release"}
    BY <1>0, <1>5 DEF StartBails, Spawn, Check, StartFailed, TaskRecords
  <2>. QED
    BY <1>0, <2>1
<1>6. CASE NoteStarted(t) \/ NoteRebuilt(t) \/ NoteGeo(t) \/ Resync(t)
  <2>1. /\ task'[t].kind = task[t].kind
        /\ \/ pc[t] = "note" /\ pc'[t] = "resync"
           \/ pc[t] = "resync" /\ pc'[t] = IF task[t].kind \in GeoKinds THEN "settle"
                                           ELSE "release"
    BY <1>0, <1>6 DEF NoteStarted, NoteRebuilt, NoteGeo, Resync, TaskRecords
  <2>. QED
    BY <1>0, <2>1
<1>7. CASE Swap(t) \/ SwapFails(t) \/ Settle(t)
  <2>1. /\ task'[t].kind = task[t].kind
        /\ \/ /\ pc[t] = "swap" /\ pc'[t] \in {"take", "settle", "release"}
              /\ pc'[t] = "take" => task[t].kind = "Geo"
           \/ pc[t] = "settle" /\ pc'[t] = "release"
    BY <1>0, <1>7 DEF Swap, SwapFails, Settle, TaskRecords
  <2>. QED
    BY <1>0, <2>1
<1>. QED
  BY <1>2, <1>3, <1>4, <1>5, <1>6, <1>7 DEF Step

\* ...and nothing else sends a handler off its way.
LEMMA RoutesNext ==
    ASSUME TypeOK, Routes, Next
    PROVE  Routes'
<1> USE DEF Goto, Busy, Kind, Idle
<1>0. /\ pc \in [Tasks -> Steps] /\ task \in [Tasks -> TaskRecords]
      /\ \A t \in Tasks : pc[t] # "idle" => pc[t] \in StepsOf[task[t].kind]
  BY DEF TypeOK, Routes
<1>1. ASSUME NEW t \in Tasks, NEW k \in Kinds, NEW r \in Rules, Request(t, k, r)
      PROVE  Routes'
  <2>1. /\ task'[t].kind = k /\ k \in AllKinds
        /\ pc'[t] = IF k = "Save" THEN "write" ELSE "lock"
        /\ \A s \in Tasks : s # t => pc'[s] = pc[s] /\ task'[s] = task[s]
    BY <1>0, <1>1, Constants DEF Request, NoTask
  <2>2. pc'[t] \in StepsOf[task'[t].kind]
    BY <2>1 DEF StepsOf, HotSteps, UpSteps, AllKinds, HttpKinds, BootKinds
  <2>. QED
    BY <1>0, <2>1, <2>2 DEF Routes
<1>2. ASSUME NEW t \in Tasks, DropCaller(t)
      PROVE  Routes'
  <2>1. \/ pc' = [pc EXCEPT ![t] = "idle"] /\ task' = [task EXCEPT ![t] = NoTask]
        \/ pc' = pc /\ task' = [task EXCEPT ![t].gone = TRUE]
    BY <1>2 DEF DropCaller, Finish
  <2>2. \A s \in Tasks : \/ pc'[s] = "idle"
                         \/ pc'[s] = pc[s] /\ task'[s].kind = task[s].kind
    BY <1>0, <2>1 DEF TaskRecords
  <2>. QED
    BY <1>0, <2>2 DEF Routes
<1>3. CASE XrayExits
  BY <1>0, <1>3 DEF XrayExits, Routes
<1>4. CASE PanelRestarts
  <2>1. PICK a \in Tasks, r \in Tasks :
           /\ pc' = [t \in Tasks |-> IF t = r \/ (t = a /\ proc.alive) THEN "lock" ELSE "idle"]
           /\ task' = [t \in Tasks |-> IF t = r THEN [NoTask EXCEPT !.kind = "BootReconcile"]
                                       ELSE IF t = a THEN [NoTask EXCEPT !.kind = "BootApply"]
                                       ELSE NoTask]
    BY <1>4 DEF PanelRestarts
  <2>2. \A t \in Tasks : \/ pc'[t] = "idle"
                         \/ pc'[t] = "lock" /\ task'[t].kind \in BootKinds
    BY <2>1 DEF NoTask, BootKinds
  <2>. QED
    BY <2>2 DEF Routes, StepsOf, HotSteps, BootKinds
<1>. QED
  BY <1>1, <1>2, <1>3, <1>4, RoutesStep DEF Next

\* What holds in every state: the bounds are used up, every handler is on its way,
\* and until somebody hangs up the mutex serialises.
IInv ==
    /\ TypeOK
    /\ budget.drops <= MaxDrops /\ budget.crashes <= MaxCrashes
    /\ Routes
    /\ Unhung => Serial

\* IInv holds at first and no step breaks it.
LEMMA Inductive ==
    /\ Init => IInv
    /\ IInv /\ [Next]_vars => IInv'
<1>1. ASSUME Init
      PROVE  IInv
  <2>1. TypeOK
    BY <1>1, InitType
  <2>2. budget.drops = MaxDrops /\ budget.crashes = MaxCrashes
    BY <1>1 DEF Init
  <2>3. HoldsMutex /\ Routes
    BY <1>1 DEF Init, HoldsMutex, Holders, Section, Idle, Routes, Busy
  <2>4. Tracked
    <3>1. proc.pid = 1 /\ ctl.pid = 1
      BY <1>1 DEF Init
    <3>. QED
      BY <3>1 DEF Tracked
  <2>. QED
    BY <2>1, <2>2, <2>3, <2>4, Constants DEF IInv, Serial
<1>2. ASSUME IInv, [Next]_vars
      PROVE  IInv'
  <2>1. CASE UNCHANGED vars
    BY <1>2, <2>1 DEF vars, IInv, Serial, Unhung, TypeOK, HoldsMutex, Tracked, At,
                      Routes, Busy, Kind, Stoppable
  <2>2. CASE Next
    <3>1. TypeOK' /\ Routes' /\ budget'.drops <= MaxDrops /\ budget'.crashes <= MaxCrashes
      BY <1>2, <2>2, NextType, RoutesNext, BudgetNext DEF IInv
    <3>2. ASSUME Unhung'
          PROVE  Serial'
      <4>1. Serial /\ \A t \in Tasks : ~DropCaller(t)
        BY <1>2, <2>2, <3>2, BudgetNext DEF IInv
      <4>. QED
        BY <2>2, <3>1, <4>1, HoldsMutexNext, TrackedNext DEF Serial
    <3>. QED
      BY <3>1, <3>2 DEF IInv
  <2>. QED
    BY <1>2, <2>1, <2>2
<1>. QED
  BY <1>1, <1>2

\* Holding one mutex excludes; and with the pid of every live process tracked or
\* about to be killed by its holder, a start that finds no pid finds no process.
LEMMA Consequences ==
    Serial => ApplyExclusive /\ SpawnOntoFreePort
<1> SUFFICES ASSUME Serial PROVE ApplyExclusive /\ SpawnOntoFreePort
  OBVIOUS
<1>1. ApplyExclusive
  BY DEF Serial, HoldsMutex, Holders, ApplyExclusive
<1>2. ASSUME NEW t \in Tasks, At(t, "spawn"), ctl.pid = NoPid
      PROVE  ~Stoppable
  <2>1. Stoppable => ctl.pid = proc.pid
    BY <1>2, Alone DEF At, Holders, Section
  <2>2. proc.pid \in Nat /\ proc.pid > 0
    BY DEF Serial, TypeOK, Tracked
  <2>. QED
    BY <1>2, <2>1, <2>2 DEF NoPid
<1>. QED
  BY <1>1, <1>2 DEF SpawnOntoFreePort

\* Until a connection closes under a handler, never two tasks apply configuration
\* or (re)start the process at once.
THEOREM ApplyIsExclusive ==
    Spec => [](Unhung => ApplyExclusive)
<1>1. IInv => (Unhung => ApplyExclusive)
  BY Consequences DEF IInv
<1>. QED
  BY <1>1, Inductive, PTL DEF Spec

\* ...and a start that gets past the "already running" check never launches a
\* second xray while an older one still holds the API port.
THEOREM NoSecondCore ==
    Spec => [](Unhung => SpawnOntoFreePort)
<1>1. IInv => (Unhung => SpawnOntoFreePort)
  BY Consequences DEF IInv
<1>. QED
  BY <1>1, Inductive, PTL DEF Spec

-----------------------------------------------------------------------------
(* What the handlers leave behind: a router with its api pin, a core that  *)
(* serves, a note for every geofile that is not in force, and no restart   *)
(* by a save that a push could have spared.                                *)

\* The only holder is the one that is past the acquisition.
LEMMA OneHolder ==
    ASSUME Serial, NEW s \in Tasks, NEW t \in Tasks,
           pc[s] \in Holders, pc[t] \in Holders
    PROVE  s = t
BY DEF Serial, HoldsMutex

\* What a step may do to the process, and who does it.
LEMMA ProcessStep ==
    ASSUME TypeOK, NEW t \in Tasks, Acquire(t) \/ Step(t)
    PROVE  \/ proc' = proc
           \/ Push(t) \/ StopKill(t) \/ Spawn(t) \/ Resync(t) \/ Swap(t) \/ SwapFails(t)
BY DEF Step, Acquire, WriteRow, ApplyRouting, Answer, Regen, RegenFails, StopTake, Unpack,
       StartBails, Check, NoteStarted, NoteRebuilt, NoteGeo, Settle, Release, Record

-----------------------------------------------------------------------------
(* The api pin. A router emptied by a refused rule set is on its way to the   *)
(* restart that puts the pin back, in the hands of whoever emptied it.        *)

Rescues(t) ==
    \/ At(t, "answer") /\ task[t].reply \in {"rejected", "ambiguous"}
    \/ At(t, "regen") /\ task[t].wiped /\ Kind(t) \in Appliers
    \/ At(t, "take")
    \/ At(t, "kill") /\ task[t].victim = proc.pid

Rescued ==
    Stoppable /\ proc.rules = Wiped => \E t \in Tasks : Rescues(t)

LEMMA RescuedStep ==
    ASSUME Serial, Routes, Rescued, NEW t \in Tasks, Acquire(t) \/ Step(t)
    PROVE  Rescued'
<1> USE DEF At, Goto, Kind
<1>0. /\ TypeOK /\ pc \in [Tasks -> Steps] /\ task \in [Tasks -> TaskRecords]
      /\ proc \in [alive : BOOLEAN, pid : Nat, rules : Rules \cup {Wiped},
                   svc : BOOLEAN, ipv4 : BOOLEAN, pushed : BOOLEAN, geo : BOOLEAN,
                   immune : BOOLEAN]
      /\ disk.rules \in Rules /\ Wiped \notin Rules
  BY Constants DEF Serial, TypeOK
<1> SUFFICES ASSUME Stoppable', proc'.rules = Wiped
             PROVE  \E s \in Tasks : Rescues(s)'
  BY DEF Rescued
<1>1. CASE Push(t)
  <2>1. \/ pc'[t] = "answer" /\ task'[t].reply \in {"rejected", "ambiguous"}
        \/ pc[t] = "push" /\ proc' = proc
    <3>1. task[t].rules \in Rules
      BY <1>0 DEF TaskRecords
    <3>2. CASE proc' = AddRule(task[t].rules)
      <4>1. task[t].rules \in RefusedRules
        BY <1>0, <3>1, <3>2 DEF AddRule
      <4>. QED
        BY <1>0, <1>1, <4>1 DEF Push, Replies, TaskRecords
    <3>3. proc' = AddRule(task[t].rules) \/ (pc[t] = "push" /\ proc' = proc)
      BY <1>1 DEF Push
    <3>. QED
      BY <3>2, <3>3
  <2>2. CASE pc[t] = "push" /\ proc' = proc
    <3>1. PICK s \in Tasks : Rescues(s)
      BY <2>2 DEF Rescued, Stoppable
    <3>2. pc[s] \in Holders /\ pc[t] \in Holders /\ s # t
      BY <2>2, <3>1 DEF Rescues, Holders, Section
    <3>. QED
      BY <3>2, OneHolder
  <2>. QED
    BY <2>1, <2>2 DEF Rescues
<1>2. CASE Spawn(t)
  <2>1. ~Stoppable
    <3>1. ctl.pid = NoPid /\ pc[t] \in Holders /\ pc[t] # "kill"
      BY <1>2 DEF Spawn, Holders, Section
    <3>2. Stoppable => ctl.pid = proc.pid
      BY <3>1, Alone
    <3>. QED
      BY <3>1, <3>2 DEF Serial, Tracked, NoPid
  <2>. QED
    BY <1>0, <1>2, <2>1 DEF Spawn, InForce, Stoppable
<1>3. CASE ~Push(t) /\ ~Spawn(t)
  <2>1. Stoppable /\ proc.rules = Wiped /\ proc'.pid = proc.pid
    BY <1>0, <1>3, ProcessStep DEF StopKill, Kill, Resync, Swap, SwapFails, Stoppable
  <2>2. PICK s \in Tasks : Rescues(s)
    BY <2>1 DEF Rescued
  <2>3. CASE s # t
    <3>1. pc'[s] = pc[s] /\ task'[s] = task[s]
      BY <1>0, <2>3, OwnSlot
    <3>. QED
      BY <2>1, <2>2, <3>1 DEF Rescues
  <2>4. CASE s = t
    <3>1. CASE Answer(t)
      <4>1. pc'[t] = "regen" /\ task'[t].wiped /\ task'[t].kind \in Appliers
        BY <1>0, <2>2, <2>4, <3>1, KindAt DEF Answer, Rescues, Rebuild, RestartReplies,
           WipedReplies, TaskRecords, Serial
      <4>. QED
        BY <4>1 DEF Rescues
    <3>2. CASE Regen(t) \/ RegenFails(t)
      <4>1. pc'[t] = "take"
        BY <1>0, <2>2, <2>4, <3>2 DEF Regen, RegenFails, Rescues, Appliers, Starters
      <4>. QED
        BY <4>1 DEF Rescues
    <3>3. CASE StopTake(t)
      <4>1. ctl.pid = proc.pid
        BY <2>1, <3>3, Alone DEF StopTake, Holders, Section
      <4>2. pc'[t] = "kill" /\ task'[t].victim = proc'.pid
        BY <1>0, <2>1, <3>3, <4>1 DEF StopTake, TaskRecords
      <4>. QED
        BY <4>2 DEF Rescues
    <3>4. CASE StopKill(t)
      BY <1>0, <2>2, <2>4, <3>4 DEF StopKill, Kill, Rescues, Stoppable
    <3>5. Answer(t) \/ Regen(t) \/ RegenFails(t) \/ StopTake(t) \/ StopKill(t)
      BY <2>2, <2>4 DEF Rescues, Step, Acquire, WriteRow, ApplyRouting, Push, Unpack,
         StartBails, Spawn, Check, NoteStarted, NoteRebuilt, NoteGeo, Resync, Swap,
         SwapFails, Settle, Release, Record
    <3>. QED
      BY <3>1, <3>2, <3>3, <3>4, <3>5
  <2>. QED
    BY <2>3, <2>4
<1>. QED
  BY <1>1, <1>2, <1>3

LEMMA RescuedNext ==
    ASSUME Serial, Routes, Rescued, Next, \A t \in Tasks : ~DropCaller(t), ~PanelRestarts
    PROVE  Rescued'
<1>1. ASSUME NEW t \in Tasks, NEW k \in Kinds, NEW r \in Rules, Request(t, k, r)
      PROVE  Rescued'
  <2>1. /\ proc' = proc /\ pc[t] = Idle
        /\ \A s \in Tasks : s # t => pc'[s] = pc[s] /\ task'[s] = task[s]
    BY <1>1 DEF Request, Goto, Busy, Serial, TypeOK
  <2>2. \A s \in Tasks : Rescues(s) => s # t
    BY <2>1 DEF Rescues, At, Idle
  <2>. QED
    BY <2>1, <2>2 DEF Rescued, Rescues, At, Kind, Stoppable
<1>2. CASE XrayExits
  BY <1>2 DEF XrayExits, Rescued, Serial, TypeOK, Stoppable
<1>. QED
  BY <1>1, <1>2, RescuedStep DEF Next

LEMMA RescuedInit ==
    Init => Rescued
<1> SUFFICES ASSUME Init PROVE Rescued
  OBVIOUS
<1>1. proc.rules = InitRules
  BY DEF Init
<1>. QED
  BY <1>1, Constants DEF Rescued

\* Until somebody hangs up or the panel exits, the mutex is never free with a
\* router that has lost the api pin, whichever rule sets xray refused.
THEOREM PinKept ==
    Spec => []RouterKeepsApiPin
<1> DEFINE Inv == IInv /\ (Undisturbed => Rescued)
<1>1. Init => Inv
  BY Inductive, RescuedInit
<1>2. Inv /\ [Next]_vars => Inv'
  <2> SUFFICES ASSUME Inv, [Next]_vars, Undisturbed' PROVE Rescued'
    BY Inductive
  <2>1. CASE UNCHANGED vars
    BY <2>1 DEF vars, Undisturbed, Rescued, Rescues, At, Kind, Stoppable
  <2>2. CASE Next
    <3>1. Undisturbed /\ (\A t \in Tasks : ~DropCaller(t)) /\ ~PanelRestarts
      BY <2>2, BudgetNext DEF IInv, Undisturbed, Unhung, Uncrashed
    <3>. QED
      BY <2>2, <3>1, RescuedNext DEF IInv, Undisturbed, Unhung
  <2>. QED
    BY <2>1, <2>2
<1>3. Inv => RouterKeepsApiPin
  <2> SUFFICES ASSUME Serial, Rescued, lock = Free, Stoppable, proc.rules = Wiped
               PROVE  FALSE
    BY DEF IInv, Undisturbed, Unhung, RouterKeepsApiPin
  <2>1. PICK t \in Tasks : Rescues(t)
    BY DEF Rescued
  <2>2. lock = t
    BY <2>1 DEF Rescues, At, Serial, HoldsMutex, Holders, Section
  <2>. QED
    BY <2>2, Constants
<1>. QED
  BY <1>1, <1>2, <1>3, PTL DEF Spec

-----------------------------------------------------------------------------
(* Inbounds served. Whoever brings a process up is on its way to push the     *)
(* inbounds into it, for as long as the controller tracks that process; and   *)
(* whoever takes it off the controller's books is about to kill it.           *)

Serving(t) ==
    \/ pc[t] \in {"check", "note", "resync"} /\ ctl.pid = proc.pid
    \/ At(t, "lock") /\ Kind(t) = "BootReconcile" /\ ctl.pid = proc.pid
    \/ At(t, "kill") /\ task[t].victim = proc.pid

Served ==
    /\ proc.pid > 0
    /\ Stoppable /\ ~proc.pushed => \E t \in Tasks : Serving(t)

\* The re-push of a running process gets through: its router has its api pin.
PinAtResync ==
    \A t \in Tasks : At(t, "resync") /\ Stoppable => proc.rules # Wiped

LEMMA ServedStep ==
    ASSUME TypeOK, PinAtResync, Served, NEW t \in Tasks, Acquire(t) \/ Step(t)
    PROVE  Served'
<1> USE DEF At, Goto, Kind
<1>0. /\ pc \in [Tasks -> Steps] /\ task \in [Tasks -> TaskRecords]
      /\ proc \in [alive : BOOLEAN, pid : Nat, rules : Rules \cup {Wiped},
                   svc : BOOLEAN, ipv4 : BOOLEAN, pushed : BOOLEAN, geo : BOOLEAN,
                   immune : BOOLEAN]
      /\ ctl \in [pid : Nat, owned : BOOLEAN] /\ proc.pid > 0
  BY DEF TypeOK, Served
<1>1. proc'.pid > 0
  <2>1. CASE Spawn(t)
    <3>1. ctl'.pid = proc.pid + 1 /\ (proc' = proc \/ proc'.pid = ctl'.pid)
      BY <2>1 DEF Spawn
    <3>. QED
      BY <1>0, <3>1
  <2>2. CASE ~Spawn(t)
    BY <1>0, <2>2, ProcessStep DEF Push, AddRule, StopKill, Kill, Resync, Swap, SwapFails
  <2>. QED
    BY <2>1, <2>2
<1> SUFFICES ASSUME Stoppable', ~proc'.pushed
             PROVE  \E s \in Tasks : Serving(s)'
  BY <1>1 DEF Served
<1>2. CASE Spawn(t) /\ proc' # proc
  <2>1. pc'[t] = "check" /\ ctl'.pid = proc'.pid
    BY <1>0, <1>2 DEF Spawn
  <2>. QED
    BY <2>1 DEF Serving
<1>3. CASE ~(Spawn(t) /\ proc' # proc)
  <2>1. Stoppable /\ ~proc.pushed /\ proc'.pid = proc.pid
    BY <1>0, <1>3, ProcessStep DEF Push, AddRule, StopKill, Kill, Resync, Swap, SwapFails,
       Stoppable
  <2>2. PICK s \in Tasks : Serving(s)
    BY <2>1 DEF Served
  <2>3. CASE pc[s] = "kill"
    <3>1. task[s].victim = proc.pid
      BY <2>2, <2>3 DEF Serving
    <3>2. CASE s = t
      <4>1. StopKill(t)
        BY <2>3, <3>2 DEF Step, Acquire, WriteRow, ApplyRouting, Push, Answer, Regen,
           RegenFails, StopTake, Unpack, StartBails, Spawn, Check, NoteStarted,
           NoteRebuilt, NoteGeo, Resync, Swap, SwapFails, Settle, Release, Record
      <4>. QED
        BY <1>0, <3>1, <3>2, <4>1 DEF StopKill, Kill, Stoppable
    <3>3. CASE s # t
      <4>1. pc'[s] = pc[s] /\ task'[s] = task[s]
        BY <3>3, OwnSlot
      <4>. QED
        BY <2>1, <2>3, <3>1, <4>1 DEF Serving
    <3>. QED
      BY <3>2, <3>3
  <2>4. CASE pc[s] # "kill"
    <3>1. /\ ctl.pid = proc.pid
          /\ \/ pc[s] \in {"check", "note", "resync"}
             \/ pc[s] = "lock" /\ task[s].kind = "BootReconcile"
      BY <2>2, <2>4 DEF Serving
    <3>2. CASE StopTake(t)
      <4>1. pc'[t] = "kill" /\ task'[t].victim = proc'.pid
        BY <1>0, <2>1, <3>1, <3>2 DEF StopTake, TaskRecords
      <4>. QED
        BY <4>1 DEF Serving
    <3>3. CASE ~StopTake(t)
      <4>1. ~Spawn(t)
        BY <1>0, <3>1 DEF Spawn, NoPid
      <4>2. ctl' = ctl
        BY <2>1, <3>1, <3>3, <4>1 DEF Step, Acquire, WriteRow, ApplyRouting, Push, Answer,
           Regen, RegenFails, StopKill, Unpack, StartBails, Check, NoteStarted,
           NoteRebuilt, NoteGeo, Resync, Swap, SwapFails, Settle, Release, Record, Stoppable
      <4>3. CASE s # t
        <5>1. pc'[s] = pc[s] /\ task'[s] = task[s]
          BY <4>3, OwnSlot
        <5>. QED
          BY <2>1, <3>1, <4>2, <5>1 DEF Serving
      <4>4. CASE s = t
        <5>1. CASE Acquire(t)
          <6>1. pc'[t] = "resync"
            BY <1>0, <3>1, <4>4, <5>1 DEF Acquire, FirstStep
          <6>. QED
            BY <2>1, <3>1, <4>2, <6>1 DEF Serving
        <5>2. CASE Check(t)
          <6>1. pc'[t] = "note"
            BY <1>0, <2>1, <3>1, <5>2 DEF Check, Stoppable
          <6>. QED
            BY <2>1, <3>1, <4>2, <6>1 DEF Serving
        <5>3. CASE NoteStarted(t) \/ NoteRebuilt(t) \/ NoteGeo(t)
          <6>1. pc'[t] = "resync"
            BY <1>0, <5>3 DEF NoteStarted, NoteRebuilt, NoteGeo
          <6>. QED
            BY <2>1, <3>1, <4>2, <6>1 DEF Serving
        <5>4. CASE Resync(t)
          <6>1. Reconciled
            BY <1>0, <2>1, <3>1, <5>4 DEF Resync, Reconciled, Running, NoPid, PinAtResync,
               Stoppable
          <6>. QED
            BY <1>0, <5>4, <6>1 DEF Resync
        <5>. QED
          BY <3>1, <4>4, <5>1, <5>2, <5>3, <5>4 DEF Step, WriteRow, ApplyRouting, Push,
             Answer, Regen, RegenFails, StopTake, StopKill, Unpack, StartBails, Spawn,
             Swap, SwapFails, Settle, Release, Record
      <4>. QED
        BY <4>3, <4>4
    <3>. QED
      BY <3>2, <3>3
  <2>. QED
    BY <2>3, <2>4
<1>. QED
  BY <1>2, <1>3

\* A boot queues a reconcile behind the process it adopts or starts.
LEMMA ServedBoot ==
    ASSUME TypeOK, Served, PanelRestarts
    PROVE  Served'
<1>1. proc.pid \in Nat /\ proc.pid > 0
  BY DEF TypeOK, Served
<1>2. PICK r \in Tasks : pc'[r] = "lock" /\ task'[r].kind = "BootReconcile"
  BY DEF PanelRestarts, NoTask
<1>3. /\ proc'.pid > 0
      /\ proc'.alive => ctl'.pid = proc'.pid
  <2>1. CASE \E immune \in Immunities : proc' = [proc EXCEPT !.immune = immune]
    <3>1. proc'.pid = proc.pid /\ proc'.alive = proc.alive
      BY <2>1 DEF TypeOK
    <3>. QED
      BY <1>1, <3>1 DEF PanelRestarts
  <2>2. CASE ~\E immune \in Immunities : proc' = [proc EXCEPT !.immune = immune]
    BY <1>1, <2>2 DEF PanelRestarts
  <2>. QED
    BY <2>1, <2>2
<1>. QED
  BY <1>2, <1>3 DEF Served, Serving, At, Kind, Stoppable

\* A request and an exit of xray take nobody off the way.
LEMMA ServedRest ==
    ASSUME TypeOK, Served,
           \/ XrayExits
           \/ \E t \in Tasks, k \in Kinds, r \in Rules : Request(t, k, r)
    PROVE  Served'
<1>1. CASE XrayExits
  BY <1>1 DEF XrayExits, Served, TypeOK, Stoppable
<1>2. ASSUME NEW t \in Tasks, NEW k \in Kinds, NEW r \in Rules, Request(t, k, r)
      PROVE  Served'
  <2>1. /\ proc' = proc /\ ctl' = ctl /\ pc[t] = Idle
        /\ \A s \in Tasks : s # t => pc'[s] = pc[s] /\ task'[s] = task[s]
    BY <1>2 DEF Request, Goto, Busy, TypeOK
  <2>2. \A s \in Tasks : Serving(s) => s # t
    BY <2>1 DEF Serving, At, Idle
  <2>. QED
    BY <2>1, <2>2 DEF Served, Serving, At, Kind, Stoppable
<1>. QED
  BY <1>1, <1>2

\* Nobody is on the way in a quiet system.
LEMMA ServedWhenQuiet ==
    Served => InboundsServed
BY DEF Served, Serving, InboundsServed, Quiet, Busy, At, Idle

LEMMA ServedInit ==
    Init => Served
<1> SUFFICES ASSUME Init PROVE Served
  OBVIOUS
<1>1. proc.pid = 1 /\ proc.pushed
  BY DEF Init
<1>. QED
  BY <1>1 DEF Served

\* Until somebody hangs up or the panel exits, no core that serves nobody is left
\* once every handler has answered, whatever xray refused.
THEOREM ServedUndisturbed ==
    Spec => [](Undisturbed => InboundsServed)
<1> DEFINE Inv == IInv /\ (Undisturbed => Rescued /\ Served)
<1>1. Init => Inv
  BY Inductive, RescuedInit, ServedInit
<1>2. Inv /\ [Next]_vars => Inv'
  <2> SUFFICES ASSUME Inv, [Next]_vars, Undisturbed' PROVE Rescued' /\ Served'
    BY Inductive
  <2>1. CASE UNCHANGED vars
    BY <2>1 DEF vars, Undisturbed, Rescued, Rescues, Served, Serving, At, Kind,
       Stoppable
  <2>2. CASE Next
    <3>1. /\ Undisturbed /\ (\A t \in Tasks : ~DropCaller(t)) /\ ~PanelRestarts
          /\ TypeOK /\ Serial /\ Routes /\ Rescued /\ Served
      BY <2>2, BudgetNext DEF IInv, Undisturbed, Unhung, Uncrashed
    <3>2. PinAtResync
      <4> SUFFICES ASSUME NEW t \in Tasks, At(t, "resync"), Stoppable, proc.rules = Wiped
                   PROVE  FALSE
        BY DEF PinAtResync
      <4>1. PICK s \in Tasks : Rescues(s)
        BY <3>1 DEF Rescued
      <4>2. pc[s] \in Holders /\ pc[t] \in Holders /\ s # t
        BY <4>1 DEF Rescues, At, Holders, Section
      <4>. QED
        BY <3>1, <4>2, OneHolder
    <3>. QED
      BY <2>2, <3>1, <3>2, RescuedNext, ServedStep, ServedRest DEF Next
  <2>. QED
    BY <2>1, <2>2
<1>3. Inv => (Undisturbed => InboundsServed)
  BY ServedWhenQuiet
<1>. QED
  BY <1>1, <1>2, <1>3, PTL DEF Spec

\* Closed connections and exits of the panel. Where xray refuses nothing, what
\* takes the process away is shielded: a hang-up costs the caller, not the work.
KindsKnown ==
    \A t \in Tasks : Busy(t) => Kind(t) \in Kinds \cup BootKinds

Shielding ==
    \A t \in Tasks :
        /\ Kind(t) = "Restart" /\ Busy(t) => task[t].shielded
        /\ Kind(t) \in {"Save", "Geo"}
           /\ pc[t] \in {"regen", "take", "kill", "spawn", "check", "note", "resync"} =>
                 task[t].shielded

LEMMA ShieldingStep ==
    ASSUME TypeOK, Routes, KindsKnown, Shielding, NEW t \in Tasks, Acquire(t) \/ Step(t)
    PROVE  KindsKnown' /\ Shielding'
<1> USE DEF At, Goto, Busy, Kind, Idle
<1>0. pc \in [Tasks -> Steps] /\ task \in [Tasks -> TaskRecords]
  BY DEF TypeOK
<1> DEFINE Kept   == task'[t].kind = task[t].kind /\ pc[t] # "idle"
           Shield == task'[t].shielded = task[t].shielded
           Taking == {"regen", "take", "kill", "spawn", "check", "note", "resync"}
<1>1. SUFFICES \/ pc'[t] = "idle"
               \/ /\ Kept
                  /\ \/ Shield /\ (pc'[t] \in Taking => pc[t] \in Taking)
                     \/ Shield /\ task[t].kind \notin {"Save", "Geo"}
                     \/ task'[t].shielded /\ task[t].kind # "Restart"
                     \/ task[t].kind \notin {"Save", "Restart"} /\ pc'[t] \notin Taking
  BY OwnSlot DEF KindsKnown, Shielding
<1>2. CASE WriteRow(t) \/ Release(t) \/ Record(t)
  BY <1>0, <1>2 DEF WriteRow, Release, Record, Finish, TaskRecords
<1>3. CASE Acquire(t)
  <2>1. Kept /\ Shield /\ pc'[t] = IF task[t].kind = "Install"
                                   THEN IF Running THEN "take" ELSE "unpack"
                                   ELSE FirstStep[task[t].kind]
    BY <1>0, <1>3 DEF Acquire, TaskRecords
  <2>2. task[t].kind \in {"Save", "Geo"} => pc'[t] \notin Taking
    BY <2>1 DEF FirstStep
  <2>. QED
    BY <2>1, <2>2
<1>4. CASE ApplyRouting(t) \/ Answer(t)
  <2>1. task[t].kind \in Appliers
    BY <1>4, KindAt DEF ApplyRouting, Answer
  <2>. QED
    BY <1>0, <1>4, <2>1 DEF ApplyRouting, Answer, Outcome, Rebuild, Appliers, TaskRecords
<1>5. CASE Push(t)
  BY <1>0, <1>5 DEF Push, Replies, TaskRecords
<1>6. CASE Unpack(t)
  <2>1. task[t].kind = "Install"
    BY <1>6, KindAt DEF Unpack
  <2>. QED
    BY <1>0, <1>6, <2>1 DEF Unpack
<1>7. CASE Regen(t) \/ RegenFails(t) \/ StopTake(t) \/ StopKill(t)
  BY <1>0, <1>7 DEF Regen, RegenFails, StopTake, StopKill, TaskRecords
<1>8. CASE StartBails(t) \/ Spawn(t) \/ Check(t)
  BY <1>0, <1>8 DEF StartBails, Spawn, Check, StartFailed, TaskRecords
<1>9. CASE NoteStarted(t) \/ NoteRebuilt(t) \/ NoteGeo(t) \/ Resync(t)
  BY <1>0, <1>9 DEF NoteStarted, NoteRebuilt, NoteGeo, Resync, TaskRecords
<1>10. CASE Swap(t) \/ SwapFails(t) \/ Settle(t)
  <2>1. task[t].kind \in GeoKinds
    BY <1>10, KindAt DEF Swap, SwapFails, Settle
  <2>2. CASE SwapFails(t) \/ Settle(t)
    BY <1>0, <2>1, <2>2 DEF SwapFails, Settle
  <2>3. CASE Swap(t)
    <3>1. /\ Kept
          /\ \/ pc'[t] = "take" /\ task'[t].shielded
             \/ pc'[t] \in {"settle", "release"}
      BY <1>0, <2>3 DEF Swap, TaskRecords
    <3>. QED
      BY <2>1, <3>1 DEF GeoKinds
  <2>. QED
    BY <1>10, <2>2, <2>3
<1>. QED
  BY <1>2, <1>3, <1>4, <1>5, <1>6, <1>7, <1>8, <1>9, <1>10 DEF Step

LEMMA ShieldingNext ==
    ASSUME TypeOK, Routes, KindsKnown, Shielding, Next
    PROVE  KindsKnown' /\ Shielding'
<1> USE DEF Goto, Busy, Kind, Idle
<1>0. pc \in [Tasks -> Steps] /\ task \in [Tasks -> TaskRecords]
  BY DEF TypeOK
<1>1. ASSUME NEW t \in Tasks, NEW k \in Kinds, NEW r \in Rules, Request(t, k, r)
      PROVE  KindsKnown' /\ Shielding'
  <2>1. /\ task'[t].kind = k /\ (k = "Restart" => task'[t].shielded)
        /\ pc'[t] \in {"write", "lock"}
        /\ \A s \in Tasks : s # t => pc'[s] = pc[s] /\ task'[s] = task[s]
    BY <1>0, <1>1 DEF Request, NoTask
  <2>. QED
    BY <2>1 DEF KindsKnown, Shielding
<1>2. ASSUME NEW t \in Tasks, DropCaller(t)
      PROVE  KindsKnown' /\ Shielding'
  <2>1. \/ pc' = [pc EXCEPT ![t] = "idle"] /\ task' = [task EXCEPT ![t] = NoTask]
        \/ pc' = pc /\ task' = [task EXCEPT ![t].gone = TRUE]
    BY <1>2 DEF DropCaller, Finish
  <2>2. \A s \in Tasks : \/ pc'[s] = "idle"
                         \/ /\ pc'[s] = pc[s] /\ task'[s].kind = task[s].kind
                            /\ task'[s].shielded = task[s].shielded
    BY <1>0, <2>1 DEF TaskRecords
  <2>. QED
    BY <2>2 DEF KindsKnown, Shielding
<1>3. CASE XrayExits
  BY <1>3 DEF XrayExits, KindsKnown, Shielding
<1>4. CASE PanelRestarts
  <2>1. PICK a \in Tasks, r \in Tasks :
           /\ pc' = [t \in Tasks |-> IF t = r \/ (t = a /\ proc.alive) THEN "lock" ELSE "idle"]
           /\ task' = [t \in Tasks |-> IF t = r THEN [NoTask EXCEPT !.kind = "BootReconcile"]
                                       ELSE IF t = a THEN [NoTask EXCEPT !.kind = "BootApply"]
                                       ELSE NoTask]
    BY <1>4 DEF PanelRestarts
  <2>2. \A t \in Tasks : \/ pc'[t] = "idle"
                         \/ pc'[t] = "lock" /\ task'[t].kind \in BootKinds
    BY <2>1 DEF NoTask, BootKinds
  <2>. QED
    BY <2>2 DEF KindsKnown, Shielding, BootKinds
<1>. QED
  BY <1>1, <1>2, <1>3, <1>4, ShieldingStep DEF Next

\* A handler that would be missed goes on without its caller.
LEMMA ServedDrop ==
    ASSUME TypeOK, Routes, KindsKnown, Shielding, Served,
           Kinds \cap {"Start", "Stop", "Install"} = {},
           NEW t \in Tasks, DropCaller(t)
    PROVE  Served'
<1> USE DEF At, Busy, Kind, Idle
<1>0. pc \in [Tasks -> Steps] /\ task \in [Tasks -> TaskRecords] /\ ctl' = ctl
  BY DEF TypeOK, DropCaller
<1>1. ASSUME NEW s \in Tasks, Serving(s), s = t
      PROVE  task[t].shielded
  <2>1. /\ task[t].kind \in HttpKinds /\ pc[t] # "idle"
        /\ pc[t] \in {"check", "note", "resync", "kill"}
    BY <1>1 DEF DropCaller, Serving, HttpKinds
  <2>2. task[t].kind \in {"Save", "Restart", "Geo"}
    BY <2>1 DEF KindsKnown, HttpKinds, BootKinds
  <2>. QED
    BY <2>1, <2>2 DEF Shielding
<1>2. CASE task[t].shielded
  <2>1. proc' = proc /\ pc' = pc /\ task' = [task EXCEPT ![t].gone = TRUE]
    BY <1>2 DEF DropCaller
  <2>2. \A s \in Tasks : /\ task'[s].kind = task[s].kind
                         /\ task'[s].victim = task[s].victim
    BY <1>0, <2>1 DEF TaskRecords
  <2>. QED
    BY <1>0, <2>1, <2>2 DEF Served, Serving, Stoppable
<1>3. CASE ~task[t].shielded
  <2>1. /\ pc' = [pc EXCEPT ![t] = "idle"] /\ task' = [task EXCEPT ![t] = NoTask]
        /\ proc' = proc \/ proc' = Kill(task[t].victim)
    BY <1>3 DEF DropCaller, Finish
  <2>2. /\ proc'.pid = proc.pid /\ proc'.pushed = proc.pushed
        /\ Stoppable' => Stoppable
    BY <2>1 DEF Kill, TypeOK, Stoppable
  <2>3. \A s \in Tasks : Serving(s) => s # t
    BY <1>1, <1>3
  <2>4. \A s \in Tasks : s # t => pc'[s] = pc[s] /\ task'[s] = task[s]
    BY <1>0, <2>1
  <2>. QED
    BY <1>0, <2>2, <2>3, <2>4 DEF Served, Serving
<1>. QED
  BY <1>2, <1>3

\* A router xray never refused anything for keeps its api pin.
LEMMA NeverWipedNext ==
    ASSUME TypeOK, RefusedRules = {}, proc.rules # Wiped, Next
    PROVE  proc'.rules # Wiped
<1>0. /\ db \in Rules /\ disk.rules \in Rules /\ Wiped \notin Rules
      /\ proc \in [alive : BOOLEAN, pid : Nat, rules : Rules \cup {Wiped},
                   svc : BOOLEAN, ipv4 : BOOLEAN, pushed : BOOLEAN, geo : BOOLEAN,
                   immune : BOOLEAN]
  BY Constants DEF TypeOK
<1>1. ASSUME NEW t \in Tasks, Acquire(t) \/ Step(t)
      PROVE  proc'.rules # Wiped
  <2>1. task[t].rules \in Rules
    BY DEF TypeOK, TaskRecords
  <2>2. CASE Push(t)
    BY <1>0, <2>1, <2>2 DEF Push, AddRule
  <2>3. CASE Spawn(t)
    BY <1>0, <2>3 DEF Spawn, InForce
  <2>4. CASE ~Push(t) /\ ~Spawn(t)
    BY <1>0, <1>1, <2>4, ProcessStep DEF StopKill, Kill, Resync, Swap, SwapFails
  <2>. QED
    BY <2>2, <2>3, <2>4
<1>2. ASSUME NEW t \in Tasks, DropCaller(t)
      PROVE  proc'.rules # Wiped
  BY <1>0, <1>2 DEF DropCaller, Kill
<1>3. CASE XrayExits
  BY <1>0, <1>3 DEF XrayExits
<1>4. CASE PanelRestarts
  BY <1>0, <1>4 DEF PanelRestarts
<1>. QED
  BY <1>1, <1>2, <1>3, <1>4 DEF Next, Request

\* ...and with rule sets xray accepts it stays so across hang-ups and exits of the
\* panel, unless they hit one of the three handlers that are not shielded.
THEOREM ServedWhoeverHangsUp ==
    RefusedRules = {} /\ Kinds \cap {"Start", "Stop", "Install"} = {} /\ Spec
        => []InboundsServed
<1> SUFFICES ASSUME RefusedRules = {}, Kinds \cap {"Start", "Stop", "Install"} = {}
             PROVE  Spec => []InboundsServed
  OBVIOUS
<1> DEFINE Inv == /\ IInv /\ KindsKnown /\ Shielding
                  /\ Served /\ proc.rules # Wiped
<1>1. Init => Inv
  <2> SUFFICES ASSUME Init PROVE KindsKnown /\ Shielding /\ proc.rules # Wiped
    BY Inductive, ServedInit
  <2>1. /\ \A t \in Tasks : ~Busy(t) /\ task[t] = NoTask /\ pc[t] = "idle"
        /\ proc.rules = InitRules
    BY DEF Init, Busy, Idle
  <2>. QED
    BY <2>1, Constants DEF KindsKnown, Shielding
<1>2. Inv /\ [Next]_vars => Inv'
  <2> SUFFICES ASSUME Inv, [Next]_vars
               PROVE  KindsKnown' /\ Shielding' /\ Served' /\ proc'.rules # Wiped
    BY Inductive
  <2>1. CASE UNCHANGED vars
    BY <2>1 DEF vars, KindsKnown, Shielding, Served, Serving, At, Kind, Busy, Stoppable
  <2>2. CASE Next
    <3>1. TypeOK /\ Routes /\ PinAtResync
      BY DEF IInv, PinAtResync
    <3>. QED
      BY <2>2, <3>1, ShieldingNext, NeverWipedNext, ServedStep, ServedRest, ServedBoot,
         ServedDrop DEF Next
  <2>. QED
    BY <2>1, <2>2
<1>3. Inv => InboundsServed
  BY ServedWhenQuiet
<1> HIDE DEF Inv
<1>. QED
  BY <1>1, <1>2, <1>3, PTL DEF Spec
-----------------------------------------------------------------------------
(* Who may act while a task is past the acquisition: the others start saves,  *)
(* commit rows, store outcomes and queue up for the mutex.                    *)

LEMMA Bystander ==
    ASSUME Serial, NEW t \in Tasks, pc[t] \in Holders,
           NEW s \in Tasks, s # t, Acquire(s) \/ Step(s)
    PROVE  WriteRow(s) \/ Record(s)
<1> USE DEF At
<1>1. lock = t /\ pc[s] \notin Holders /\ t # Free
  BY OneHolder, Constants DEF Serial, HoldsMutex
<1>. QED
  BY <1>1 DEF Acquire, Step, ApplyRouting, Push, Answer, Regen, RegenFails, StopTake,
     StopKill, Unpack, StartBails, Spawn, Check, NoteStarted, NoteRebuilt, NoteGeo, Resync,
     Swap, SwapFails, Settle, Release, Holders, Section

\* One settings save at a time, where saves do not overlap...
OneSave ==
    \A s, t \in Tasks :
        Busy(s) /\ Kind(s) = "Save" /\ Busy(t) /\ Kind(t) = "Save" => s = t

\* ...and no task but those clients and the timer started, before any restart.
OnlyCalled == \A t \in Tasks : Busy(t) => Kind(t) \in Kinds \ BootKinds

\* A busy task was idle before only if it has just been called.
LEMMA StillBusy ==
    ASSUME TypeOK, NEW t \in Tasks, Acquire(t) \/ Step(t)
    PROVE  Busy(t) /\ (Busy(t)' => Kind(t)' = Kind(t))
<1> USE DEF At, Goto, Busy, Kind, Idle
<1>0. pc \in [Tasks -> Steps] /\ task \in [Tasks -> TaskRecords]
  BY DEF TypeOK
<1>1. CASE WriteRow(t) \/ Acquire(t) \/ Release(t) \/ Record(t)
  BY <1>0, <1>1 DEF WriteRow, Acquire, Release, Record, Finish, TaskRecords
<1>2. CASE ApplyRouting(t) \/ Push(t) \/ Answer(t)
  BY <1>0, <1>2 DEF ApplyRouting, Push, Answer, Outcome, Replies, Rebuild, TaskRecords
<1>3. CASE Regen(t) \/ RegenFails(t) \/ StopTake(t) \/ StopKill(t) \/ Unpack(t)
  BY <1>0, <1>3 DEF Regen, RegenFails, StopTake, StopKill, Unpack, TaskRecords
<1>4. CASE StartBails(t) \/ Spawn(t) \/ Check(t)
  BY <1>0, <1>4 DEF StartBails, Spawn, Check, StartFailed, TaskRecords
<1>5. CASE NoteStarted(t) \/ NoteRebuilt(t) \/ NoteGeo(t) \/ Resync(t)
  BY <1>0, <1>5 DEF NoteStarted, NoteRebuilt, NoteGeo, Resync, TaskRecords
<1>6. CASE Swap(t) \/ SwapFails(t) \/ Settle(t)
  BY <1>0, <1>6 DEF Swap, SwapFails, Settle, TaskRecords
<1>. QED
  BY <1>1, <1>2, <1>3, <1>4, <1>5, <1>6 DEF Step

LEMMA OneSaveNext ==
    ASSUME TypeOK, OneSave, ~ConcurrentSaves, Next, \A t \in Tasks : ~DropCaller(t)
    PROVE  OneSave'
<1> USE DEF Busy, Kind, Idle, Goto
<1>0. pc \in [Tasks -> Steps] /\ task \in [Tasks -> TaskRecords]
  BY DEF TypeOK
<1>1. ASSUME NEW t \in Tasks, NEW k \in Kinds, NEW r \in Rules, Request(t, k, r)
      PROVE  OneSave'
  <2>1. /\ task'[t].kind = k
        /\ k = "Save" => \A s \in Tasks : pc[s] # "idle" => task[s].kind # "Save"
        /\ \A s \in Tasks : s # t => pc'[s] = pc[s] /\ task'[s] = task[s]
    BY <1>0, <1>1 DEF Request, NoTask
  <2>. QED
    BY <2>1 DEF OneSave
<1>2. ASSUME NEW t \in Tasks, Acquire(t) \/ Step(t)
      PROVE  OneSave'
  BY <1>2, StillBusy, OwnSlot DEF OneSave
<1>3. CASE XrayExits
  BY <1>3 DEF XrayExits, OneSave
<1>4. CASE PanelRestarts
  BY <1>4 DEF PanelRestarts, OneSave, NoTask
<1>. QED
  BY <1>1, <1>2, <1>3, <1>4 DEF Next

LEMMA OnlyCalledNext ==
    ASSUME TypeOK, OnlyCalled, Next, \A t \in Tasks : ~DropCaller(t), ~PanelRestarts
    PROVE  OnlyCalled'
<1> USE DEF Busy, Kind, Idle, Goto
<1>0. pc \in [Tasks -> Steps] /\ task \in [Tasks -> TaskRecords]
  BY DEF TypeOK
<1>1. ASSUME NEW t \in Tasks, NEW k \in Kinds, NEW r \in Rules, Request(t, k, r)
      PROVE  OnlyCalled'
  <2>1. /\ task'[t].kind = k
        /\ \A s \in Tasks : s # t => pc'[s] = pc[s] /\ task'[s] = task[s]
    BY <1>0, <1>1 DEF Request, NoTask
  <2>2. k \notin BootKinds
    BY BoundsAssumption DEF BootKinds
  <2>. QED
    BY <2>1, <2>2 DEF OnlyCalled
<1>2. ASSUME NEW t \in Tasks, Acquire(t) \/ Step(t)
      PROVE  OnlyCalled'
  BY <1>2, StillBusy, OwnSlot DEF OnlyCalled
<1>3. CASE XrayExits
  BY <1>3 DEF XrayExits, OnlyCalled
<1>. QED
  BY <1>1, <1>2, <1>3 DEF Next

-----------------------------------------------------------------------------
(* Restarts by a save. The cause a rebuild starts from stays until the kill:  *)
(* the mutex keeps the handlers out, and no other save changes the rules.     *)

Cause(t) == \/ proc.rules = Wiped
            \/ ~proc.svc
            \/ db \in IPv4Rules /\ ~marks.ipv4
            \/ task[t].reply = "ambiguous"

Caused(t) ==
    proc.alive =>
        /\ At(t, "answer") /\ task[t].reply = "rejected" => proc.rules = Wiped
        /\ At(t, "answer") /\ task[t].reply = "unsupported" => ~proc.svc
        /\ Kind(t) \in Appliers /\ pc[t] \in {"regen", "take", "kill"} => Cause(t)

LEMMA CausedOwn ==
    ASSUME Serial, Routes, NEW t \in Tasks, Caused(t), Acquire(t) \/ Step(t)
    PROVE  Caused(t)'
<1> USE DEF At, Goto, Kind
<1>0. /\ TypeOK /\ pc \in [Tasks -> Steps] /\ task \in [Tasks -> TaskRecords]
      /\ proc \in [alive : BOOLEAN, pid : Nat, rules : Rules \cup {Wiped},
                   svc : BOOLEAN, ipv4 : BOOLEAN, pushed : BOOLEAN, geo : BOOLEAN,
                   immune : BOOLEAN]
  BY DEF Serial, TypeOK
<1>1. CASE ApplyRouting(t)
  BY <1>0, <1>1 DEF ApplyRouting, Outcome, Rebuild, LacksIPv4, Caused, Cause, TaskRecords
<1>2. CASE Push(t)
  <2>1. pc'[t] = "answer" /\ task[t].rules \in Rules
    BY <1>0, <1>2 DEF Push, Replies, TaskRecords
  <2>2. /\ task'[t].reply = "rejected" => proc'.rules = Wiped
        /\ task'[t].reply = "unsupported" => ~proc'.svc
    BY <1>0, <1>2, <2>1 DEF Push, Replies, AddRule, TaskRecords
  <2>. QED
    BY <2>1, <2>2 DEF Caused
<1>3. CASE Answer(t)
  <2>1. /\ task'[t].reply = task[t].reply /\ task'[t].kind = task[t].kind
        /\ UNCHANGED <<db, proc, marks>>
        /\ pc[t] = "answer"
        /\ pc'[t] \in {"regen", "release"}
        /\ pc'[t] = "regen" =>
              task[t].reply \in {"rejected", "ambiguous", "unsupported"}
    BY <1>0, <1>3 DEF Answer, Rebuild, RestartReplies, WipedReplies, TaskRecords
  <2>. QED
    BY <2>1 DEF Caused, Cause
<1>4. CASE Regen(t) \/ RegenFails(t) \/ StopTake(t)
  BY <1>0, <1>4 DEF Regen, RegenFails, StopTake, Caused, Cause, TaskRecords, Starters,
     Appliers
<1>5. CASE Unpack(t)
  <2>1. Kind(t) = "Install" /\ task' = task
    BY <1>0, <1>5, KindAt DEF Unpack
  <2>2. pc'[t] # "answer"
    BY <1>0, <1>5 DEF Unpack
  <2>. QED
    BY <2>1, <2>2 DEF Caused, Appliers
<1>6. CASE Acquire(t)
  <2>1. task'[t].kind = task[t].kind /\ pc'[t] # "answer"
    BY <1>0, <1>6, KindType DEF Acquire, FirstStep, AllKinds, HttpKinds, BootKinds,
       TaskRecords
  <2>2. task[t].kind \in Appliers => pc'[t] = "apply"
    BY <1>0, <1>6 DEF Acquire, FirstStep, Appliers
  <2>. QED
    BY <2>1, <2>2 DEF Caused
<1>7. CASE Swap(t)
  <2>1. task'[t].kind = task[t].kind /\ pc'[t] # "answer"
    BY <1>0, <1>7 DEF Swap, TaskRecords
  <2>2. task[t].kind \notin Appliers
    BY <1>0, <1>7, KindAt DEF Swap, Appliers, GeoKinds
  <2>. QED
    BY <2>1, <2>2 DEF Caused
<1>8. CASE \/ StopKill(t) \/ StartBails(t) \/ Spawn(t) \/ Check(t) \/ WriteRow(t)
           \/ NoteStarted(t) \/ NoteRebuilt(t) \/ NoteGeo(t) \/ Resync(t)
           \/ SwapFails(t) \/ Settle(t) \/ Release(t) \/ Record(t)
  <2>1. pc'[t] \notin {"answer", "regen", "take", "kill"}
    BY <1>0, <1>8 DEF StopKill, StartBails, Spawn, Check, StartFailed, WriteRow, NoteStarted,
       NoteRebuilt, NoteGeo, Resync, SwapFails, Settle, Release, Record, Finish, Idle
  <2>. QED
    BY <2>1 DEF Caused
<1>. QED
  BY <1>1, <1>2, <1>3, <1>4, <1>5, <1>6, <1>7, <1>8 DEF Step

LEMMA CausedNext ==
    ASSUME Serial, Routes, OneSave, OnlyCalled, \A t \in Tasks : Caused(t),
           Next, \A t \in Tasks : ~DropCaller(t), ~PanelRestarts
    PROVE  \A t \in Tasks : Caused(t)'
<1> SUFFICES ASSUME NEW t \in Tasks PROVE Caused(t)'
  OBVIOUS
<1> USE DEF At, Kind
<1>0. /\ TypeOK /\ pc \in [Tasks -> Steps] /\ task \in [Tasks -> TaskRecords]
  BY DEF Serial, TypeOK
<1>1. ASSUME NEW s \in Tasks, NEW k \in Kinds, NEW r \in Rules, Request(s, k, r)
      PROVE  Caused(t)'
  <2>1. /\ \/ pc'[t] \in {"write", "lock"}
           \/ pc'[t] = pc[t] /\ task'[t] = task[t]
        /\ UNCHANGED <<db, proc, marks>>
    BY <1>0, <1>1 DEF Request, Goto
  <2>. QED
    BY <2>1 DEF Caused, Cause
<1>2. ASSUME NEW s \in Tasks, s # t, Acquire(s) \/ Step(s)
      PROVE  Caused(t)'
  <2>1. pc'[t] = pc[t] /\ task'[t] = task[t]
    BY <1>0, <1>2, OwnSlot
  <2>2. CASE pc[t] \in {"answer", "regen", "take", "kill"}
    <3>1. WriteRow(s) \/ Record(s)
      BY <1>2, <2>2, Bystander DEF Holders, Section
    <3>2. Kind(t) \notin Appliers \/ Record(s) \/ db' = db
      <4>1. WriteRow(s) => Busy(s) /\ Kind(s) = "Save"
        BY <1>0, KindAt DEF WriteRow, Busy, Idle
      <4>2. Busy(t) /\ (Kind(t) \in Appliers => Kind(t) = "Save")
        BY <2>2 DEF OnlyCalled, Appliers, BootKinds, Busy, Idle
      <4>. QED
        BY <1>2, <3>1, <4>1, <4>2 DEF OneSave
    <3>3. proc' = proc /\ marks'.ipv4 = marks.ipv4 /\ (Record(s) => db' = db)
      BY <3>1 DEF WriteRow, Record, Recorded, Serial, TypeOK
    <3>. QED
      BY <2>1, <3>1, <3>2, <3>3 DEF Caused, Cause
  <2>3. CASE pc[t] \notin {"answer", "regen", "take", "kill"}
    BY <2>1, <2>3 DEF Caused
  <2>. QED
    BY <2>2, <2>3
<1>3. CASE XrayExits
  BY <1>0, <1>3 DEF XrayExits, Caused, Serial, TypeOK
<1>. QED
  BY <1>1, <1>2, <1>3, CausedOwn DEF Next

\* Where saves do not overlap, and until somebody hangs up or the panel exits, none
\* stops the core while a push could have made its rules live, with any number of
\* requests, failures and exits of xray.
THEOREM RestartsForCause ==
    ~ConcurrentSaves /\ Spec => SaveRestartsForCause
<1> SUFFICES ASSUME ~ConcurrentSaves PROVE Spec => SaveRestartsForCause
  OBVIOUS
<1> DEFINE Part == OneSave /\ OnlyCalled /\ \A t \in Tasks : Caused(t)
           Inv == IInv /\ (Undisturbed => Part)
           A == \A t \in Tasks :
                   Undisturbed /\ At(t, "kill") /\ Kind(t) \in Appliers /\ proc.alive
                   /\ ~proc'.alive =>
                      \/ proc.rules = Wiped
                      \/ ~proc.svc
                      \/ db \in IPv4Rules /\ ~(marks.ipv4 /\ proc.ipv4)
                      \/ task[t].reply = "ambiguous"
                      \/ UNCHANGED pc
<1>1. Init => Inv
  <2> SUFFICES ASSUME Init PROVE Part
    BY Inductive
  <2>1. \A t \in Tasks : pc[t] = Idle
    BY DEF Init
  <2>. QED
    BY <2>1 DEF OneSave, OnlyCalled, Caused, Busy, At, Idle
<1>2. Inv /\ [Next]_vars => Inv'
  <2> SUFFICES ASSUME Inv, [Next]_vars, Undisturbed' PROVE Part'
    BY Inductive
  <2>1. CASE UNCHANGED vars
    BY <2>1 DEF vars, Undisturbed, OneSave, OnlyCalled, Caused, Cause, Busy, At, Kind
  <2>2. CASE Next
    <3>1. /\ Serial /\ Routes /\ Part
          /\ (\A t \in Tasks : ~DropCaller(t)) /\ ~PanelRestarts
      BY <2>2, BudgetNext DEF IInv, Undisturbed, Unhung, Uncrashed
    <3>. QED
      BY <2>2, <3>1, OneSaveNext, OnlyCalledNext, CausedNext DEF Serial
  <2>. QED
    BY <2>1, <2>2
<1>3. ASSUME Inv, [Next]_vars PROVE A
  <2> SUFFICES ASSUME NEW t \in Tasks, Undisturbed, At(t, "kill"), Kind(t) \in Appliers,
                      proc.alive, ~proc'.alive, pc' # pc
               PROVE  Cause(t)
    BY DEF Cause
  <2>. QED
    BY <1>3 DEF Caused, At
<1> HIDE DEF Inv
<1>4. Spec => [][A]_vars
  BY <1>1, <1>2, <1>3, PTL DEF Spec
<1>. QED
  BY <1>4 DEF SaveRestartsForCause

-----------------------------------------------------------------------------
(* Geofiles. A file the live process has not parsed is either noted as owed,  *)
(* or in the hands of the refresh that is restarting the process or is about  *)
(* to leave the note; whoever clears the note has started a process since.    *)

GeoWork(t) ==
    /\ Kind(t) \in GeoKinds
    /\ pc[t] \in {"take", "kill", "spawn", "settle"}
    /\ task[t].running /\ ~task[t].up

Owed == Stoppable /\ ~proc.geo => marks.pending \/ \E t \in Tasks : GeoWork(t)

GeoTask(t) ==
    /\ ~task[t].gone
    /\ Kind(t) \in GeoKinds =>
          /\ pc[t] \in {"lock", "swap"} => ~task[t].up
          /\ pc[t] \in {"take", "kill", "spawn"} => GeoWork(t)
          /\ pc[t] = "settle" /\ Stoppable /\ ~proc.geo => GeoWork(t)
    /\ Kind(t) \notin Appliers \cup BootKinds /\ pc[t] \in {"check", "note", "resync"} =>
          (Stoppable => proc.geo)

\* A live process counts as running for whoever holds the mutex.
LEMMA AliveIsRunning ==
    ASSUME Serial, NEW t \in Tasks, pc[t] \in Holders, pc[t] # "kill", Stoppable
    PROVE  Running /\ ctl.pid # NoPid
<1>1. ctl.pid = proc.pid /\ proc.pid > 0 /\ proc.pid \in Nat
  BY Alone DEF Serial, TypeOK, Tracked
<1>. QED
  BY <1>1 DEF Running, NoPid, Stoppable

\* So a start that gets to its spawn finds none but one that does not die.
LEMMA SpawnFindsNone ==
    ASSUME Serial, NEW t \in Tasks, Spawn(t)
    PROVE  ~Stoppable
BY AliveIsRunning DEF Spawn, At, Holders, Section

LEMMA GeoTaskOwn ==
    ASSUME Serial, Routes, OnlyCalled, NEW t \in Tasks, GeoTask(t), Acquire(t) \/ Step(t)
    PROVE  GeoTask(t)'
<1> USE DEF At, Goto, Kind
<1>0. /\ TypeOK /\ pc \in [Tasks -> Steps] /\ task \in [Tasks -> TaskRecords]
      /\ proc \in [alive : BOOLEAN, pid : Nat, rules : Rules \cup {Wiped},
                   svc : BOOLEAN, ipv4 : BOOLEAN, pushed : BOOLEAN, geo : BOOLEAN,
                   immune : BOOLEAN]
      /\ task[t].kind \notin BootKinds
  BY StillBusy DEF Serial, TypeOK, OnlyCalled
<1> DEFINE Up == {"check", "note", "resync"}
<1>1. CASE WriteRow(t) \/ Release(t) \/ Record(t)
  <2>1. CASE Finish(t)
    BY <1>0, <2>1 DEF Finish, NoTask, Idle, GeoTask
  <2>2. CASE ~Finish(t)
    <3>1. /\ task' = task /\ pc'[t] \in {"lock", "record"}
          /\ pc'[t] = "lock" => pc[t] = "write"
      BY <1>0, <1>1, <2>2 DEF WriteRow, Release, Record
    <3>2. pc[t] = "write" => task[t].kind = "Save"
      BY <1>0, KindAt
    <3>. QED
      BY <3>1, <3>2 DEF GeoTask, GeoKinds
  <2>. QED
    BY <2>1, <2>2
<1>2. CASE Acquire(t)
  <2>1. /\ task'[t].kind = task[t].kind /\ task'[t].gone = task[t].gone
        /\ task'[t].up = task[t].up
        /\ pc'[t] \notin Up \cup {"spawn", "settle", "lock"}
        /\ task[t].kind \in GeoKinds => pc'[t] = "swap"
    BY <1>0, <1>2, KindType DEF Acquire, FirstStep, AllKinds, HttpKinds, BootKinds, GeoKinds,
       TaskRecords
  <2>. QED
    BY <1>2, <2>1 DEF GeoTask, Acquire
<1>3. CASE ApplyRouting(t) \/ Push(t) \/ Answer(t)
  <2>1. task[t].kind \in Appliers
    BY <1>0, <1>3, KindAt DEF ApplyRouting, Push, Answer
  <2>2. task'[t].kind = task[t].kind /\ task'[t].gone = task[t].gone
    BY <1>0, <1>3 DEF ApplyRouting, Push, Answer, Outcome, Replies, Rebuild, TaskRecords
  <2>. QED
    BY <2>1, <2>2 DEF GeoTask, Appliers, GeoKinds
<1>4. CASE Regen(t) \/ RegenFails(t) \/ Unpack(t)
  <2>1. task[t].kind \notin GeoKinds
    BY <1>0, <1>4, KindAt DEF Regen, RegenFails, Unpack, GeoKinds, Appliers, Starters
  <2>2. /\ task'[t].kind = task[t].kind /\ task'[t].gone = task[t].gone
        /\ pc'[t] \notin Up
    BY <1>0, <1>4 DEF Regen, RegenFails, Unpack, TaskRecords
  <2>. QED
    BY <2>1, <2>2 DEF GeoTask
<1>5. CASE StopTake(t)
  BY <1>0, <1>5 DEF StopTake, GeoTask, GeoWork, TaskRecords
<1>6. CASE StopKill(t)
  <2>1. /\ task' = task /\ pc[t] = "kill"
        /\ pc'[t] \in {"release", "unpack", "spawn"}
    BY <1>0, <1>6 DEF StopKill
  <2>. QED
    BY <2>1 DEF GeoTask, GeoWork
<1>7. CASE StartBails(t)
  <2>1. /\ task'[t].kind = task[t].kind /\ task'[t].gone = task[t].gone
        /\ task'[t].running = task[t].running /\ task'[t].up = task[t].up
        /\ pc'[t] = IF task[t].kind \in Appliers THEN "resync"
                    ELSE IF task[t].kind \in GeoKinds THEN "settle" ELSE "release"
        /\ pc[t] = "spawn"
    BY <1>0, <1>7 DEF StartBails, StartFailed, TaskRecords
  <2>2. task[t].kind \in GeoKinds => task[t].running /\ ~task[t].up
    BY <2>1 DEF GeoTask, GeoWork
  <2>3. Stoppable' = Stoppable /\ proc' = proc
    BY <1>7 DEF StartBails, Stoppable
  <2>. QED
    BY <1>0, <2>1, <2>2, <2>3 DEF GeoTask, GeoWork, Appliers, GeoKinds
<1>8. CASE Spawn(t)
  <2>0. ~Stoppable
    BY <1>8, SpawnFindsNone
  <2>1. Stoppable' => proc'.geo
    BY <1>8, <2>0 DEF Spawn, Stoppable
  <2>2. task' = task /\ pc'[t] = "check"
    BY <1>0, <1>8 DEF Spawn
  <2>. QED
    BY <2>1, <2>2 DEF GeoTask
<1>9. CASE Check(t)
  <2>1. /\ task'[t].kind = task[t].kind /\ task'[t].gone = task[t].gone
        /\ pc'[t] \in {"note", "resync", "settle", "release"} /\ proc' = proc
        /\ pc[t] = "check"
        /\ pc'[t] = "resync" => task[t].kind \in Appliers
        /\ pc'[t] = "settle" => task[t].kind \in GeoKinds
    BY <1>0, <1>9 DEF Check, StartFailed, TaskRecords
  <2>2. Stoppable' = Stoppable
    BY <2>1 DEF Stoppable
  <2>. QED
    BY <1>0, <2>1, <2>2 DEF GeoTask, GeoKinds, Appliers
<1>10. CASE NoteStarted(t) \/ NoteRebuilt(t) \/ NoteGeo(t)
  <2>1. /\ task'[t].kind = task[t].kind /\ task'[t].gone = task[t].gone
        /\ pc'[t] = "resync" /\ proc' = proc /\ pc[t] = "note"
    BY <1>0, <1>10 DEF NoteStarted, NoteRebuilt, NoteGeo, TaskRecords
  <2>2. Stoppable' = Stoppable
    BY <2>1 DEF Stoppable
  <2>. QED
    BY <1>0, <2>1, <2>2 DEF GeoTask, GeoKinds, Appliers
<1>11. CASE Resync(t)
  <2>1. /\ task' = task /\ pc'[t] \in {"settle", "release"} /\ pc[t] = "resync"
        /\ proc'.geo = proc.geo /\ Stoppable' = Stoppable
    BY <1>0, <1>11 DEF Resync, Stoppable
  <2>. QED
    BY <1>0, <2>1 DEF GeoTask, GeoKinds, Appliers
<1>12. CASE Swap(t)
  <2>1. /\ task'[t].kind = task[t].kind /\ task'[t].gone = task[t].gone
        /\ task'[t].up = task[t].up /\ pc[t] = "swap" /\ task[t].kind \in GeoKinds
        /\ \/ pc'[t] = "take" /\ task'[t].running
           \/ pc'[t] = "settle" /\ task'[t].running = Running
           \/ pc'[t] = "release"
        /\ Stoppable' = Stoppable
    BY <1>0, <1>12, KindAt DEF Swap, TaskRecords, Stoppable
  <2>2. Stoppable => Running
    BY <1>12, AliveIsRunning DEF Swap, Holders, Section
  <2>. QED
    BY <1>0, <2>1, <2>2 DEF GeoTask, GeoWork
<1>13. CASE SwapFails(t) \/ Settle(t)
  BY <1>0, <1>13 DEF SwapFails, Settle, GeoTask
<1>. QED
  BY <1>1, <1>2, <1>3, <1>4, <1>5, <1>6, <1>7, <1>8, <1>9, <1>10, <1>11, <1>12, <1>13
     DEF Step

LEMMA GeoTaskNext ==
    ASSUME Serial, Routes, OnlyCalled, \A t \in Tasks : GeoTask(t), Next,
           \A t \in Tasks : ~DropCaller(t), ~PanelRestarts
    PROVE  \A t \in Tasks : GeoTask(t)'
<1> SUFFICES ASSUME NEW t \in Tasks PROVE GeoTask(t)'
  OBVIOUS
<1> USE DEF Kind
<1>0. /\ TypeOK /\ pc \in [Tasks -> Steps] /\ task \in [Tasks -> TaskRecords]
  BY DEF Serial, TypeOK
<1>1. ASSUME NEW s \in Tasks, NEW k \in Kinds, NEW r \in Rules, Request(s, k, r)
      PROVE  GeoTask(t)'
  <2>1. /\ \/ /\ pc'[t] \in {"write", "lock"}
              /\ ~task'[t].gone /\ ~task'[t].up
           \/ pc'[t] = pc[t] /\ task'[t] = task[t]
        /\ UNCHANGED <<proc, marks>>
    BY <1>0, <1>1 DEF Request, Goto, NoTask
  <2>. QED
    BY <2>1 DEF GeoTask, GeoWork, Stoppable
<1>2. ASSUME NEW s \in Tasks, s # t, Acquire(s) \/ Step(s)
      PROVE  GeoTask(t)'
  <2>1. pc'[t] = pc[t] /\ task'[t] = task[t]
    BY <1>0, <1>2, OwnSlot
  <2>2. pc[t] \in Holders => proc' = proc
    BY <1>2, Bystander DEF WriteRow, Record
  <2>. QED
    BY <2>1, <2>2 DEF GeoTask, GeoWork, Holders, Section, Stoppable
<1>3. CASE XrayExits
  <2>1. ~Stoppable' /\ UNCHANGED <<pc, task>>
    BY <1>0, <1>3 DEF XrayExits, Stoppable
  <2>. QED
    BY <2>1 DEF GeoTask, GeoWork
<1>. QED
  BY <1>1, <1>2, <1>3, GeoTaskOwn DEF Next

LEMMA OwedNext ==
    ASSUME Serial, Routes, OnlyCalled, \A t \in Tasks : GeoTask(t), Owed, Next,
           "swap" \notin Faults,
           \A t \in Tasks : ~DropCaller(t), ~PanelRestarts
    PROVE  Owed'
<1> USE DEF Kind, At, Goto
<1>0. /\ TypeOK /\ pc \in [Tasks -> Steps] /\ task \in [Tasks -> TaskRecords]
      /\ proc \in [alive : BOOLEAN, pid : Nat, rules : Rules \cup {Wiped},
                   svc : BOOLEAN, ipv4 : BOOLEAN, pushed : BOOLEAN, geo : BOOLEAN,
                   immune : BOOLEAN]
      /\ marks \in MarkRecords
  BY DEF Serial, TypeOK, MarkRecords
<1>1. ASSUME NEW s \in Tasks, NEW k \in Kinds, NEW r \in Rules, Request(s, k, r)
      PROVE  Owed'
  <2>1. /\ pc[s] = "idle" /\ UNCHANGED <<proc, marks>>
        /\ \A t \in Tasks : t # s => pc'[t] = pc[t] /\ task'[t] = task[t]
    BY <1>0, <1>1 DEF Request, Busy, Idle
  <2>. QED
    BY <2>1 DEF Owed, GeoWork, Stoppable
<1>2. CASE XrayExits
  BY <1>0, <1>2 DEF XrayExits, Owed, Stoppable
<1>3. ASSUME NEW t \in Tasks, Acquire(t) \/ Step(t)
      PROVE  Owed'
  <2> SUFFICES ASSUME Stoppable', ~proc'.geo
               PROVE  marks'.pending \/ \E s \in Tasks : GeoWork(s)'
    BY DEF Owed
  <2> DEFINE Noted == marks.pending \/ \E s \in Tasks : GeoWork(s)
  <2>1. CASE Swap(t)
    <3>0. Stoppable
      BY <1>0, <2>1 DEF Swap, Stoppable
    <3>1. Running
      BY <1>0, <2>1, <3>0, AliveIsRunning DEF Swap, Holders, Section
    <3>2. pc'[t] \in {"take", "settle"} => GeoWork(t)'
      <4>1. GeoTask(t)'
        BY <1>3, GeoTaskOwn
      <4>2. task'[t].kind = task[t].kind /\ task[t].kind \in GeoKinds
        BY <1>0, <2>1, KindAt DEF Swap, TaskRecords
      <4>. QED
        BY <4>1, <4>2 DEF GeoTask
    <3>3. CASE pc'[t] \in {"take", "settle"}
      BY <3>2, <3>3
    <3>4. CASE pc'[t] \notin {"take", "settle"}
      <4>1. ~proc.geo /\ pc[t] = "swap" /\ marks' = marks
        BY <1>0, <2>1, <3>4 DEF Swap
      <4>2. \A s \in Tasks : ~GeoWork(s)
        BY <4>1, OneHolder DEF GeoWork, Holders, Section
      <4>. QED
        BY <3>0, <4>1, <4>2 DEF Owed
    <3>. QED
      BY <3>3, <3>4
  <2>2. ~SwapFails(t)
    BY DEF SwapFails, Fails
  <2>3. CASE Spawn(t)
    <3>1. ~Stoppable
      BY <2>3, SpawnFindsNone
    <3>2. Stoppable' => proc'.geo
      BY <2>3, <3>1 DEF Spawn, Stoppable
    <3>. QED
      BY <3>2
  <2>4. CASE ~Swap(t) /\ ~Spawn(t)
    <3>1. Stoppable /\ ~proc.geo
      <4>1. CASE Push(t)
        BY <1>0, <4>1 DEF Push, AddRule, Stoppable
      <4>2. CASE StopKill(t)
        BY <1>0, <4>2 DEF StopKill, Kill, Stoppable
      <4>3. CASE Resync(t)
        BY <1>0, <4>3 DEF Resync, Stoppable
      <4>4. CASE ~Push(t) /\ ~StopKill(t) /\ ~Resync(t)
        BY <1>0, <1>3, <2>2, <2>4, <4>4, ProcessStep DEF Stoppable
      <4>. QED
        BY <4>1, <4>2, <4>3, <4>4
    <3>2. Noted
      BY <3>1 DEF Owed
    <3>3. CASE Resync(t)
      <4>1. task[t].kind \notin Starters \cup {"Restart"}
        <5>1. Kind(t) \notin BootKinds
          BY <1>0, <1>3, StillBusy DEF OnlyCalled
        <5>. QED
          BY <3>1, <3>3, <5>1 DEF GeoTask, Resync, Starters, Appliers
      <4>2. marks' = marks /\ pc[t] = "resync"
        BY <3>3, <4>1 DEF Resync
      <4>3. \A s \in Tasks : ~GeoWork(s)
        BY <4>2, OneHolder DEF GeoWork, Holders, Section
      <4>. QED
        BY <3>2, <4>2, <4>3
    <3>4. CASE Settle(t)
      <4>1. GeoWork(t)
        BY <1>0, <3>1, <3>4, KindAt DEF GeoTask, Settle
      <4>2. marks'.pending
        BY <1>0, <3>4, <4>1 DEF Settle, GeoTask, GeoWork, StillOwed, MarkRecords
      <4>. QED
        BY <4>2
    <3>5. CASE ~Resync(t) /\ ~Settle(t)
      <4>1. marks'.pending = marks.pending
        BY <1>0, <1>3, <2>4, <3>5 DEF Step, Acquire, WriteRow, ApplyRouting, Push, Answer,
           Regen, RegenFails, StopTake, StopKill, Unpack, StartBails, Check, NoteStarted,
           NoteRebuilt, NoteGeo, InStep, LeftBehind, SwapFails, Release, Record, Recorded,
           MarkRecords
      <4>2. ASSUME NEW s \in Tasks, GeoWork(s) PROVE GeoWork(s)'
        <5>1. CASE s # t
          BY <1>0, <1>3, <4>2, <5>1, OwnSlot DEF GeoWork
        <5>2. CASE s = t
          <6>1. StopTake(t) \/ StopKill(t) \/ StartBails(t)
            BY <1>3, <2>4, <3>5, <4>2, <5>2 DEF GeoWork, Step, Acquire, WriteRow,
               ApplyRouting, Push, Answer, Regen, RegenFails, Unpack, Check, NoteStarted,
               NoteRebuilt, NoteGeo, SwapFails, Release, Record
          <6>2. /\ task'[t].kind = task[t].kind /\ task'[t].running = task[t].running
                /\ task'[t].up = task[t].up /\ pc'[t] \in {"kill", "spawn", "settle"}
            BY <1>0, <4>2, <5>2, <6>1 DEF StopTake, StopKill, StartBails, StartFailed,
               GeoWork, GeoKinds, Appliers, TaskRecords
          <6>. QED
            BY <4>2, <5>2, <6>2 DEF GeoWork
        <5>. QED
          BY <5>1, <5>2
      <4>. QED
        BY <3>2, <4>1, <4>2
    <3>. QED
      BY <3>3, <3>4, <3>5
  <2>. QED
    BY <2>1, <2>3, <2>4
<1>. QED
  BY <1>1, <1>2, <1>3 DEF Next

\* Unless a half-written pair of files is left behind, a geofile that is not in
\* force is owed a restart whenever the mutex is free: whichever of the button,
\* the nightly task, the starts and the exits of xray came in between.
THEOREM GeofilesOwed ==
    "swap" \notin Faults /\ Spec => []GeoOwed
<1> SUFFICES ASSUME "swap" \notin Faults PROVE Spec => []GeoOwed
  OBVIOUS
<1> DEFINE Part == OnlyCalled /\ (\A t \in Tasks : GeoTask(t)) /\ Owed
           Inv == IInv /\ (Undisturbed => Part)
<1>1. Init => Inv
  <2> SUFFICES ASSUME Init PROVE Part
    BY Inductive
  <2>1. /\ \A t \in Tasks : pc[t] = Idle /\ task[t] = NoTask
        /\ proc.geo
    BY DEF Init
  <2>. QED
    BY <2>1 DEF OnlyCalled, GeoTask, Owed, Busy, Idle, NoTask
<1>2. Inv /\ [Next]_vars => Inv'
  <2> SUFFICES ASSUME Inv, [Next]_vars, Undisturbed' PROVE Part'
    BY Inductive
  <2>1. CASE UNCHANGED vars
    BY <2>1 DEF vars, Undisturbed, OnlyCalled, GeoTask, GeoWork, Owed, Busy, Kind,
       Stoppable
  <2>2. CASE Next
    <3>1. /\ Serial /\ Routes /\ Part
          /\ (\A t \in Tasks : ~DropCaller(t)) /\ ~PanelRestarts
      BY <2>2, BudgetNext DEF IInv, Undisturbed, Unhung, Uncrashed
    <3>. QED
      BY <2>2, <3>1, OnlyCalledNext, GeoTaskNext, OwedNext DEF Serial
  <2>. QED
    BY <2>1, <2>2
<1>3. Inv => GeoOwed
  <2> SUFFICES ASSUME Serial, Owed, lock = Free, Stoppable, ~proc.geo
               PROVE  marks.pending
    BY DEF IInv, Undisturbed, Unhung, GeoOwed
  <2>1. \A t \in Tasks : pc[t] \notin Holders
    BY Constants DEF Serial, HoldsMutex
  <2>. QED
    BY <2>1 DEF Owed, GeoWork, Holders, Section
<1> HIDE DEF Inv
<1>. QED
  BY <1>1, <1>2, <1>3, PTL DEF Spec
=============================================================================
