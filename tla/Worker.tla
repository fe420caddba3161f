------------------------------- MODULE Worker -------------------------------
(***************************************************************************)
(* The executor process of src/worker.rs and src/cli.rs: the poll loop,    *)
(* one task per claimed job, one heartbeat task per executing job, the     *)
(* shutdown listener, and the end of the runtime.                          *)
(*                                                                         *)
(* The module is open: what the upstream answers, when a call returns and  *)
(* what a capability handler produces are chosen by the environment.  The  *)
(* invariants proved in WorkerProofs therefore hold for every upstream.    *)
(* Executor.tla closes the module with a queue and a lossy network.        *)
(*                                                                         *)
(* A task step is what runs between two .await points of its async body.   *)
(***************************************************************************)
EXTENDS Naturals, FiniteSets

CONSTANTS
  Jobs,       \* job ids the upstream may hand out
  Allowed,    \* jobs whose capability passes Config::capability_allowed
  Blocking,   \* jobs whose handler works on tokio's blocking pool (fs.*)
  MayPanic,   \* jobs whose handler can panic (fs.list: SystemTime -> DateTime)
  HandlerResults  \* what dispatch returns: a JobResult the worker passes on

ASSUME JobsAssumption ==
  /\ Allowed \subseteq Jobs
  /\ Blocking \subseteq Allowed
  /\ MayPanic \subseteq Allowed
  /\ HandlerResults \cap {"timeout", "rejected", "none"} = {}

VARIABLES
  pc,         \* where run_forever stands, or the state of the process
  shutdown,   \* value of the shutdown watch channel
  task,       \* job -> where process_one stands
  result,     \* job -> the JobResult process_one holds
  heartbeat,  \* job -> where the heartbeat task stands
  tx,         \* job -> the heartbeat's stop channel, seen from its receiver
  orphans,    \* <<job, state>> of each heartbeat task left by an earlier batch
  detached    \* jobs whose timed-out handler left an operation on the pool

vars == <<pc, shutdown, task, result, heartbeat, tx, orphans, detached>>
loopVars == <<pc, shutdown>>
jobVars == <<task, result, heartbeat, tx, orphans, detached>>

(* Beside what dispatch returns (exit code 0, or a failure: another exit   *)
(* code, or a handler error with a message), what the worker says itself.  *)
Results == HandlerResults \cup {"timeout", "rejected"}

Gone == {"down", "stopped"}
Finished == {"none", "done", "panicked"}
Beating == {"sleeping", "sending", "spinning"}

HeartbeatAlive(j) ==
  heartbeat[j] \in Beating \/ \E s \in Beating : <<j, s>> \in orphans

TypeOK ==
  /\ pc \in {"top", "claiming", "joining", "idle", "draining"} \cup Gone
  /\ shutdown \in BOOLEAN
  /\ task \in [Jobs -> Finished \cup
                  {"spawned", "rejecting", "running", "stopping", "reporting"}]
  /\ result \in [Jobs -> Results \cup {"none"}]
  /\ heartbeat \in [Jobs -> Beating \cup {"none", "ended"}]
  /\ tx \in [Jobs -> {"open", "true", "closed"}]
  /\ orphans \subseteq Jobs \X Beating
  /\ detached \subseteq Jobs

FreshTasks ==
  /\ task = [j \in Jobs |-> "none"]
  /\ result = [j \in Jobs |-> "none"]
  /\ heartbeat = [j \in Jobs |-> "none"]
  /\ tx = [j \in Jobs |-> "open"]
  /\ orphans = {}
  /\ detached = {}

(* cli::run, Command::Run: the configuration is valid, the loop is entered *)
Init == pc = "top" /\ shutdown = FALSE /\ FreshTasks

-----------------------------------------------------------------------------
(* run_forever and process_once *)

(* Mutant: shutdown is looked at in the idle poll only. *)
LoopHeadBlind ==
  /\ pc = "top"
  /\ pc' = "claiming"
  /\ UNCHANGED <<shutdown, jobVars>>

(* Head of the loop: leave when the channel holds true, else POST a claim. *)
LoopHead ==
  /\ pc = "top"
  /\ pc' = IF shutdown THEN "draining" ELSE "claiming"
  /\ UNCHANGED <<shutdown, jobVars>>

(* The claim is answered with the batch S.  An empty batch counts as zero  *)
(* processed jobs and leads to the idle poll; otherwise every job gets a   *)
(* task.  The records of the previous batch are reused; a heartbeat task   *)
(* that outlived its job moves to orphans as it is, in a call or not.      *)
ClaimOk(S) ==
  /\ pc = "claiming"
  /\ UNCHANGED <<shutdown, detached>>
  /\ \/ /\ S = {}
        /\ pc' = "idle"
        /\ UNCHANGED <<task, result, heartbeat, tx, orphans>>
     \/ /\ S # {}
        /\ pc' = "joining"
        /\ task' = [j \in Jobs |-> IF j \in S THEN "spawned" ELSE "none"]
        /\ result' = [j \in Jobs |-> "none"]
        /\ orphans' = orphans \cup
             {<<j, heartbeat[j]>> : j \in {i \in Jobs : heartbeat[i] \in Beating}}
        /\ heartbeat' = [j \in Jobs |-> "none"]
        /\ tx' = [j \in Jobs |-> "open"]

(* Network error, client timeout, non-2xx status or an undecodable body.   *)
ClaimFailed ==
  /\ pc = "claiming"
  /\ pc' = "idle"
  /\ UNCHANGED <<shutdown, jobVars>>

(* Mutants: one handle is awaited instead of all; a shutdown abandons the  *)
(* batch.                                                                  *)
JoinAny ==
  /\ pc = "joining"
  /\ \E j \in Jobs : task[j] = "done"
  /\ pc' = "top"
  /\ UNCHANGED <<shutdown, jobVars>>

JoinUnlessShutdown ==
  /\ pc = "joining"
  /\ shutdown \/ \A j \in Jobs : task[j] \in Finished
  /\ pc' = "top"
  /\ UNCHANGED <<shutdown, jobVars>>

(* Every handle of the batch has been awaited; a JoinError is ignored.     *)
JoinBatch ==
  /\ pc = "joining"
  /\ \A j \in Jobs : task[j] \in Finished
  /\ pc' = "top"
  /\ UNCHANGED <<shutdown, jobVars>>

(* Mutant: the idle select lost its sleep branch. *)
IdleSleepLost ==
  /\ pc = "idle"
  /\ shutdown
  /\ pc' = "top"
  /\ UNCHANGED <<shutdown, jobVars>>

(* The two branches of the idle select; with both ready either is taken.   *)
IdleSleepElapses ==
  /\ pc = "idle"
  /\ pc' = "top"
  /\ UNCHANGED <<shutdown, jobVars>>

IdleSeesShutdown ==
  /\ pc = "idle"
  /\ shutdown
  /\ pc' = "draining"
  /\ UNCHANGED <<shutdown, jobVars>>

(* wait_for_shutdown resolves (a signal, or its installation failed) and   *)
(* the listener task sends true.                                           *)
WaitForShutdown ==
  /\ pc \notin Gone
  /\ ~shutdown
  /\ shutdown' = TRUE
  /\ UNCHANGED <<pc, jobVars>>
-----------------------------------------------------------------------------
(* process_one *)

(* Mutant: the allowlist is not consulted. *)
TaskStartsUnchecked(j) ==
  /\ task[j] = "spawned"
  /\ task' = [task EXCEPT ![j] = "running"]
  /\ heartbeat' = [heartbeat EXCEPT ![j] = "sleeping"]
  /\ UNCHANGED <<loopVars, result, tx, orphans, detached>>

(* A capability outside the allowlist is answered at once; otherwise the   *)
(* heartbeat task is spawned and dispatch starts under its timeout.        *)
TaskStarts(j) ==
  /\ task[j] = "spawned"
  /\ \/ /\ j \notin Allowed
        /\ task' = [task EXCEPT ![j] = "rejecting"]
        /\ result' = [result EXCEPT ![j] = "rejected"]
        /\ UNCHANGED heartbeat
     \/ /\ j \in Allowed
        /\ task' = [task EXCEPT ![j] = "running"]
        /\ heartbeat' = [heartbeat EXCEPT ![j] = "sleeping"]
        /\ UNCHANGED result
  /\ UNCHANGED <<loopVars, tx, orphans, detached>>

(* Mutant: whatever dispatch returned, a default result is reported. *)
StopHeartbeatDefault(j, r) ==
  /\ task[j] = "running"
  /\ task' = [task EXCEPT ![j] = "stopping"]
  /\ result' = [result EXCEPT ![j] = "success"]
  /\ tx' = [tx EXCEPT ![j] = "true"]
  /\ UNCHANGED <<loopVars, heartbeat, orphans>>

(* Mutant: tx is dropped, not sent to, before the handle is awaited. *)
StopHeartbeatUnsent(j, r) ==
  /\ task[j] = "running"
  /\ task' = [task EXCEPT ![j] = "stopping"]
  /\ result' = [result EXCEPT ![j] = r]
  /\ tx' = [tx EXCEPT ![j] = "closed"]
  /\ UNCHANGED <<loopVars, heartbeat, orphans>>

(* The result is known: tell the heartbeat to stop, then await its handle. *)
StopHeartbeat(j, r) ==
  /\ task[j] = "running"
  /\ task' = [task EXCEPT ![j] = "stopping"]
  /\ result' = [result EXCEPT ![j] = r]
  /\ tx' = [tx EXCEPT ![j] = "true"]
  /\ UNCHANGED <<loopVars, heartbeat, orphans>>

DispatchReturns(j, r) ==
  /\ r \in HandlerResults
  /\ StopHeartbeat(j, r)
  /\ UNCHANGED detached

(* The hard timeout drops the handler's future.  An operation already on   *)
(* the blocking pool cannot be cancelled and goes on without its job.      *)
TimeoutElapses(j) ==
  /\ StopHeartbeat(j, "timeout")
  /\ \/ UNCHANGED detached
     \/ j \in Blocking /\ detached' = detached \cup {j}

(* A panic unwinds the task: tx is dropped without a send, the heartbeat's *)
(* handle is dropped, which detaches it, and nothing is reported.          *)
DispatchPanics(j) ==
  /\ j \in MayPanic
  /\ task[j] = "running"
  /\ task' = [task EXCEPT ![j] = "panicked"]
  /\ tx' = [tx EXCEPT ![j] = "closed"]
  /\ UNCHANGED <<loopVars, result, heartbeat, orphans, detached>>

(* Mutant: the handle is not awaited. *)
ReportStartsEarly(j) ==
  /\ task[j] = "stopping"
  /\ task' = [task EXCEPT ![j] = "reporting"]
  /\ UNCHANGED <<loopVars, result, heartbeat, tx, orphans, detached>>

(* The heartbeat's handle has been awaited: POST the result, once.         *)
ReportStarts(j) ==
  /\ task[j] = "stopping"
  /\ heartbeat[j] = "ended"
  /\ task' = [task EXCEPT ![j] = "reporting"]
  /\ UNCHANGED <<loopVars, result, heartbeat, tx, orphans, detached>>

(* The report returns; a failure is logged and the task ends all the same. *)
ReportReturns(j) ==
  /\ task[j] \in {"rejecting", "reporting"}
  /\ task' = [task EXCEPT ![j] = "done"]
  /\ UNCHANGED <<loopVars, result, heartbeat, tx, orphans, detached>>

-----------------------------------------------------------------------------
(* The heartbeat task: select between the interval and the stop channel *)

HeartbeatFires(j) ==
  /\ heartbeat[j] = "sleeping"
  /\ heartbeat' = [heartbeat EXCEPT ![j] = "sending"]
  /\ UNCHANGED <<loopVars, task, result, tx, orphans, detached>>

(* Mutants: the value of the channel is taken for the state of the task;   *)
(* the loop does not break.                                                *)
AfterSelectValue(j) == tx[j]
AfterSelectOn(j) == IF tx[j] = "closed" THEN "spinning" ELSE "sleeping"

(* What the select makes of the channel: true ends the task; a channel     *)
(* closed while it holds false is ready for ever, so that the loop turns   *)
(* without reaching its sleep again.                                       *)
AfterSelect(j) == CASE tx[j] = "open" -> "sleeping"
                    [] tx[j] = "true" -> "ended"
                    [] tx[j] = "closed" -> "spinning"

(* Mutant: a failed heartbeat ends the loop. *)
HeartbeatGivesUp(j) ==
  /\ heartbeat[j] = "sending"
  /\ heartbeat' = [heartbeat EXCEPT ![j] = "ended"]
  /\ UNCHANGED <<loopVars, task, result, tx, orphans, detached>>

(* The heartbeat call returns, well or badly, and the select starts anew.  *)
HeartbeatReturns(j) ==
  /\ heartbeat[j] = "sending"
  /\ heartbeat' = [heartbeat EXCEPT ![j] = AfterSelect(j)]
  /\ UNCHANGED <<loopVars, task, result, tx, orphans, detached>>

HeartbeatSeesChange(j) ==
  /\ heartbeat[j] = "sleeping"
  /\ tx[j] # "open"
  /\ heartbeat' = [heartbeat EXCEPT ![j] = AfterSelect(j)]
  /\ UNCHANGED <<loopVars, task, result, tx, orphans, detached>>

(* A heartbeat task whose batch is over: its channel is closed, so that it *)
(* may fire once more while it has not seen that, ends the call it is in,  *)
(* and then spins.  Those of one job in one state count as one.            *)
OrphanStep(j) ==
  /\ \E s \in {"sleeping", "sending"}, t \in {"sending", "spinning"} :
       /\ s # t
       /\ <<j, s>> \in orphans
       /\ orphans' = (orphans \ {<<j, s>>}) \cup {<<j, t>>}
  /\ UNCHANGED <<loopVars, task, result, heartbeat, tx, detached>>

-----------------------------------------------------------------------------
(* The end of the process, and its next life *)

BlockingOpReturns(j) ==
  /\ j \in detached
  /\ detached' = detached \ {j}
  /\ UNCHANGED <<loopVars, task, result, heartbeat, tx, orphans>>

(* Every task, handle and channel goes with the process. *)
ForgetTasks ==
  /\ task' = [j \in Jobs |-> "none"]
  /\ result' = [j \in Jobs |-> "none"]
  /\ heartbeat' = [j \in Jobs |-> "none"]
  /\ tx' = [j \in Jobs |-> "open"]
  /\ orphans' = {}
  /\ detached' = {}

(* main returns: dropping the runtime cancels the async tasks left over    *)
(* and waits for the operations on the blocking pool.                      *)
RuntimeDrops ==
  /\ pc = "draining"
  /\ detached = {}
  /\ pc' = "stopped"
  /\ shutdown' = FALSE
  /\ ForgetTasks

(* SIGKILL, power loss, an abort: nothing is persisted.                    *)
Crash ==
  /\ pc \notin Gone
  /\ pc' = "down"
  /\ shutdown' = FALSE
  /\ ForgetTasks

(* The service manager (Restart=on-failure, KeepAlive) or the operator.    *)
Restart ==
  /\ pc \in Gone
  /\ pc' = "top"
  /\ UNCHANGED <<shutdown, jobVars>>

-----------------------------------------------------------------------------
Loop ==
  \/ LoopHead \/ ClaimFailed \/ JoinBatch
  \/ IdleSleepElapses \/ IdleSeesShutdown
  \/ \E S \in SUBSET Jobs : ClaimOk(S)

Task(j) ==
  \/ TaskStarts(j) \/ TimeoutElapses(j) \/ DispatchPanics(j)
  \/ ReportStarts(j) \/ ReportReturns(j)
  \/ \E r \in HandlerResults : DispatchReturns(j, r)

Heartbeat(j) ==
  HeartbeatFires(j) \/ HeartbeatReturns(j) \/ HeartbeatSeesChange(j)

Process ==
  \/ WaitForShutdown \/ RuntimeDrops \/ Crash \/ Restart
  \/ \E j \in Jobs : BlockingOpReturns(j)

Next ==
  \/ Loop
  \/ Process
  \/ \E j \in Jobs : Task(j) \/ Heartbeat(j) \/ OrphanStep(j)

Spec == Init /\ [][Next]_vars

(* The tokio runtime keeps polling what is ready, timers fire, every call  *)
(* ends within the 60 s timeout of the client (client.rs), every execution *)
(* within its hard timeout.  No signal, heartbeat, panic, crash or restart *)
(* is ever owed, nor the return of an operation on the blocking pool: it   *)
(* may read from a pipe nobody writes to, or from a mount that hangs.      *)
Fairness ==
  /\ WF_vars(Loop)
  /\ WF_vars(RuntimeDrops)
  /\ \A j \in Jobs :
       /\ WF_vars(Task(j))
       /\ WF_vars(HeartbeatReturns(j) \/ HeartbeatSeesChange(j))

FairSpec == Spec /\ Fairness

-----------------------------------------------------------------------------
(* Properties *)

(* process_once awaits every handle before it returns: outside the join no *)
(* task of the process is unfinished.  The worker never claims while it    *)
(* still executes, and a graceful shutdown leaves no claimed job behind.   *)
QuietBetweenBatches ==
  pc # "joining" => \A j \in Jobs : task[j] \in Finished

(* worker.rs:105-152: while a handler runs the heartbeat task of its       *)
(* execution is there to extend the lease, whatever the calls before it    *)
(* returned, and that task is over before the report is sent: no request   *)
(* of this execution extends the lease after its result.  An orphan of an  *)
(* earlier execution that panicked is no part of it.                       *)
HeartbeatSpansExecution ==
  \A j \in Jobs :
    /\ task[j] = "running" => heartbeat[j] \in {"sleeping", "sending"}
    /\ task[j] \in {"reporting", "done"} => heartbeat[j] \notin Beating

(* SECURITY.md:50: when a job is over by its hard timeout, nothing of it   *)
(* still runs.                                                             *)
HardTimeout ==
  \A j \in Jobs : task[j] = "done" /\ result[j] = "timeout" => j \notin detached

(* Every spawned task ends, by a report or a panic, or the process dies.   *)
TasksEnd ==
  \A j \in Jobs : task[j] = "spawned" ~> task[j] \in Finished

(* Once a shutdown is requested the process ends: no claim, running job,   *)
(* orphaned heartbeat or stream of further work holds it for ever.  One    *)
(* thing can: an operation that a job left on the blocking pool when it    *)
(* timed out and that never returns, for which the drop of the runtime     *)
(* waits (worker.rs:64-83, cli.rs:109-117).                                *)
HeldByPool(j) == pc = "draining" /\ j \in detached
ShutdownCompletes == shutdown ~> pc \in Gone \/ \E j \in Jobs : []HeldByPool(j)

(* worker.rs:105: the heartbeat is cancelled when the job finishes.        *)
HeartbeatCancelled ==
  \A j \in Jobs : heartbeat[j] = "sleeping" ~> ~HeartbeatAlive(j)

(* It is, for jobs whose handler does not panic: the stop is sent on every *)
(* other way out of the execution (worker.rs:136-152), and a heartbeat in  *)
(* flight sees it when its call is over.                                   *)
HeartbeatCancelledUnlessPanic ==
  \A j \in Jobs \ MayPanic : heartbeat[j] = "sleeping" ~> ~HeartbeatAlive(j)
=============================================================================
