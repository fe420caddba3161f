---------------------------- MODULE WorkerProofs ----------------------------
(***************************************************************************)
(* The invariants of Worker hold for every set of jobs, every allowlist    *)
(* and every answer of the upstream.  They are inductive only together     *)
(* with what ties a task to its heartbeat and its stop channel, Tied.      *)
(***************************************************************************)
EXTENDS Worker, TLAPS

(* Where the heartbeat and the channel of a job stand, by where its task   *)
(* stands.                                                                 *)
Tied(j) ==
  /\ task[j] \in {"none", "spawned", "rejecting"} =>
       heartbeat[j] = "none" /\ tx[j] = "open"
  /\ task[j] = "running" => heartbeat[j] \in {"sleeping", "sending"} /\ tx[j] = "open"
  /\ task[j] = "stopping" =>
       heartbeat[j] \in {"sleeping", "sending", "ended"} /\ tx[j] = "true"
  /\ task[j] \in {"reporting", "done"} =>
       heartbeat[j] \in {"none", "ended"} /\ tx[j] \in {"open", "true"}
  /\ task[j] = "panicked" =>
       heartbeat[j] \in {"sleeping", "sending", "spinning"} /\ tx[j] = "closed"

AllTied == \A j \in Jobs : Tied(j)

IInv == TypeOK /\ AllTied /\ QuietBetweenBatches

USE DEF Results, Gone, Finished, Beating

(* The invariant holds when the loop is entered. *)
LEMMA InitIInv == Init => IInv
  BY DEF Init, FreshTasks, IInv, TypeOK, AllTied, Tied, QuietBetweenBatches

(* The actions of the loop and of the process change no task, or forget    *)
(* them all.                                                               *)
LEMMA LoopIInv == IInv /\ (Loop \/ Process) => IInv'
<1> SUFFICES ASSUME IInv, Loop \/ Process PROVE IInv'
  OBVIOUS
<1> USE DEF IInv, TypeOK, AllTied, Tied, QuietBetweenBatches, loopVars, jobVars
<1>1. CASE LoopHead
  BY <1>1 DEF LoopHead
<1>2. CASE ClaimFailed
  BY <1>2 DEF ClaimFailed
<1>3. CASE JoinBatch
  BY <1>3 DEF JoinBatch
<1>4. CASE IdleSleepElapses \/ IdleSeesShutdown
  BY <1>4 DEF IdleSleepElapses, IdleSeesShutdown
<1>5. ASSUME NEW S \in SUBSET Jobs, ClaimOk(S) PROVE IInv'
  <2>1. orphans' \subseteq Jobs \X Beating
    BY <1>5 DEF ClaimOk
  <2> QED
    BY <1>5, <2>1 DEF ClaimOk
<1>6. CASE WaitForShutdown
  BY <1>6 DEF WaitForShutdown
<1>7. CASE RuntimeDrops \/ Crash
  <2>1. ForgetTasks /\ pc' \in Gone /\ shutdown' = FALSE
    BY <1>7 DEF RuntimeDrops, Crash
  <2>2. TypeOK' /\ QuietBetweenBatches'
    BY <2>1 DEF ForgetTasks
  <2>3. AllTied'
    BY <2>1 DEF ForgetTasks
  <2> QED
    BY <2>2, <2>3
<1>8. CASE Restart
  BY <1>8 DEF Restart
<1>9. ASSUME NEW j \in Jobs, BlockingOpReturns(j) PROVE IInv'
  BY <1>9 DEF BlockingOpReturns
<1> QED
  BY <1>1, <1>2, <1>3, <1>4, <1>5, <1>6, <1>7, <1>8, <1>9 DEF Loop, Process

(* A step of a task: the job was unfinished, so that the loop is joining,  *)
(* and the other jobs are left alone.                                      *)
LEMMA TaskIInv ==
  ASSUME IInv, NEW j \in Jobs, Task(j)
  PROVE  IInv'
<1> USE DEF IInv, TypeOK, AllTied, Tied, QuietBetweenBatches, loopVars
<1>1. CASE TaskStarts(j)
  BY <1>1, JobsAssumption DEF TaskStarts
<1>2. ASSUME NEW r \in HandlerResults, DispatchReturns(j, r) PROVE IInv'
  BY <1>2 DEF DispatchReturns, StopHeartbeat
<1>3. CASE TimeoutElapses(j)
  BY <1>3, JobsAssumption DEF TimeoutElapses, StopHeartbeat
<1>4. CASE DispatchPanics(j)
  BY <1>4 DEF DispatchPanics
<1>5. CASE ReportStarts(j)
  BY <1>5 DEF ReportStarts
<1>6. CASE ReportReturns(j)
  BY <1>6 DEF ReportReturns
<1> QED
  BY <1>1, <1>2, <1>3, <1>4, <1>5, <1>6 DEF Task

(* A step of a heartbeat: what it makes of its channel is what Tied says.  *)
LEMMA HeartbeatIInv ==
  ASSUME IInv, NEW j \in Jobs, Heartbeat(j)
  PROVE  IInv'
<1> USE DEF IInv, TypeOK, AllTied, Tied, QuietBetweenBatches, loopVars
<1>1. CASE HeartbeatFires(j)
  BY <1>1 DEF HeartbeatFires
<1>2. CASE HeartbeatReturns(j)
  BY <1>2 DEF HeartbeatReturns, AfterSelect
<1>3. CASE HeartbeatSeesChange(j)
  BY <1>3 DEF HeartbeatSeesChange, AfterSelect
<1> QED
  BY <1>1, <1>2, <1>3 DEF Heartbeat

(* An orphan has nothing to do with the tasks of the batch. *)
LEMMA OrphanIInv ==
  ASSUME IInv, NEW j \in Jobs, OrphanStep(j)
  PROVE  IInv'
<1>1. orphans' \subseteq Jobs \X Beating
  BY DEF IInv, TypeOK, OrphanStep
<1>2. UNCHANGED <<pc, shutdown, task, result, heartbeat, tx, detached>>
  BY DEF OrphanStep, loopVars
<1> QED
  BY <1>1, <1>2 DEF IInv, TypeOK, AllTied, Tied, QuietBetweenBatches

(* Every step of the process preserves it. *)
LEMMA NextIInv == IInv /\ [Next]_vars => IInv'
<1> SUFFICES ASSUME IInv, [Next]_vars PROVE IInv'
  OBVIOUS
<1>1. CASE Next
  BY <1>1, LoopIInv, TaskIInv, HeartbeatIInv, OrphanIInv DEF Next
<1>2. CASE UNCHANGED vars
  BY <1>2 DEF vars, IInv, TypeOK, AllTied, Tied, QuietBetweenBatches
<1> QED
  BY <1>1, <1>2

(* The inductive invariant of the worker process (worker.rs, cli.rs). *)
THEOREM Inductive == Spec => []IInv
  BY InitIInv, NextIInv, PTL DEF Spec

(* The variables keep their types. *)
THEOREM TypeCorrect == Spec => []TypeOK
<1>1. IInv => TypeOK
  BY DEF IInv
<1> QED
  BY Inductive, <1>1, PTL

(* The worker claims, idles and ends with every task of the batch over     *)
(* (process_once awaits all its handles).                                  *)
THEOREM BatchIsJoined == Spec => []QuietBetweenBatches
<1>1. IInv => QuietBetweenBatches
  BY DEF IInv
<1> QED
  BY Inductive, <1>1, PTL

(* A running handler has a live heartbeat, and no heartbeat of the same    *)
(* execution accompanies or follows its result (worker.rs:105-152).        *)
THEOREM HeartbeatIsScoped == Spec => []HeartbeatSpansExecution
<1>1. IInv => HeartbeatSpansExecution
  BY DEF IInv, AllTied, Tied, HeartbeatSpansExecution
<1> QED
  BY Inductive, <1>1, PTL

-----------------------------------------------------------------------------
(* What is left behind by a batch, and by whom. *)
Leftovers ==
  \A j \in Jobs :
    /\ task[j] = "panicked" \/ heartbeat[j] = "spinning" => j \in MayPanic
    /\ \A s \in Beating : <<j, s>> \in orphans => j \in MayPanic
    /\ j \in detached => j \in Blocking

LEMMA LeftoversStep == IInv /\ Leftovers /\ [Next]_vars => Leftovers'
<1> SUFFICES ASSUME IInv, Leftovers, [Next]_vars PROVE Leftovers'
  OBVIOUS
<1> USE DEF IInv, TypeOK, AllTied, Tied, Leftovers, loopVars, jobVars
<1>1. ASSUME NEW S \in SUBSET Jobs, ClaimOk(S) PROVE Leftovers'
  <2>1. CASE S = {}
    BY <1>1, <2>1 DEF ClaimOk
  <2>2. CASE S # {}
    <3>1. \A j \in Jobs : heartbeat[j] \in Beating => j \in MayPanic
      BY <1>1 DEF ClaimOk, QuietBetweenBatches
    <3>2. \A j \in Jobs, s \in Beating : <<j, s>> \in orphans' => j \in MayPanic
      <4>1. TAKE j \in Jobs, s \in Beating
      <4>2. HAVE <<j, s>> \in orphans'
      <4>3. CASE <<j, s>> \in orphans
        BY <4>3
      <4>4. CASE <<j, s>> \notin orphans
        <5>1. <<j, s>> \in {<<i, heartbeat[i]>> : i \in {k \in Jobs : heartbeat[k] \in Beating}}
          BY <1>1, <2>2, <4>2, <4>4 DEF ClaimOk
        <5>2. PICK i \in Jobs : heartbeat[i] \in Beating /\ <<j, s>> = <<i, heartbeat[i]>>
          BY <5>1
        <5>3. i = j
          BY <5>2
        <5> QED
          BY <5>2, <5>3, <3>1
      <4> QED
        BY <4>3, <4>4
    <3>3. \A j \in Jobs : task'[j] # "panicked" /\ heartbeat'[j] # "spinning"
      BY <1>1, <2>2 DEF ClaimOk
    <3>4. detached' = detached
      BY <1>1 DEF ClaimOk
    <3> QED
      BY <3>2, <3>3, <3>4
  <2> QED
    BY <2>1, <2>2
<1>2. CASE Process
  BY <1>2 DEF Process, WaitForShutdown, RuntimeDrops, Crash, Restart, BlockingOpReturns,
              ForgetTasks
<1>3. CASE LoopHead \/ ClaimFailed \/ JoinBatch \/ IdleSleepElapses \/ IdleSeesShutdown
  BY <1>3 DEF LoopHead, ClaimFailed, JoinBatch, IdleSleepElapses, IdleSeesShutdown
<1>4. ASSUME NEW j \in Jobs, Task(j) PROVE Leftovers'
  <2>1. orphans' = orphans
    BY <1>4 DEF Task, TaskStarts, TimeoutElapses, DispatchReturns, StopHeartbeat,
                DispatchPanics, ReportStarts, ReportReturns
  <2>2. \A i \in Jobs : i \in detached' => i \in detached \/ i \in Blocking
    BY <1>4 DEF Task, TaskStarts, TimeoutElapses, DispatchReturns, StopHeartbeat,
                DispatchPanics, ReportStarts, ReportReturns
  <2>3. \A i \in Jobs : task'[i] = "panicked" => task[i] = "panicked" \/ i \in MayPanic
    BY <1>4 DEF Task, TaskStarts, TimeoutElapses, DispatchReturns, StopHeartbeat,
                DispatchPanics, ReportStarts, ReportReturns
  <2>4. \A i \in Jobs : heartbeat'[i] = "spinning" => heartbeat[i] = "spinning"
    BY <1>4 DEF Task, TaskStarts, TimeoutElapses, DispatchReturns, StopHeartbeat,
                DispatchPanics, ReportStarts, ReportReturns
  <2> QED
    BY <2>1, <2>2, <2>3, <2>4
<1>5. ASSUME NEW j \in Jobs, Heartbeat(j) PROVE Leftovers'
  BY <1>5 DEF Heartbeat, HeartbeatFires, HeartbeatReturns, HeartbeatSeesChange, AfterSelect
<1>6. CASE UNCHANGED vars
  BY <1>6 DEF vars
<1>7. ASSUME NEW j \in Jobs, OrphanStep(j) PROVE Leftovers'
  <2>1. \A i \in Jobs, s \in Beating : <<i, s>> \in orphans' =>
          \E t \in Beating : <<i, t>> \in orphans
    BY <1>7 DEF OrphanStep
  <2>2. UNCHANGED <<task, heartbeat, detached>>
    BY <1>7 DEF OrphanStep
  <2> QED
    BY <2>1, <2>2
<1> QED
  BY <1>1, <1>2, <1>3, <1>4, <1>5, <1>6, <1>7 DEF Next, Loop

(* Only the heartbeat of a job whose handler panicked outlives its task or *)
(* its batch, and only a timed-out operation of the file system goes on    *)
(* without its job (worker.rs:105-152): beside these two the process keeps *)
(* nothing of a batch that is over.                                        *)
THEOREM LittleIsLeftBehind == Spec => []Leftovers
<1>1. Init => Leftovers
  BY DEF Init, FreshTasks, Leftovers
<1> QED
  BY <1>1, LeftoversStep, Inductive, PTL DEF Spec

-----------------------------------------------------------------------------
(* What TasksEnd rests on, beside fairness: a task always has a step to    *)
(* take or a heartbeat to wait for that has one, and no step of anybody    *)
(* sets it back.                                                           *)

(* The steps still ahead of a task.  The stop channel holds true while it  *)
(* waits for its heartbeat, which therefore ends with its next select.     *)
Ahead(j) ==
  CASE task[j] = "spawned" -> 6
    [] task[j] = "running" -> 5
    [] task[j] = "stopping" /\ heartbeat[j] = "sleeping" -> 4
    [] task[j] = "stopping" /\ heartbeat[j] = "sending" -> 3
    [] task[j] = "stopping" /\ heartbeat[j] = "ended" -> 2
    [] task[j] \in {"rejecting", "reporting"} -> 1
    [] task[j] \in Finished -> 0

(* An unfinished task that waits for its heartbeat finds it over, or about *)
(* to hear of the stop.                                                    *)
NeverWaitsInVain ==
  \A j \in Jobs :
    task[j] = "stopping" =>
      \/ heartbeat[j] = "ended"
      \/ tx[j] = "true" /\ heartbeat[j] \in {"sending", "sleeping"}

(* A result, once there is one, is what is reported. *)
TaskAdvances ==
  \A j \in Jobs :
    task[j] \notin Finished =>
      /\ Ahead(j)' <= Ahead(j)
      /\ \/ task'[j] # task[j]
         \/ task[j] = "stopping" /\ heartbeat'[j] # heartbeat[j]
         => Ahead(j)' < Ahead(j)
      /\ task[j] \in {"stopping", "rejecting", "reporting"} /\ task'[j] # "none" =>
           result'[j] = result[j]

(* Every task of a batch ends after six steps at the most of its own and   *)
(* its heartbeat's, with one result (worker.rs:86-154).                    *)
THEOREM TasksGoOneWay == Spec => []NeverWaitsInVain /\ [][TaskAdvances]_vars
<1>1. IInv => NeverWaitsInVain
  BY DEF IInv, AllTied, Tied, NeverWaitsInVain
<1>2. IInv /\ Next => TaskAdvances
  <2> SUFFICES ASSUME IInv, Next, NEW j \in Jobs, task[j] \notin Finished
               PROVE  /\ Ahead(j)' <= Ahead(j)
                      /\ \/ task'[j] # task[j]
                         \/ task[j] = "stopping" /\ heartbeat'[j] # heartbeat[j]
                         => Ahead(j)' < Ahead(j)
                      /\ task[j] \in {"stopping", "rejecting", "reporting"} /\ task'[j] # "none" =>
                           result'[j] = result[j]
    BY DEF TaskAdvances
  <2> USE DEF IInv, TypeOK, AllTied, Tied, loopVars, jobVars, QuietBetweenBatches
  <2>0. Ahead(j) \in 1..6
    BY DEF Ahead
  <2>1. CASE task' = task /\ heartbeat' = heartbeat /\ result' = result
    <3>1. Ahead(j)' = Ahead(j)
      BY <2>1 DEF Ahead
    <3> QED
      BY <2>0, <2>1, <3>1
  <2>2. CASE task'[j] = "none"
    <3>1. Ahead(j)' = 0
      BY <2>2 DEF Ahead
    <3> QED
      BY <2>0, <2>2, <3>1
  <2>3. CASE Loop
    <3>1. task' = task /\ heartbeat' = heartbeat /\ result' = result
      BY <2>3 DEF Loop, LoopHead, ClaimFailed, JoinBatch, IdleSleepElapses, IdleSeesShutdown,
                  ClaimOk
    <3> QED
      BY <2>1, <3>1
  <2>4. CASE Process
    <3>1. \/ task' = task /\ heartbeat' = heartbeat /\ result' = result
          \/ task'[j] = "none"
      BY <2>4 DEF Process, WaitForShutdown, RuntimeDrops, Crash, Restart, BlockingOpReturns,
                  ForgetTasks
    <3> QED
      BY <2>1, <2>2, <3>1
  <2>5. ASSUME NEW i \in Jobs, Task(i) \/ Heartbeat(i), i # j
        PROVE  Ahead(j)' = Ahead(j) /\ task'[j] = task[j] /\ heartbeat'[j] = heartbeat[j]
               /\ result'[j] = result[j]
    <3>1. task'[j] = task[j] /\ heartbeat'[j] = heartbeat[j] /\ result'[j] = result[j]
      BY <2>5 DEF Task, TaskStarts, TimeoutElapses, DispatchReturns, StopHeartbeat,
         DispatchPanics, ReportStarts, ReportReturns,
         Heartbeat, HeartbeatFires, HeartbeatReturns, HeartbeatSeesChange
    <3> QED
      BY <3>1 DEF Ahead
  <2>6. CASE Task(j)
    <3>1. Ahead(j)' < Ahead(j)
      <4>1. CASE TaskStarts(j)
        BY <4>1 DEF TaskStarts, Ahead
      <4>2. CASE TimeoutElapses(j) \/ DispatchPanics(j) \/ \E r \in HandlerResults : DispatchReturns(j, r)
        BY <4>2 DEF TimeoutElapses, DispatchReturns, StopHeartbeat, DispatchPanics, Ahead
      <4>3. CASE ReportStarts(j) \/ ReportReturns(j)
        BY <4>3 DEF ReportStarts, ReportReturns, Ahead
      <4> QED
        BY <2>6, <4>1, <4>2, <4>3 DEF Task
    <3>2. task[j] \in {"stopping", "rejecting", "reporting"} => result'[j] = result[j]
      BY <2>6 DEF Task, TaskStarts, TimeoutElapses, DispatchReturns, StopHeartbeat,
         DispatchPanics, ReportStarts, ReportReturns
    <3>3. Ahead(j)' \in 0..6
      BY <2>6 DEF Task, TaskStarts, TimeoutElapses, DispatchReturns, StopHeartbeat,
         DispatchPanics, ReportStarts, ReportReturns, Ahead
    <3> QED
      BY <2>0, <3>1, <3>2, <3>3
  <2>7. CASE Heartbeat(j)
    <3>1. task' = task /\ result' = result
      BY <2>7 DEF Heartbeat, HeartbeatFires, HeartbeatReturns, HeartbeatSeesChange
    <3>2. CASE task[j] = "stopping"
      <4>1. Ahead(j)' < Ahead(j) /\ Ahead(j)' \in 0..6
        BY <2>7, <3>1, <3>2 DEF Heartbeat, HeartbeatFires, HeartbeatReturns,
           HeartbeatSeesChange, AfterSelect, Ahead
      <4> QED
        BY <2>0, <3>1, <4>1
    <3>3. CASE task[j] # "stopping"
      <4>1. Ahead(j)' = Ahead(j)
        BY <3>1, <3>3 DEF Ahead
      <4> QED
        BY <2>0, <3>1, <3>3, <4>1
    <3> QED
      BY <3>2, <3>3
  <2>8. ASSUME NEW i \in Jobs, OrphanStep(i)
        PROVE  task' = task /\ heartbeat' = heartbeat /\ result' = result
    BY <2>8 DEF OrphanStep
  <2> QED
    BY <2>0, <2>1, <2>3, <2>4, <2>5, <2>6, <2>7, <2>8 DEF Next
<1>3. IInv /\ [Next]_vars => [TaskAdvances]_vars
  BY <1>2
<1> QED
  BY <1>1, <1>3, Inductive, PTL DEF Spec

-----------------------------------------------------------------------------
(* What ShutdownCompletes rests on, beside fairness. *)

(* How far the loop is from its end. *)
LoopLeft(p) ==
  CASE p = "claiming" -> 4
    [] p \in {"joining", "idle"} -> 3
    [] p = "top" -> 2
    [] p = "draining" -> 1
    [] p \in Gone -> 0

(* Once a shutdown is requested it is not forgotten before the process is  *)
(* gone, and the loop only moves towards its end: it waits for the batch   *)
(* it has, and claims no other.                                            *)
ShutdownAdvances ==
  shutdown =>
    /\ shutdown' \/ pc' \in Gone
    /\ pc' # pc => LoopLeft(pc') < LoopLeft(pc)

(* A request to shut down is carried through, whatever the loop waits for  *)
(* when it comes (worker.rs:35-63).                                        *)
THEOREM ShutdownIsFinal ==
  Spec => [](pc \in Gone => ~shutdown) /\ [][ShutdownAdvances]_vars
<1>1. Init => (pc \in Gone => ~shutdown)
  BY DEF Init
<1>2. IInv /\ (pc \in Gone => ~shutdown) /\ [Next]_vars
        => (pc \in Gone => ~shutdown)' /\ [ShutdownAdvances]_vars
  <2> SUFFICES ASSUME IInv, pc \in Gone => ~shutdown, Next
               PROVE  (pc' \in Gone => ~shutdown') /\ ShutdownAdvances
    BY DEF vars
  <2> USE DEF LoopLeft, ShutdownAdvances, jobVars, loopVars
  <2>1. CASE Loop
    BY <2>1 DEF Loop, LoopHead, ClaimFailed, JoinBatch, IdleSleepElapses, IdleSeesShutdown,
                ClaimOk
  <2>2. CASE Process
    BY <2>2 DEF Process, WaitForShutdown, RuntimeDrops, Crash, Restart, BlockingOpReturns,
                IInv, TypeOK
  <2>3. ASSUME NEW j \in Jobs, Task(j) \/ Heartbeat(j) \/ OrphanStep(j)
        PROVE  UNCHANGED loopVars
    BY <2>3 DEF OrphanStep, Task, TaskStarts, TimeoutElapses, DispatchReturns, StopHeartbeat,
       DispatchPanics, ReportStarts, ReportReturns,
       Heartbeat, HeartbeatFires, HeartbeatReturns, HeartbeatSeesChange
  <2> QED
    BY <2>1, <2>2, <2>3 DEF Next
<1> QED
  BY <1>1, <1>2, Inductive, PTL DEF Spec
=============================================================================
