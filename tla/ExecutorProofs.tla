--------------------------- MODULE ExecutorProofs ---------------------------
(***************************************************************************)
(* The composition keeps the invariants of the worker, and implements      *)
(* Delivery, for every set of jobs, every number of attempts and crashes   *)
(* and every loss, delay or late service of a call.                        *)
(***************************************************************************)
EXTENDS Executor, WorkerProofs

(* A claim is under way only while the loop waits for it, and its answer   *)
(* names jobs only once it was served.                                     *)
ClaimInv ==
  /\ claim # "none" => pc = "claiming"
  /\ claim # "served" => granted = {}

(* The task of a job, its result and its executions agree. *)
TaskInv ==
  \A j \in Jobs :
    /\ task[j] \in {"running", "stopping", "reporting"} => j \in Allowed /\ runs[j] > 0
    /\ task[j] \in {"stopping", "reporting"} => result[j] \in outcomes[j]
    /\ task[j] = "rejecting" => j \notin Allowed /\ result[j] = "rejected"
    /\ task[j] # "none" => attempts[j] > 0
    /\ report[j] = "sent" => task[j] \in {"reporting", "rejecting"}
    /\ "rejected" \notin outcomes[j]

(* A result under way is an outcome of this job, or its rejection.         *)
LateInv ==
  \A j \in Jobs : \A r \in Results :
    <<j, r>> \in lateReports =>
      /\ attempts[j] > 0
      /\ IF j \in Allowed THEN r \in outcomes[j] ELSE r = "rejected"

(* Only an unsettled job is leased, and only while it has attempts left.   *)
QueueInv ==
  \A j \in Jobs :
    /\ qstate[j] \in {"queued", "leased"} => verdict[j] = "none"
    /\ qstate[j] = "queued" => attempts[j] < MaxAttempts

EInv ==
  /\ IInv
  /\ ExecutorTypeOK
  /\ ClaimInv
  /\ TaskInv
  /\ LateInv
  /\ QueueInv
  /\ OneRunPerLease

USE DEF Results, Gone, Finished, Beating

-----------------------------------------------------------------------------
(* Every step of the composition is a step of the worker, or leaves it be. *)
LEMMA WorkerStep == ExecutorTypeOK /\ [ExecutorNext]_allVars => [Next]_vars
<1> SUFFICES ASSUME ExecutorTypeOK, [ExecutorNext]_allVars PROVE [Next]_vars
  OBVIOUS
<1>1. CASE SendClaim \/ GiveUpClaim
  BY <1>1 DEF SendClaim, GiveUpClaim, Next, Loop
<1>2. CASE ReceiveClaim
  BY <1>2 DEF ReceiveClaim, ExecutorTypeOK, Next, Loop
<1>3. CASE LocalStep
  <2>1. CASE JoinBatch \/ IdleSleepElapses \/ IdleSeesShutdown
    BY <2>1 DEF Next, Loop
  <2>2. CASE WaitForShutdown \/ RuntimeDrops \/ Restart
    BY <2>2 DEF Next, Process
  <2>3. ASSUME NEW j \in Jobs,
               DispatchPanics(j) \/ Heartbeat(j) \/ OrphanStep(j) \/ BlockingOpReturns(j)
        PROVE  Next
    BY <2>3 DEF Next, Process, Task
  <2> QED
    BY <1>3, <2>1, <2>2, <2>3 DEF LocalStep, Aside
<1>4. CASE ProcessCrashes
  BY <1>4 DEF ProcessCrashes, Next, Process
<1>5. ASSUME NEW S \in SUBSET Jobs, ServeClaim(S) \/ ServeLateClaim(S)
      PROVE  UNCHANGED vars
  BY <1>5 DEF ServeClaim, ServeLateClaim
<1>6. ASSUME NEW j \in Jobs, StartTask(j) \/ SendReport(j) \/ EndReport(j)
      PROVE  Next
  BY <1>6 DEF StartTask, SendReport, EndReport, Next, Task
<1>7. ASSUME NEW j \in Jobs, NEW r \in Results, FinishTask(j, r)
      PROVE  Next
  BY <1>7 DEF FinishTask, DispatchReturns, Next, Task
<1>8. ASSUME NEW j \in Jobs, ServeReport(j) \/ LeaseExpires(j)
      PROVE  UNCHANGED vars
  BY <1>8 DEF ServeReport, LeaseExpires
<1>9. ASSUME NEW j \in Jobs, NEW r \in Results, ServeLateReport(j, r)
       PROVE  UNCHANGED vars
  BY <1>9 DEF ServeLateReport
<1>10. CASE UNCHANGED allVars
  BY <1>10 DEF allVars
<1> QED
  BY <1>1, <1>2, <1>3, <1>4, <1>5, <1>6, <1>7, <1>8, <1>9, <1>10
     DEF ExecutorNext

(* The invariant of the composition holds before the first call. *)
LEMMA InitEInv == ExecutorInit => EInv
<1> SUFFICES ASSUME ExecutorInit PROVE EInv
  OBVIOUS
<1> USE DEF ExecutorInit, Init, FreshTasks, Q!QueueInit, NoReports
<1>1. IInv
  BY InitIInv
<1>2. ExecutorTypeOK
  <2>1. lateClaim \in BOOLEAN /\ TypeOK
    BY <1>1 DEF IInv
  <2>2. crashes \in 0..MaxCrashes /\ attempts \in [Jobs -> 0..MaxAttempts]
    BY ExecutorAssumption
  <2> QED
    BY <2>1, <2>2 DEF ExecutorTypeOK
<1>3. ClaimInv /\ TaskInv /\ LateInv /\ QueueInv
  BY ExecutorAssumption DEF ClaimInv, TaskInv, LateInv, QueueInv
<1>4. OneRunPerLease
  BY DEF OneRunPerLease, Pending
<1> QED
  BY <1>1, <1>2, <1>3, <1>4 DEF EInv

(* The part of EInv that is not the worker's own. *)
NetInv ==
  /\ ExecutorTypeOK
  /\ ClaimInv
  /\ TaskInv
  /\ LateInv
  /\ QueueInv
  /\ OneRunPerLease

(* Sending, receiving and giving up a claim (client.rs) preserve it. *)
LEMMA ClaimSteps ==
  ASSUME EInv, TypeOK', SendClaim \/ ReceiveClaim \/ GiveUpClaim
  PROVE  NetInv'
<1> USE DEF EInv, NetInv, ExecutorTypeOK, ClaimInv, TaskInv, LateInv, QueueInv,
            OneRunPerLease, Pending, queueVars, history, NoReports
<1>1. CASE SendClaim
  BY <1>1 DEF SendClaim, LoopHead, jobVars
<1>2. CASE ReceiveClaim
  <2> USE <1>2 DEF ReceiveClaim
  <2>1. ExecutorTypeOK' /\ ClaimInv' /\ LateInv' /\ QueueInv'
    BY DEF ClaimOk
  <2>2. \A j \in granted : attempts[j] > 0
    OBVIOUS
  <2>3. TaskInv'
    BY <2>2 DEF ClaimOk, IInv, TypeOK
  <2>4. OneRunPerLease'
    BY DEF ClaimOk, IInv, TypeOK
  <2> QED
    BY <2>1, <2>3, <2>4
<1>3. CASE GiveUpClaim
  BY <1>3 DEF GiveUpClaim, ClaimFailed, jobVars
<1> QED
  BY <1>1, <1>2, <1>3

(* So does the service of a claim, in time or late: it counts an         *)
(* attempt.                                                              *)
LEMMA GrantSteps ==
  ASSUME EInv, TypeOK', NEW S \in SUBSET Jobs, ServeClaim(S) \/ ServeLateClaim(S)
  PROVE  NetInv'
<1> USE DEF EInv, history, vars
<1>1. /\ S \subseteq Q!Queued
      /\ qstate' = [j \in Jobs |-> IF j \in S THEN "leased" ELSE qstate[j]]
      /\ attempts' = [j \in Jobs |-> IF j \in S THEN attempts[j] + 1 ELSE attempts[j]]
      /\ UNCHANGED <<vars, verdict, report, lateReports, crashes, runs, outcomes, trouble>>
  BY DEF ServeClaim, ServeLateClaim, Q!Grant
<1>2. \A j \in S : j \in Jobs /\ qstate[j] = "queued" /\ attempts[j] < MaxAttempts
  BY <1>1 DEF Q!Queued, QueueInv
<1>3. \A j \in Jobs : attempts[j] \in Nat /\ attempts'[j] \in Nat
                       /\ attempts'[j] >= attempts[j]
  BY <1>1, ExecutorAssumption DEF ExecutorTypeOK
<1>4. ExecutorTypeOK'
  <2>1. attempts' \in [Jobs -> 0..MaxAttempts]
    BY <1>1, <1>2, ExecutorAssumption DEF ExecutorTypeOK
  <2>2. qstate' \in [Jobs -> {"queued", "leased", "finished", "dead"}]
    BY <1>1 DEF ExecutorTypeOK
  <2>3. claim' \in {"none", "sent", "served"} /\ granted' \subseteq Jobs
    BY DEF ExecutorTypeOK, ServeClaim, ServeLateClaim
  <2>4. lateClaim' \in BOOLEAN
    BY DEF ExecutorTypeOK, ServeClaim, ServeLateClaim
  <2> QED
    BY <1>1, <2>1, <2>2, <2>3, <2>4 DEF ExecutorTypeOK
<1>5. ClaimInv'
  BY <1>1 DEF ClaimInv, ServeClaim, ServeLateClaim
<1>6. TaskInv' /\ LateInv'
  BY <1>1, <1>3 DEF TaskInv, LateInv
<1>7. QueueInv'
  BY <1>1, <1>2 DEF QueueInv, ExecutorTypeOK
<1>8. OneRunPerLease'
  <2>1. CASE ServeClaim(S)
    <3>1. \A j \in Jobs : task[j] # "spawned" /\ j \notin granted
      BY <2>1 DEF ServeClaim, ClaimInv, IInv, QuietBetweenBatches
    <3> QED
      BY <1>1, <1>3, <2>1, <3>1
      DEF ServeClaim, OneRunPerLease, Pending, ExecutorTypeOK
  <2>2. CASE ServeLateClaim(S)
    BY <1>1, <1>3, <2>2 DEF ServeLateClaim, OneRunPerLease, Pending, ExecutorTypeOK
  <2> QED
    BY <2>1, <2>2
<1> QED
  BY <1>4, <1>5, <1>6, <1>7, <1>8 DEF NetInv

(* A result request left unanswered is as honest as LateInv demands.       *)
LEMMA UnansweredReports ==
  ASSUME EInv, NEW S \in SUBSET Jobs
  PROVE  /\ Unanswered(S) \subseteq Jobs \X Results
         /\ \A j \in Jobs : \A r \in Results :
              <<j, r>> \in Unanswered(S) =>
                /\ attempts[j] > 0
                /\ IF j \in Allowed THEN r \in outcomes[j] ELSE r = "rejected"
<1>1. \A j \in Jobs : report[j] = "sent" =>
        /\ result[j] \in Results
        /\ attempts[j] > 0
        /\ IF j \in Allowed THEN result[j] \in outcomes[j] ELSE result[j] = "rejected"
  BY DEF EInv, TaskInv, ExecutorTypeOK
<1> QED
  BY <1>1 DEF Unanswered

(* Giving up results that were sent adds honest ones to lateReports. *)
LEMMA LateReportsGrow ==
  ASSUME EInv, NEW S \in SUBSET Jobs,
         lateReports' = lateReports \cup Unanswered(S),
         UNCHANGED <<attempts, outcomes>>
  PROVE  LateInv'
<1> SUFFICES ASSUME NEW i \in Jobs, NEW q \in Results, <<i, q>> \in lateReports'
             PROVE  /\ attempts[i] > 0
                    /\ IF i \in Allowed THEN q \in outcomes[i] ELSE q = "rejected"
  BY DEF LateInv
<1>1. CASE <<i, q>> \in lateReports
  BY <1>1 DEF EInv, LateInv
<1>2. CASE <<i, q>> \in Unanswered(S)
  BY <1>2, UnansweredReports
<1> QED
  BY <1>1, <1>2

(* The steps of a job's task and of its result call preserve it. *)
LEMMA TaskSteps ==
  ASSUME EInv, TypeOK', NEW j \in Jobs, NEW r \in Results,
         StartTask(j) \/ FinishTask(j, r) \/ SendReport(j) \/ EndReport(j)
  PROVE  NetInv'
<1> USE DEF EInv, NetInv, queueVars, netVars, history, loopVars, IInv, TypeOK
<1>1. CASE StartTask(j)
  <2> USE <1>1 DEF StartTask, TaskStarts
  <2>1. ExecutorTypeOK'
    BY ExecutorAssumption DEF ExecutorTypeOK
  <2>2. ClaimInv' /\ QueueInv'
    BY DEF ClaimInv, QueueInv
  <2>3. TaskInv'
    BY ExecutorAssumption DEF TaskInv, ExecutorTypeOK
  <2>4. LateInv'
    BY DEF LateInv, TaskInv
  <2>5. granted = {}
    BY DEF QuietBetweenBatches, ClaimInv
  <2>6. \A i \in Jobs : runs[i] \in Nat /\ attempts[i] \in Nat
    BY ExecutorAssumption DEF ExecutorTypeOK
  <2>7. OneRunPerLease'
    BY <2>5, <2>6 DEF OneRunPerLease, Pending, ExecutorTypeOK
  <2> QED
    BY <2>1, <2>2, <2>3, <2>4, <2>7
<1>2. CASE FinishTask(j, r)
  <2> USE <1>2 DEF FinishTask, DispatchReturns, TimeoutElapses, StopHeartbeat
  <2>1. ExecutorTypeOK'
    BY ExecutorAssumption DEF ExecutorTypeOK
  <2>2. ClaimInv' /\ QueueInv'
    BY DEF ClaimInv, QueueInv
  <2>3. TaskInv'
    BY ExecutorAssumption, JobsAssumption DEF TaskInv, ExecutorTypeOK
  <2>4. LateInv'
    BY DEF LateInv, ExecutorTypeOK
  <2>5. OneRunPerLease'
    BY ExecutorAssumption DEF OneRunPerLease, Pending, ExecutorTypeOK
  <2> QED
    BY <2>1, <2>2, <2>3, <2>4, <2>5
<1>3. CASE SendReport(j)
  <2> USE <1>3 DEF SendReport, ReportStarts
  <2>1. ExecutorTypeOK'
    BY ExecutorAssumption DEF ExecutorTypeOK
  <2>2. ClaimInv' /\ QueueInv'
    BY DEF ClaimInv, QueueInv
  <2>3. TaskInv'
    BY ExecutorAssumption DEF TaskInv, ExecutorTypeOK
  <2>4. LateInv'
    BY DEF LateInv, TaskInv
  <2>5. OneRunPerLease'
    BY ExecutorAssumption DEF OneRunPerLease, Pending, ExecutorTypeOK
  <2> QED
    BY <2>1, <2>2, <2>3, <2>4, <2>5
<1>4. CASE EndReport(j)
  <2> USE <1>4 DEF EndReport, ReportReturns
  <2>1. ExecutorTypeOK'
    BY UnansweredReports DEF ExecutorTypeOK
  <2>2. ClaimInv' /\ QueueInv'
    BY DEF ClaimInv, QueueInv
  <2>3. TaskInv'
    BY DEF TaskInv, ExecutorTypeOK
  <2>4. LateInv'
    BY LateReportsGrow
  <2>5. OneRunPerLease'
    BY DEF OneRunPerLease, Pending, ExecutorTypeOK
  <2> QED
    BY <2>1, <2>2, <2>3, <2>4, <2>5
<1> QED
  BY <1>1, <1>2, <1>3, <1>4

(* The queue settles a job, or requeues it; the worker takes no part.      *)
LEMMA ServeSteps ==
  ASSUME EInv, TypeOK', NEW j \in Jobs, NEW r \in Results,
         ServeReport(j) \/ ServeLateReport(j, r) \/ LeaseExpires(j)
  PROVE  NetInv'
<1> USE DEF EInv, NetInv, vars, netVars, history, queueVars
<1>1. CASE ServeReport(j)
  <2> USE <1>1 DEF ServeReport, Q!Accept, Q!queueVars
  <2>1. ExecutorTypeOK'
    <3>1. result[j] \in Results \cup {"none"}
      BY DEF IInv, TypeOK
    <3> QED
      BY <3>1 DEF ExecutorTypeOK
  <2>2. ClaimInv' /\ LateInv' /\ TaskInv' /\ OneRunPerLease'
    BY DEF ClaimInv, LateInv, TaskInv, OneRunPerLease, Pending, ExecutorTypeOK
  <2>3. QueueInv'
    BY DEF QueueInv, ExecutorTypeOK
  <2> QED
    BY <2>1, <2>2, <2>3
<1>2. CASE ServeLateReport(j, r)
  <2> USE <1>2 DEF ServeLateReport, Q!Accept, Q!queueVars
  <2>1. ExecutorTypeOK'
    BY DEF ExecutorTypeOK
  <2>2. ClaimInv' /\ LateInv' /\ TaskInv' /\ OneRunPerLease'
    BY DEF ClaimInv, LateInv, TaskInv, OneRunPerLease, Pending
  <2>3. QueueInv'
    BY DEF QueueInv, ExecutorTypeOK
  <2> QED
    BY <2>1, <2>2, <2>3
<1>3. CASE LeaseExpires(j)
  <2> USE <1>3 DEF LeaseExpires, Q!Expire
  <2>1. ExecutorTypeOK'
    BY DEF ExecutorTypeOK
  <2>2. ClaimInv' /\ LateInv' /\ TaskInv' /\ OneRunPerLease'
    BY DEF ClaimInv, LateInv, TaskInv, OneRunPerLease, Pending
  <2>3. QueueInv'
    BY DEF QueueInv, ExecutorTypeOK
  <2> QED
    BY <2>1, <2>2, <2>3
<1> QED
  BY <1>1, <1>2, <1>3

(* The steps of the process alone, and a crash, preserve it. *)
LEMMA ProcessSteps ==
  ASSUME EInv, TypeOK', LocalStep \/ ProcessCrashes
  PROVE  NetInv'
<1> USE DEF NetInv, netVars, history, queueVars, loopVars, jobVars
<1>1. CASE ProcessCrashes
  <2> USE <1>1 DEF ProcessCrashes, Crash, ForgetTasks
  <2>1. ExecutorTypeOK'
    BY UnansweredReports, ExecutorAssumption DEF EInv, ExecutorTypeOK, NoReports
  <2>2. LateInv'
    BY LateReportsGrow
  <2>3. ClaimInv' /\ TaskInv' /\ QueueInv'
    BY DEF EInv, ClaimInv, TaskInv, QueueInv, NoReports, ExecutorTypeOK
  <2>4. OneRunPerLease'
    <3>1. \A j \in Jobs : runs[j] \in Nat /\ attempts[j] \in Nat
      BY ExecutorAssumption DEF EInv, ExecutorTypeOK
    <3> QED
      BY <3>1 DEF EInv, OneRunPerLease, Pending
  <2> QED
    BY <2>1, <2>2, <2>3, <2>4
<1>2. CASE LocalStep
  <2>1. ExecutorTypeOK' /\ LateInv' /\ QueueInv'
    BY <1>2 DEF LocalStep, Aside, EInv, ExecutorTypeOK, LateInv, QueueInv
  <2>2. UNCHANGED <<netVars, queueVars, history>>
    BY <1>2 DEF LocalStep, Aside
  <2>3. ClaimInv'
    BY <1>2, <2>2 DEF LocalStep, Aside, EInv, ClaimInv, JoinBatch, IdleSleepElapses,
       IdleSeesShutdown, WaitForShutdown, RuntimeDrops, Restart, DispatchPanics,
       Heartbeat, HeartbeatFires, HeartbeatReturns, HeartbeatSeesChange,
       OrphanStep, BlockingOpReturns
  <2>4. ASSUME NEW j \in Jobs
        PROVE  \/ task'[j] = task[j] /\ result'[j] = result[j]
               \/ /\ task'[j] \in {"none", "panicked"}
                  /\ task[j] \in Finished \cup {"running"}
                  /\ task'[j] = "panicked" => task[j] = "running"
    <3>1. CASE JoinBatch \/ IdleSleepElapses \/ IdleSeesShutdown
      BY <3>1 DEF JoinBatch, IdleSleepElapses, IdleSeesShutdown
    <3>2. CASE WaitForShutdown \/ Restart
      BY <3>2 DEF WaitForShutdown, Restart
    <3>3. CASE RuntimeDrops
      BY <3>3 DEF RuntimeDrops, ForgetTasks, EInv, IInv, QuietBetweenBatches
    <3>4. ASSUME NEW i \in Jobs, DispatchPanics(i)
          PROVE  /\ task[i] = "running"
                 /\ result' = result
                 /\ task' = [task EXCEPT ![i] = "panicked"]
      BY <3>4 DEF DispatchPanics
    <3>5. ASSUME NEW i \in Jobs, Heartbeat(i) \/ OrphanStep(i) \/ BlockingOpReturns(i)
          PROVE  UNCHANGED <<task, result>>
      BY <3>5 DEF Heartbeat, HeartbeatFires, HeartbeatReturns,
         HeartbeatSeesChange, OrphanStep, BlockingOpReturns
    <3> QED
      BY <1>2, <3>1, <3>2, <3>3, <3>4, <3>5 DEF LocalStep, Aside, EInv, IInv, TypeOK
  <2>5. TaskInv' /\ OneRunPerLease'
    BY <2>2, <2>4 DEF EInv, TaskInv, OneRunPerLease, Pending
  <2> QED
    BY <2>1, <2>3, <2>5
<1> QED
  BY <1>1, <1>2

(* Every step of the composition preserves the invariant. *)
LEMMA NextEInv == EInv /\ [ExecutorNext]_allVars => EInv'
<1> SUFFICES ASSUME EInv, [ExecutorNext]_allVars PROVE EInv'
  OBVIOUS
<1>1. IInv' /\ TypeOK'
  BY WorkerStep, NextIInv DEF EInv, IInv
<1>2. CASE ExecutorNext
  BY <1>1, <1>2, ClaimSteps, GrantSteps, TaskSteps, ServeSteps, ProcessSteps
  DEF ExecutorNext, EInv, NetInv
<1>3. CASE UNCHANGED allVars
  BY <1>1, <1>3 DEF allVars, vars, queueVars, netVars, history, EInv,
     ExecutorTypeOK, ClaimInv, TaskInv, LateInv, QueueInv, OneRunPerLease, Pending
<1> QED
  BY <1>2, <1>3

(* The inductive invariant of the composition of worker.rs, client.rs    *)
(* and the queue.                                                        *)
THEOREM ExecutorInductive == ExecutorSpec => []EInv
  BY InitEInv, NextEInv, PTL DEF ExecutorSpec

(* The variables of the composition keep their types. *)
THEOREM ExecutorTypeCorrect == ExecutorSpec => []ExecutorTypeOK
<1>1. EInv => ExecutorTypeOK
  BY DEF EInv
<1> QED
  BY ExecutorInductive, <1>1, PTL

(* No lease is executed twice, whatever is lost, late or restarted.        *)
THEOREM AtMostOneRun == ExecutorSpec => []OneRunPerLease
<1>1. EInv => OneRunPerLease
  BY DEF EInv
<1> QED
  BY ExecutorInductive, <1>1, PTL

(* No request carries a result its job did not have.                       *)
THEOREM ReportsAreHonest == ExecutorSpec => []HonestReports
<1>1. EInv => HonestReports
  BY DEF EInv, TaskInv, LateInv, HonestReports
<1> QED
  BY ExecutorInductive, <1>1, PTL

-----------------------------------------------------------------------------
(* What holds as long as nothing went wrong: no claim or result goes astray, *)
(* so that a lease lasts while the job is under way and a result served is   *)
(* a result accepted.                                                        *)
CalmInv ==
  ~trouble =>
    /\ ~lateClaim
    /\ NoLeaseWasted
    /\ \A j \in Jobs :
         /\ LeaseKept(j) => qstate[j] \in {"leased", "finished"}
         /\ report[j] = "served" => qstate[j] = "finished"

(* Claims and their service preserve it. *)
LEMMA CalmClaims ==
  ASSUME EInv, CalmInv, ~trouble',
         \/ SendClaim \/ ReceiveClaim \/ GiveUpClaim
         \/ \E S \in SUBSET Jobs : ServeClaim(S) \/ ServeLateClaim(S)
  PROVE  CalmInv'
<1> USE DEF CalmInv, NoLeaseWasted, Pending, LeaseKept, queueVars, history, vars
<1>1. CASE SendClaim
  BY <1>1 DEF SendClaim, LoopHead, jobVars
<1>2. CASE ReceiveClaim
  BY <1>2 DEF ReceiveClaim, ClaimOk, NoReports, EInv, IInv, TypeOK,
     QuietBetweenBatches, ExecutorTypeOK
<1>3. CASE GiveUpClaim
  BY <1>3 DEF GiveUpClaim
<1>4. ASSUME NEW S \in SUBSET Jobs, ServeClaim(S) PROVE CalmInv'
  <2>1. \A j \in Jobs : task[j] # "spawned" /\ j \notin granted /\ ~LeaseKept(j)
    BY <1>4 DEF ServeClaim, EInv, IInv, ClaimInv, QuietBetweenBatches
  <2>2. \A j \in S : qstate[j] = "queued" /\ qstate'[j] = "leased"
    BY <1>4 DEF ServeClaim, Q!Grant, Q!Queued
  <2>3. \A j \in Jobs : attempts[j] \in Nat /\ runs[j] \in Nat
    BY ExecutorAssumption DEF EInv, ExecutorTypeOK
  <2>4. \A j \in Jobs :
          /\ attempts'[j] = IF j \in S THEN attempts[j] + 1 ELSE attempts[j]
          /\ j \notin S => qstate'[j] = qstate[j]
    BY <1>4 DEF ServeClaim, Q!Grant
  <2>5. UNCHANGED <<vars, lateClaim, report, runs, trouble>> /\ granted' = S
    BY <1>4 DEF ServeClaim
  <2> QED
    BY <2>1, <2>2, <2>3, <2>4, <2>5
<1>5. ASSUME NEW S \in SUBSET Jobs, ServeLateClaim(S) PROVE CalmInv'
  BY <1>5 DEF ServeLateClaim
<1> QED
  BY <1>1, <1>2, <1>3, <1>4, <1>5

(* The steps of a task and of its result call preserve it. *)
LEMMA CalmTasks ==
  ASSUME EInv, CalmInv, ~trouble', NEW j \in Jobs, NEW r \in Results,
         StartTask(j) \/ FinishTask(j, r) \/ SendReport(j) \/ EndReport(j)
  PROVE  CalmInv'
<1> USE DEF CalmInv, NoLeaseWasted, Pending, LeaseKept, queueVars, netVars, history
<1>0. \A i \in Jobs : attempts[i] \in Nat /\ runs[i] \in Nat
  BY ExecutorAssumption DEF EInv, ExecutorTypeOK
<1>1. CASE StartTask(j)
  <2>1. granted = {}
    BY <1>1 DEF StartTask, TaskStarts, EInv, IInv, QuietBetweenBatches, ClaimInv
  <2> QED
    BY <1>0, <1>1, <2>1 DEF StartTask, TaskStarts, EInv, IInv, TypeOK, ExecutorTypeOK
<1>2. CASE FinishTask(j, r)
  BY <1>0, <1>2 DEF FinishTask, DispatchReturns, TimeoutElapses, StopHeartbeat,
     EInv, IInv, TypeOK
<1>3. CASE SendReport(j)
  BY <1>0, <1>3 DEF SendReport, ReportStarts, EInv, IInv, TypeOK, ExecutorTypeOK
<1>4. CASE EndReport(j)
  <2>1. ~trouble /\ report[j] = "served"
    BY <1>4 DEF EndReport
  <2>2. qstate[j] = "finished"
    BY <2>1
  <2>3. /\ task' = [task EXCEPT ![j] = "done"]
        /\ report' = [report EXCEPT ![j] = "none"]
        /\ task[j] \in {"rejecting", "reporting"}
        /\ UNCHANGED <<qstate, attempts, runs, granted, lateClaim>>
    BY <1>4 DEF EndReport, ReportReturns
  <2>4. \A i \in Jobs : Pending(i)' = Pending(i)
    BY <2>3 DEF EInv, IInv, TypeOK
  <2> QED
    BY <2>1, <2>2, <2>3, <2>4 DEF EInv, IInv, TypeOK, ExecutorTypeOK
<1> QED
  BY <1>1, <1>2, <1>3, <1>4

(* The service of a result finishes its job; a lease ends when nobody      *)
(* keeps it; the rest of the process leaves jobs and queue alone.          *)
LEMMA CalmRest ==
  ASSUME EInv, CalmInv, ~trouble',
         \/ LocalStep \/ ProcessCrashes
         \/ \E j \in Jobs : ServeReport(j) \/ LeaseExpires(j)
         \/ \E j \in Jobs : \E r \in Results : ServeLateReport(j, r)
  PROVE  CalmInv'
<1> USE DEF CalmInv, NoLeaseWasted, Pending, LeaseKept, queueVars, netVars, history, vars
<1>1. CASE LocalStep
  <2>1. UNCHANGED <<queueVars, netVars, history>>
    BY <1>1 DEF LocalStep, Aside
  <2>2. \A j \in Jobs :
          /\ task'[j] \notin Finished => task[j] \notin Finished
          /\ (task'[j] = "spawned") <=> (task[j] = "spawned")
          /\ task'[j] = "done" => task[j] = "done"
    <3>1. CASE Aside(RuntimeDrops)
      BY <3>1 DEF Aside, RuntimeDrops, ForgetTasks, EInv, IInv, QuietBetweenBatches
    <3>2. ASSUME NEW i \in Jobs, Aside(DispatchPanics(i))
          PROVE  task[i] = "running" /\ task' = [task EXCEPT ![i] = "panicked"]
      BY <3>2 DEF Aside, DispatchPanics
    <3>3. ASSUME NEW i \in Jobs,
                 \/ Aside(Heartbeat(i)) \/ Aside(OrphanStep(i))
                 \/ Aside(BlockingOpReturns(i))
          PROVE  UNCHANGED task
      BY <3>3 DEF Aside, Heartbeat, HeartbeatFires, HeartbeatReturns,
         HeartbeatSeesChange, OrphanStep, BlockingOpReturns
    <3>4. CASE \/ Aside(JoinBatch) \/ Aside(IdleSleepElapses) \/ Aside(IdleSeesShutdown)
               \/ Aside(WaitForShutdown) \/ Aside(Restart)
      BY <3>4 DEF Aside, JoinBatch, IdleSleepElapses, IdleSeesShutdown,
         WaitForShutdown, Restart, jobVars
    <3> QED
      BY <1>1, <3>1, <3>2, <3>3, <3>4 DEF LocalStep, EInv, IInv, TypeOK
  <2> QED
    BY <2>1, <2>2
<1>2. CASE ProcessCrashes
  BY <1>2 DEF ProcessCrashes
<1>3. ASSUME NEW j \in Jobs, ServeReport(j) PROVE CalmInv'
  <2>1. task[j] \notin Finished
    BY <1>3 DEF ServeReport, EInv, TaskInv
  <2> QED
    BY <1>3, <2>1 DEF ServeReport, Q!Accept, Q!queueVars, EInv, ExecutorTypeOK
<1>4. ASSUME NEW j \in Jobs, NEW r \in Results, ServeLateReport(j, r) PROVE CalmInv'
  BY <1>4 DEF ServeLateReport, Q!Accept, Q!queueVars, EInv, ExecutorTypeOK
<1>5. ASSUME NEW j \in Jobs, LeaseExpires(j) PROVE CalmInv'
  BY <1>5 DEF LeaseExpires, Q!Expire, EInv, ExecutorTypeOK
<1> QED
  BY <1>1, <1>2, <1>3, <1>4, <1>5

(* Trouble is not forgotten, and every step without it keeps CalmInv. *)
LEMMA NextCalm == EInv /\ CalmInv /\ [ExecutorNext]_allVars => CalmInv'
<1> SUFFICES ASSUME EInv, CalmInv, [ExecutorNext]_allVars PROVE CalmInv'
  OBVIOUS
<1>1. CASE trouble'
  BY <1>1 DEF CalmInv
<1>2. CASE ~trouble' /\ ExecutorNext
  BY <1>2, CalmClaims, CalmTasks, CalmRest DEF ExecutorNext
<1>3. CASE UNCHANGED allVars
  BY <1>3 DEF allVars, vars, queueVars, netVars, history, CalmInv, NoLeaseWasted,
     Pending, LeaseKept
<1> QED
  BY <1>1, <1>2, <1>3

(* As long as every call is answered in time and nothing crashes, every    *)
(* lease is used for one execution and every result settles its job.       *)
THEOREM LeasesAreUsed == ExecutorSpec => []NoLeaseWasted
<1>1. ExecutorInit => CalmInv
  BY DEF ExecutorInit, Init, FreshTasks, Q!QueueInit, NoReports, CalmInv,
     NoLeaseWasted, Pending, LeaseKept
<1>2. CalmInv => NoLeaseWasted
  BY DEF CalmInv, NoLeaseWasted
<1> QED
  BY <1>1, <1>2, NextCalm, ExecutorInductive, PTL DEF ExecutorSpec

(* Without trouble a job is leased once, and while it is leased the worker *)
(* has it or its answer is under way.  A handler that panics ends its task *)
(* with no report: the jobs that can are left out.                         *)
OnceInv ==
  ~trouble =>
    \A j \in Jobs \ MayPanic :
      /\ attempts[j] <= 1
      /\ qstate[j] = "queued" => attempts[j] = 0
      /\ qstate[j] = "leased" => LeaseKept(j)
      /\ qstate[j] # "dead"

(* It is kept by whatever leaves the queue alone and drops no leased job.  *)
LEMMA OnceKept ==
  ASSUME OnceInv, ~trouble, UNCHANGED <<attempts, qstate>>,
         \A j \in Jobs \ MayPanic :
           LeaseKept(j) => LeaseKept(j)' \/ qstate[j] # "leased"
  PROVE  OnceInv'
  BY DEF OnceInv

(* The worker and its calls drop no leased job: an answer that arrives     *)
(* spawns its tasks, and a task that ends had its result accepted.         *)
LEMMA OnceWorker ==
  ASSUME EInv, CalmInv, OnceInv, ~trouble',
         \/ SendClaim \/ ReceiveClaim \/ GiveUpClaim \/ LocalStep \/ ProcessCrashes
         \/ \E j \in Jobs : StartTask(j) \/ SendReport(j) \/ EndReport(j)
         \/ \E j \in Jobs : \E r \in Results : FinishTask(j, r)
  PROVE  OnceInv'
<1> USE DEF queueVars, netVars, history
<1>1. CASE SendClaim
  BY <1>1, OnceKept DEF SendClaim, LoopHead, jobVars, LeaseKept
<1>2. CASE ReceiveClaim
  <2>1. \A j \in Jobs : task[j] \in Finished
    BY <1>2 DEF ReceiveClaim, ClaimOk, EInv, IInv, QuietBetweenBatches
  <2>2. \A j \in granted : task'[j] = "spawned"
    BY <1>2 DEF ReceiveClaim, ClaimOk, EInv, ExecutorTypeOK
  <2>3. \A j \in Jobs : LeaseKept(j) => LeaseKept(j)'
    BY <2>1, <2>2 DEF LeaseKept
  <2>4. QED  BY <1>2, <2>3, OnceKept DEF ReceiveClaim
<1>3. CASE GiveUpClaim \/ ProcessCrashes
  BY <1>3 DEF GiveUpClaim, ProcessCrashes
<1>4. CASE LocalStep
  <2>1. \A j \in Jobs \ MayPanic : task[j] \notin Finished => task'[j] \notin Finished
    <3>1. CASE Aside(RuntimeDrops)
      BY <3>1 DEF Aside, RuntimeDrops, EInv, IInv, QuietBetweenBatches
    <3>2. ASSUME NEW i \in Jobs, Aside(DispatchPanics(i))
          PROVE  i \in MayPanic /\ task' = [task EXCEPT ![i] = "panicked"]
      BY <3>2 DEF Aside, DispatchPanics
    <3>3. ASSUME NEW i \in Jobs,
                 \/ Aside(Heartbeat(i)) \/ Aside(OrphanStep(i))
                 \/ Aside(BlockingOpReturns(i))
          PROVE  UNCHANGED task
      BY <3>3 DEF Aside, Heartbeat, HeartbeatFires, HeartbeatReturns,
         HeartbeatSeesChange, OrphanStep, BlockingOpReturns
    <3>4. CASE \/ Aside(JoinBatch) \/ Aside(IdleSleepElapses) \/ Aside(IdleSeesShutdown)
               \/ Aside(WaitForShutdown) \/ Aside(Restart)
      BY <3>4 DEF Aside, JoinBatch, IdleSleepElapses, IdleSeesShutdown,
         WaitForShutdown, Restart, jobVars
    <3> QED
      BY <1>4, <3>1, <3>2, <3>3, <3>4 DEF LocalStep, EInv, IInv, TypeOK
  <2>2. UNCHANGED <<queueVars, netVars, history>>
    BY <1>4 DEF LocalStep, Aside
  <2>3. QED  BY <2>1, <2>2, OnceKept DEF LeaseKept
<1>5. ASSUME NEW j \in Jobs, NEW r \in Results,
             StartTask(j) \/ SendReport(j) \/ FinishTask(j, r)
      PROVE  OnceInv'
  <2>1. UNCHANGED <<attempts, qstate, granted, trouble>>
    BY <1>5 DEF StartTask, SendReport, FinishTask
  <2>2. \A i \in Jobs : task[i] \notin Finished => task'[i] \notin Finished
    BY <1>5 DEF StartTask, TaskStarts, SendReport, ReportStarts, FinishTask, DispatchReturns,
       TimeoutElapses, StopHeartbeat, EInv, IInv, TypeOK
  <2>3. QED  BY <2>1, <2>2, OnceKept DEF LeaseKept
<1>6. ASSUME NEW j \in Jobs, EndReport(j) PROVE OnceInv'
  <2>1. ~trouble /\ qstate[j] = "finished"
    BY <1>6 DEF EndReport, CalmInv
  <2>2. \A i \in Jobs \ {j} : task'[i] = task[i]
    BY <1>6 DEF EndReport, ReportReturns, EInv, IInv, TypeOK
  <2>3. UNCHANGED <<attempts, qstate, granted>>
    BY <1>6 DEF EndReport
  <2>4. QED  BY <2>1, <2>2, <2>3, OnceKept DEF LeaseKept
<1>7. PICK r \in Results : TRUE
  BY DEF Results
<1>8. QED
  BY <1>1, <1>2, <1>3, <1>4, <1>5, <1>6, <1>7

(* The queue leases a job that never was, to a claim that is waited for;   *)
(* it ends a lease only by the result.                                     *)
LEMMA OnceQueue ==
  ASSUME EInv, CalmInv, OnceInv, ~trouble',
         \/ \E S \in SUBSET Jobs : ServeClaim(S) \/ ServeLateClaim(S)
         \/ \E j \in Jobs : ServeReport(j) \/ LeaseExpires(j)
         \/ \E j \in Jobs : \E r \in Results : ServeLateReport(j, r)
  PROVE  OnceInv'
<1> USE DEF queueVars, netVars, history, vars
<1>1. ASSUME NEW S \in SUBSET Jobs, ServeClaim(S) PROVE OnceInv'
  <2>1. /\ trouble' = trouble /\ task' = task /\ granted = {} /\ granted' = S
        /\ \A j \in S : qstate[j] = "queued" /\ qstate'[j] = "leased"
        /\ \A j \in Jobs : /\ attempts'[j] = IF j \in S THEN attempts[j] + 1 ELSE attempts[j]
                           /\ j \notin S => qstate'[j] = qstate[j]
    BY <1>1 DEF ServeClaim, Q!Grant, Q!Queued, EInv, ClaimInv
  <2>2. QED  BY <2>1 DEF OnceInv, LeaseKept
<1>2. ASSUME NEW S \in SUBSET Jobs, ServeLateClaim(S) PROVE FALSE
  BY <1>2 DEF ServeLateClaim, CalmInv
<1>3. ASSUME NEW j \in Jobs, NEW r \in Results,
             ServeReport(j) \/ ServeLateReport(j, r)
      PROVE  OnceInv'
  <2>1. /\ UNCHANGED <<attempts, trouble, task, granted>>
        /\ \/ qstate' = qstate
           \/ qstate' = [qstate EXCEPT ![j] = "finished"]
    BY <1>3 DEF ServeReport, ServeLateReport, Q!Accept, Q!queueVars
  <2>2. QED  BY <2>1 DEF OnceInv, LeaseKept, EInv, ExecutorTypeOK
<1>4. ASSUME NEW j \in Jobs, LeaseExpires(j) PROVE OnceInv'
  <2>1. /\ ~trouble /\ ~LeaseKept(j) /\ qstate[j] = "leased"
        /\ UNCHANGED <<attempts, task, granted>>
        /\ \A i \in Jobs \ {j} : qstate'[i] = qstate[i]
    BY <1>4 DEF LeaseExpires, Q!Expire, EInv, ExecutorTypeOK
  <2>2. j \in MayPanic
    BY <2>1 DEF OnceInv
  <2>3. QED  BY <2>1, <2>2 DEF OnceInv, LeaseKept
<1>5. PICK r \in Results : TRUE
  BY DEF Results
<1>6. QED
  BY <1>1, <1>2, <1>3, <1>4, <1>5

(* Exactly once: as long as every call is answered in time and nothing     *)
(* crashes, a job whose handler does not panic is leased once, executed    *)
(* once at most and never given up as dead; a lease the queue counts is    *)
(* never left without a worker, in a graceful shutdown neither             *)
(* (worker.rs:35-83).                                                      *)
CalmIsOnce ==
  ~trouble =>
    \A j \in Jobs \ MayPanic :
      /\ attempts[j] <= 1 /\ runs[j] <= 1
      /\ qstate[j] # "dead"
      /\ qstate[j] = "leased" => LeaseKept(j)
      /\ pc = "stopped" => qstate[j] \in {"queued", "finished"}

THEOREM ExactlyOnceInCalm == ExecutorSpec => []CalmIsOnce
<1>1. ExecutorInit => CalmInv /\ OnceInv
  BY DEF ExecutorInit, Init, FreshTasks, Q!QueueInit, NoReports, CalmInv,
     NoLeaseWasted, Pending, LeaseKept, OnceInv
<1>2. EInv /\ CalmInv /\ OnceInv /\ [ExecutorNext]_allVars => OnceInv'
  <2> SUFFICES ASSUME EInv, CalmInv, OnceInv, [ExecutorNext]_allVars, ~trouble'
               PROVE  OnceInv'
    BY DEF OnceInv
  <2>1. CASE ExecutorNext
    BY <2>1, OnceWorker, OnceQueue DEF ExecutorNext
  <2>2. CASE UNCHANGED allVars
    BY <2>2 DEF allVars, vars, queueVars, netVars, history, OnceInv, LeaseKept
  <2> QED
    BY <2>1, <2>2
<1>3. EInv /\ OnceInv => CalmIsOnce
  <2> SUFFICES ASSUME EInv, OnceInv, ~trouble, NEW j \in Jobs \ MayPanic
               PROVE  /\ attempts[j] <= 1 /\ runs[j] <= 1
                      /\ qstate[j] # "dead"
                      /\ qstate[j] = "leased" => LeaseKept(j)
                      /\ pc = "stopped" => qstate[j] \in {"queued", "finished"}
    BY DEF CalmIsOnce
  <2>1. /\ attempts[j] <= 1 /\ qstate[j] # "dead"
        /\ qstate[j] = "leased" => LeaseKept(j)
    BY DEF OnceInv
  <2>2. runs[j] \in Nat /\ attempts[j] \in Nat /\ runs[j] <= attempts[j]
    BY ExecutorAssumption DEF EInv, ExecutorTypeOK, OneRunPerLease, Pending
  <2>3. pc = "stopped" => ~LeaseKept(j)
    BY DEF EInv, IInv, QuietBetweenBatches, ClaimInv, LeaseKept
  <2>4. qstate[j] \in {"queued", "leased", "finished", "dead"}
    BY DEF EInv, ExecutorTypeOK
  <2> QED
    BY <2>1, <2>2, <2>3, <2>4
<1> QED
  BY <1>1, <1>2, <1>3, NextCalm, ExecutorInductive, PTL DEF ExecutorSpec

-----------------------------------------------------------------------------
(* Refinement: each step is one of Delivery, or leaves its variables alone *)

(* Initial states of the composition are initial states of Delivery. *)
LEMMA DeliveryInit == ExecutorInit => D!Init
  BY DEF ExecutorInit, Q!QueueInit, D!Init

(* Every step of the composition is a step of Delivery or a stutter. *)
LEMMA DeliveryStep == EInv /\ [ExecutorNext]_allVars => [D!Next]_D!vars
<1> SUFFICES ASSUME EInv, [ExecutorNext]_allVars PROVE [D!Next]_D!vars
  OBVIOUS
<1> USE DEF D!vars, history, queueVars
<1>1. CASE SendClaim \/ ReceiveClaim \/ GiveUpClaim \/ LocalStep \/ ProcessCrashes
  BY <1>1 DEF SendClaim, ReceiveClaim, GiveUpClaim, LocalStep, Aside, ProcessCrashes
<1>2. ASSUME NEW S \in SUBSET Jobs, ServeClaim(S) \/ ServeLateClaim(S)
      PROVE  D!Offer(S)
  BY <1>2 DEF ServeClaim, ServeLateClaim, Q!Grant, Q!Queued, D!Offer, EInv, QueueInv
<1>3. ASSUME NEW j \in Jobs, StartTask(j) PROVE [D!Next]_D!vars
  <2>1. CASE j \in Allowed
    <3>1. runs[j] \in Nat /\ attempts[j] \in Nat /\ runs[j] + 1 <= attempts[j]
      BY <1>3, ExecutorAssumption DEF StartTask, TaskStarts, EInv, ExecutorTypeOK,
         OneRunPerLease, Pending
    <3>2. D!Run(j)
      BY <1>3, <2>1, <3>1 DEF StartTask, D!Run
    <3> QED
      BY <3>2 DEF D!Next
  <2>2. CASE j \notin Allowed
    BY <1>3, <2>2 DEF StartTask
  <2> QED
    BY <2>1, <2>2
<1>4. ASSUME NEW j \in Jobs, NEW r \in Results, FinishTask(j, r)
      PROVE  D!Finish(j, r)
  BY <1>4, JobsAssumption DEF FinishTask, DispatchReturns, TimeoutElapses, StopHeartbeat,
     D!Finish, EInv, TaskInv
<1>5. ASSUME NEW j \in Jobs, SendReport(j) \/ EndReport(j) \/ LeaseExpires(j)
      PROVE  UNCHANGED D!vars
  BY <1>5 DEF SendReport, EndReport, LeaseExpires, Q!Expire
<1>6. ASSUME NEW j \in Jobs, NEW r \in Results, Q!Accept(j, r), UNCHANGED history,
             attempts[j] > 0,
             IF j \in Allowed THEN r \in outcomes[j] ELSE r = "rejected"
      PROVE  D!Settle(j, r) \/ UNCHANGED D!vars
  BY <1>6 DEF Q!Accept, Q!queueVars, D!Settle, EInv, QueueInv
<1>7. ASSUME NEW j \in Jobs, ServeReport(j)
      PROVE  result[j] \in Results /\ (D!Settle(j, result[j]) \/ UNCHANGED D!vars)
  <2>1. result[j] \in Results /\ attempts[j] > 0
        /\ IF j \in Allowed THEN result[j] \in outcomes[j] ELSE result[j] = "rejected"
    BY <1>7 DEF ServeReport, EInv, TaskInv, ExecutorTypeOK
  <2> QED
    BY <1>6, <1>7, <2>1 DEF ServeReport
<1>8. ASSUME NEW j \in Jobs, NEW r \in Results, ServeLateReport(j, r)
      PROVE  D!Settle(j, r) \/ UNCHANGED D!vars
  BY <1>6, <1>8 DEF ServeLateReport, EInv, LateInv
<1>9. CASE UNCHANGED allVars
  BY <1>9 DEF allVars
<1> QED
  BY <1>1, <1>2, <1>3, <1>4, <1>5, <1>7, <1>8, <1>9 DEF ExecutorNext, D!Next

(* The executor keeps its promise to the upstream.                         *)
THEOREM ImplementsDelivery == ExecutorSpec => Promise
<1>1. ExecutorInit => D!Init
  BY DeliveryInit
<1>2. EInv /\ [ExecutorNext]_allVars => [D!Next]_D!vars
  BY DeliveryStep
<1> QED
  BY <1>1, <1>2, ExecutorInductive, PTL DEF ExecutorSpec, Promise, D!Spec

-----------------------------------------------------------------------------
(* What Promise is worth to the upstream. *)

Kept ==
  /\ attempts \in [Jobs -> Nat] /\ runs \in [Jobs -> Nat]
  /\ \A j \in Jobs :
       /\ runs[j] <= attempts[j]
       /\ runs[j] > 0 => j \in Allowed
       /\ outcomes[j] # {} => runs[j] > 0
       /\ verdict[j] # "none" =>
            IF j \in Allowed THEN verdict[j] \in outcomes[j] ELSE verdict[j] = "rejected"

(* A verdict stands, and its job is not offered again. *)
VerdictsStand ==
  \A j \in Jobs :
    verdict[j] # "none" => verdict'[j] = verdict[j] /\ attempts'[j] = attempts[j]

(* Whatever implements Delivery runs only what is allowed, no more often   *)
(* than it was leased, and settles a job by an outcome of a run of this    *)
(* very job or, if it is not allowed, as rejected; and that for good.      *)
THEOREM PromiseIsWorth == Promise => []Kept /\ [][VerdictsStand]_D!vars
<1>1. D!Init => Kept
  BY DEF D!Init, Kept
<1>2. Kept /\ [D!Next]_D!vars => Kept' /\ (D!Next => VerdictsStand)
  <2> SUFFICES ASSUME Kept, [D!Next]_D!vars
               PROVE  Kept' /\ (D!Next => VerdictsStand)
    OBVIOUS
  <2>1. ASSUME NEW S \in SUBSET Jobs, D!Offer(S) PROVE Kept' /\ VerdictsStand
    BY <2>1 DEF D!Offer, Kept, VerdictsStand
  <2>2. ASSUME NEW j \in Jobs, D!Run(j) PROVE Kept' /\ VerdictsStand
    BY <2>2 DEF D!Run, Kept, VerdictsStand
  <2>3. ASSUME NEW j \in Jobs, NEW r, D!Finish(j, r) PROVE Kept' /\ VerdictsStand
    BY <2>3 DEF D!Finish, Kept, VerdictsStand
  <2>4. ASSUME NEW j \in Jobs, NEW r, D!Settle(j, r) PROVE Kept' /\ VerdictsStand
    BY <2>4 DEF D!Settle, Kept, VerdictsStand
  <2>5. CASE UNCHANGED D!vars
    BY <2>5 DEF D!vars, Kept, VerdictsStand
  <2>6. QED  BY <2>1, <2>2, <2>3, <2>4, <2>5 DEF D!Next
<1>3. Kept /\ [D!Next]_D!vars => Kept' /\ [VerdictsStand]_D!vars
  BY <1>2
<1>4. QED  BY <1>1, <1>3, PTL DEF Promise, D!Spec

(* So does the executor with its lossy network: a verdict the queue shows  *)
(* was earned, however late or often its result was served.                *)
THEOREM VerdictsAreEarned == ExecutorSpec => []Kept
  BY ImplementsDelivery, PromiseIsWorth, PTL

-----------------------------------------------------------------------------
(* The parts of the composition *)

QueueNext ==
  \/ \E S \in SUBSET Jobs : Q!Grant(S)
  \/ \E j \in Jobs : Q!Expire(j) \/ \E r \in Results : Q!Accept(j, r)

(* The network makes neither part do what it would not do alone: the       *)
(* worker only ever takes steps of Worker, whose theorems therefore hold   *)
(* of it, and the queue only what RemoteQueue allows.                      *)
THEOREM PartsKeepTheirSpecs ==
  ExecutorSpec => Spec /\ Q!QueueInit /\ [][QueueNext]_queueVars
<1>1. ExecutorInit => Init /\ Q!QueueInit
  BY DEF ExecutorInit
<1>2. EInv /\ [ExecutorNext]_allVars => [Next]_vars /\ [QueueNext]_queueVars
  <2> SUFFICES ASSUME EInv, [ExecutorNext]_allVars PROVE [QueueNext]_queueVars
    BY WorkerStep DEF EInv
  <2>1. CASE SendClaim \/ ReceiveClaim \/ GiveUpClaim \/ LocalStep \/ ProcessCrashes
    BY <2>1 DEF SendClaim, ReceiveClaim, GiveUpClaim, LocalStep, Aside, ProcessCrashes
  <2>2. ASSUME NEW S \in SUBSET Jobs, ServeClaim(S) \/ ServeLateClaim(S) PROVE QueueNext
    BY <2>2 DEF ServeClaim, ServeLateClaim, QueueNext
  <2>3. ASSUME NEW j \in Jobs, StartTask(j) \/ SendReport(j) \/ EndReport(j)
        PROVE  UNCHANGED queueVars
    BY <2>3 DEF StartTask, SendReport, EndReport
  <2>4. ASSUME NEW j \in Jobs, NEW r \in Results, FinishTask(j, r)
        PROVE  UNCHANGED queueVars
    BY <2>4 DEF FinishTask
  <2>5. ASSUME NEW j \in Jobs, ServeReport(j) PROVE QueueNext
    <3>1. result[j] \in Results
      BY <2>5 DEF ServeReport, EInv, TaskInv, ExecutorTypeOK
    <3>2. QED  BY <2>5, <3>1 DEF ServeReport, QueueNext
  <2>6. ASSUME NEW j \in Jobs, NEW r \in Results, ServeLateReport(j, r) PROVE QueueNext
    BY <2>6 DEF ServeLateReport, QueueNext
  <2>7. ASSUME NEW j \in Jobs, LeaseExpires(j) PROVE QueueNext
    BY <2>7 DEF LeaseExpires, QueueNext
  <2>8. CASE UNCHANGED allVars
    BY <2>8 DEF allVars
  <2>9. QED
    BY <2>1, <2>2, <2>3, <2>4, <2>5, <2>6, <2>7, <2>8 DEF ExecutorNext
<1>3. QED  BY <1>1, <1>2, ExecutorInductive, PTL DEF ExecutorSpec, Spec
=============================================================================
