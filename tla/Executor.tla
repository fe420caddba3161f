------------------------------ MODULE Executor ------------------------------
(***************************************************************************)
(* The worker process composed with the upstream queue over the HTTP calls *)
(* of src/client.rs.  A call is sent, served and answered in three steps.  *)
(* The client may give up on it at any of them, a request it gave up on    *)
(* may still be served later, and a crash forgets what was in flight.      *)
(*                                                                         *)
(* Heartbeats leave no trace in the untimed queue: that they keep a lease  *)
(* is the subject of Lease.tla and enters here as LeaseKept.               *)
(***************************************************************************)
EXTENDS Worker

CONSTANTS
  MaxAttempts, MaxBatch,  \* see RemoteQueue
  MaxCrashes   \* bound on the crashes of a behaviour

ASSUME ExecutorAssumption ==
  /\ MaxAttempts \in Nat \ {0} /\ MaxBatch \in Nat \ {0}
  /\ MaxCrashes \in Nat

VARIABLES
  qstate, attempts, verdict,  \* the queue
  claim,        \* the claim call: "none", "sent" or "served"
  granted,      \* the jobs of the answer under way
  lateClaim,    \* a claim the worker gave up on may still be served
  report,       \* job -> its result call: "none", "sent" or "served"
  lateReports,  \* results the worker gave up on that may still be served
  crashes,      \* counts the crashes
  runs,         \* history: job -> executions started
  outcomes,     \* history: job -> outcomes of its executions
  trouble       \* history: a call failed, a lease ended early, or a crash

Q == INSTANCE RemoteQueue

queueVars == <<qstate, attempts, verdict>>
netVars == <<claim, granted, lateClaim, report, lateReports>>
history == <<runs, outcomes, trouble>>
allVars == <<vars, queueVars, netVars, crashes, history>>

NoReports == [j \in Jobs |-> "none"]

ExecutorInit ==
  /\ Init
  /\ Q!QueueInit
  /\ claim = "none" /\ granted = {} /\ lateClaim = FALSE
  /\ report = NoReports /\ lateReports = {}
  /\ crashes = 0
  /\ runs = [j \in Jobs |-> 0] /\ outcomes = [j \in Jobs |-> {}]
  /\ trouble = FALSE

-----------------------------------------------------------------------------
(* client.rs: claim *)

SendClaim ==
  /\ LoopHead
  /\ claim' = IF shutdown THEN "none" ELSE "sent"
  /\ UNCHANGED <<queueVars, granted, lateClaim, report, lateReports,
                 crashes, history>>

ServeClaim(S) ==
  /\ claim = "sent"
  /\ Q!Grant(S)
  /\ claim' = "served"
  /\ granted' = S
  /\ UNCHANGED <<vars, lateClaim, report, lateReports, crashes, history>>

(* The answer to a claim the worker no longer waits for reaches nobody.    *)
ServeLateClaim(S) ==
  /\ lateClaim
  /\ Q!Grant(S)
  /\ lateClaim' = FALSE
  /\ UNCHANGED <<vars, claim, granted, report, lateReports, crashes, history>>

(* Mutant: the answer stays at hand and is received again. *)
ReceiveClaimAgain ==
  /\ claim = "served"
  /\ ClaimOk(granted)
  /\ report' = NoReports
  /\ UNCHANGED <<queueVars, claim, granted, lateClaim, lateReports, crashes, history>>

ReceiveClaim ==
  /\ claim = "served"
  /\ ClaimOk(granted)
  /\ claim' = "none"
  /\ granted' = {}
  /\ report' = NoReports
  /\ UNCHANGED <<queueVars, lateClaim, lateReports, crashes, history>>

(* No answer in 60 s, a transport error or a bad status; or an answer that *)
(* serde cannot decode: one job that lacks a field fails the whole batch.  *)
GiveUpClaim ==
  /\ ClaimFailed
  /\ claim' = "none"
  /\ granted' = {}
  /\ lateClaim' = (lateClaim \/ claim = "sent")
  /\ trouble' = TRUE
  /\ UNCHANGED <<queueVars, report, lateReports, crashes, runs, outcomes>>
-----------------------------------------------------------------------------
(* client.rs: report, and the executions in between *)

StartTask(j) ==
  /\ TaskStarts(j)
  /\ \/ /\ j \in Allowed
        /\ runs' = [runs EXCEPT ![j] = @ + 1]
        /\ UNCHANGED report
     \/ /\ j \notin Allowed
        /\ report' = [report EXCEPT ![j] = "sent"]
        /\ UNCHANGED runs
  /\ UNCHANGED <<queueVars, claim, granted, lateClaim, lateReports,
                 crashes, outcomes, trouble>>

FinishTask(j, r) ==
  /\ \/ DispatchReturns(j, r)
     \/ r = "timeout" /\ TimeoutElapses(j)
  /\ outcomes' = [outcomes EXCEPT ![j] = @ \cup {r}]
  /\ UNCHANGED <<queueVars, netVars, crashes, runs, trouble>>

SendReport(j) ==
  /\ ReportStarts(j)
  /\ report' = [report EXCEPT ![j] = "sent"]
  /\ UNCHANGED <<queueVars, claim, granted, lateClaim, lateReports,
                 crashes, history>>

ServeReport(j) ==
  /\ report[j] = "sent"
  /\ Q!Accept(j, result[j])
  /\ report' = [report EXCEPT ![j] = "served"]
  /\ UNCHANGED <<vars, claim, granted, lateClaim, lateReports, crashes, history>>

ServeLateReport(j, r) ==
  /\ <<j, r>> \in lateReports
  /\ Q!Accept(j, r)
  /\ lateReports' = lateReports \ {<<j, r>>}
  /\ UNCHANGED <<vars, claim, granted, lateClaim, report, crashes, history>>

(* Mutant: jobs that have no result yet are reported too. *)
UnansweredAll(S) == {<<j, result[j]>> : j \in S}

(* Requests under way for the jobs in S that nobody waits for any more. *)
Unanswered(S) == {<<j, result[j]>> : j \in {i \in S : report[i] = "sent"}}

(* The single attempt is over, answered or given up; the task ends.        *)
EndReport(j) ==
  /\ ReportReturns(j)
  /\ trouble' = (trouble \/ report[j] # "served")
  /\ report' = [report EXCEPT ![j] = "none"]
  /\ lateReports' = lateReports \cup Unanswered({j})
  /\ UNCHANGED <<queueVars, claim, granted, lateClaim, crashes, runs, outcomes>>

(* Steps of the process that neither send nor receive a claim or a result. *)
Aside(A) == A /\ UNCHANGED <<queueVars, netVars, crashes, history>>

LocalStep ==
  \/ Aside(JoinBatch) \/ Aside(IdleSleepElapses) \/ Aside(IdleSeesShutdown)
  \/ Aside(WaitForShutdown) \/ Aside(RuntimeDrops) \/ Aside(Restart)
  \/ \E j \in Jobs :
       \/ Aside(DispatchPanics(j)) \/ Aside(BlockingOpReturns(j))
       \/ Aside(Heartbeat(j)) \/ Aside(OrphanStep(j))

ProcessCrashes ==
  /\ crashes < MaxCrashes
  /\ Crash
  /\ crashes' = crashes + 1
  /\ claim' = "none"
  /\ granted' = {}
  /\ lateClaim' = (lateClaim \/ claim = "sent")
  /\ report' = NoReports
  /\ lateReports' = lateReports \cup Unanswered(Jobs)
  /\ trouble' = TRUE
  /\ UNCHANGED <<queueVars, runs, outcomes>>

-----------------------------------------------------------------------------
(* The answer is on its way to the worker, or a task of the job lives and  *)
(* beats: on a network in time the lease is then extended (Lease.tla), and *)
(* its end is trouble.                                                     *)
LeaseKept(j) == j \in granted \/ task[j] \notin Finished

LeaseExpires(j) ==
  /\ Q!Expire(j)
  /\ trouble' = (trouble \/ LeaseKept(j))
  /\ UNCHANGED <<vars, netVars, crashes, runs, outcomes>>

ExecutorNext ==
  \/ SendClaim \/ ReceiveClaim \/ GiveUpClaim \/ LocalStep \/ ProcessCrashes
  \/ \E S \in SUBSET Jobs : ServeClaim(S) \/ ServeLateClaim(S)
  \/ \E j \in Jobs :
       \/ StartTask(j) \/ SendReport(j) \/ ServeReport(j) \/ EndReport(j)
       \/ LeaseExpires(j)
       \/ \E r \in Results :
            FinishTask(j, r) \/ ServeLateReport(j, r)

ExecutorSpec == ExecutorInit /\ [][ExecutorNext]_allVars

(* The loop goes on, and so does some task that can; every heartbeat whose *)
(* call is over or whose channel has changed is polled, as in Worker.  A   *)
(* call ends, with an answer or without; the service manager restarts what *)
(* crashed (Restart=on-failure, KeepAlive).  Of the leases nobody keeps    *)
(* some expires, and the queue does not answer with nothing for ever while *)
(* it has jobs.                                                            *)
LoopContinues ==
  \/ SendClaim \/ ReceiveClaim \/ GiveUpClaim
  \/ Aside(JoinBatch) \/ Aside(IdleSleepElapses) \/ Aside(IdleSeesShutdown)
  \/ Aside(RuntimeDrops) \/ Aside(pc = "down" /\ Restart)

TasksContinue ==
  \E j \in Jobs :
    \/ StartTask(j) \/ SendReport(j) \/ EndReport(j)
    \/ \E r \in Results : FinishTask(j, r)

ExecutorFairness ==
  /\ WF_allVars(LoopContinues)
  /\ WF_allVars(TasksContinue)
  /\ \A j \in Allowed :
       WF_allVars(Aside(HeartbeatReturns(j)) \/ Aside(HeartbeatSeesChange(j)))
  /\ WF_allVars(\E j \in Jobs : ~LeaseKept(j) /\ LeaseExpires(j))
  /\ SF_allVars(\E S \in SUBSET Jobs \ {{}} : ServeClaim(S))

FairExecutorSpec == ExecutorSpec /\ ExecutorFairness

-----------------------------------------------------------------------------
(* Properties *)

ExecutorTypeOK ==
  /\ TypeOK
  /\ qstate \in [Jobs -> {"queued", "leased", "finished", "dead"}]
  /\ attempts \in [Jobs -> 0..MaxAttempts]
  /\ verdict \in [Jobs -> Results \cup {"none"}]
  /\ claim \in {"none", "sent", "served"}
  /\ granted \subseteq Jobs
  /\ lateClaim \in BOOLEAN
  /\ report \in [Jobs -> {"none", "sent", "served"}]
  /\ lateReports \subseteq Jobs \X Results
  /\ crashes \in 0..MaxCrashes
  /\ runs \in [Jobs -> Nat]
  /\ outcomes \in [Jobs -> SUBSET Results]
  /\ trouble \in BOOLEAN

(* Executions the upstream has paid for with an attempt and that have not  *)
(* begun: the job is in an answer under way or its task was just spawned.  *)
Pending(j) == IF j \in granted \/ task[j] = "spawned" THEN 1 ELSE 0

(* A lease is executed at most once, through lost answers, late results    *)
(* and crashes: process_once spawns one task per job of a decoded answer.  *)
OneRunPerLease == \A j \in Jobs : runs[j] + Pending(j) <= attempts[j]

(* Until a call fails, a lease is lost or the process crashes, no lease is *)
(* wasted: every attempt the upstream counts is executed, and no task ends *)
(* before its job is settled, unless it panics.  In particular a graceful  *)
(* shutdown never abandons what was claimed (worker.rs:57-83).             *)
NoLeaseWasted ==
  ~trouble => \A j \in Jobs :
    /\ j \in Allowed => attempts[j] = runs[j] + Pending(j)
    /\ task[j] = "done" => qstate[j] = "finished"

(* A result under way is an outcome of this job's own execution, or the    *)
(* rejection of a capability outside the allowlist (worker.rs:91-102).     *)
HonestReports ==
  \A j \in Jobs : \A r \in Results :
    \/ report[j] = "sent" /\ result[j] = r
    \/ <<j, r>> \in lateReports
    => IF j \in Allowed THEN r \in outcomes[j] ELSE r = "rejected"

(* What the worker does and the queue shows is what Delivery promises.     *)
D == INSTANCE Delivery WITH Outcomes <- Results \ {"rejected"}, grants <- attempts
Promise == D!Spec

(* Every job is settled in the end, finished or dead, unless the process   *)
(* is asked to stop and does, or waits for its blocking pool for ever: the *)
(* loop never stops claiming, whatever happened to the calls before        *)
(* (worker.rs:35-37, 64-83).                                               *)
JobsSettle ==
  \/ []<>(pc = "stopped" \/ \A j \in Jobs : Q!Settled(j))
  \/ \E j \in Jobs : <>[]HeldByPool(j)
=============================================================================
