---------------------------- MODULE RemoteQueue -----------------------------
(***************************************************************************)
(* The upstream job queue, external to the repository, as the executor     *)
(* relies on it: a claim leases queued jobs and counts an attempt (fields  *)
(* attemptCount, maxAttempts and leaseUntil of types.rs), a result settles *)
(* a job, a lease that is not extended expires.  Nothing in the requests   *)
(* of client.rs names the attempt they belong to, so the queue judges a    *)
(* result by the state of its job alone.                                   *)
(***************************************************************************)
EXTENDS Naturals, FiniteSets

CONSTANTS
  Jobs,
  MaxAttempts,  \* maxAttempts of a job: after so many leases it is dead
  MaxBatch      \* "max" in the body of a claim, max_jobs_per_claim

VARIABLES
  qstate,    \* job -> its state in the queue
  attempts,  \* job -> leases granted so far
  verdict    \* job -> the result accepted for it

queueVars == <<qstate, attempts, verdict>>

Queued == {j \in Jobs : qstate[j] = "queued"}
Settled(j) == qstate[j] \in {"finished", "dead"}

QueueInit ==
  /\ qstate = [j \in Jobs |-> "queued"]
  /\ attempts = [j \in Jobs |-> 0]
  /\ verdict = [j \in Jobs |-> "none"]

(* POST remote/queue/claim is served with the jobs S. *)
Grant(S) ==
  /\ S \subseteq Queued
  /\ Cardinality(S) <= MaxBatch
  /\ qstate' = [j \in Jobs |-> IF j \in S THEN "leased" ELSE qstate[j]]
  /\ attempts' = [j \in Jobs |-> IF j \in S THEN attempts[j] + 1 ELSE attempts[j]]
  /\ UNCHANGED verdict

(* POST remote/queue/{jobId}/result is served.  The result of a leased job *)
(* is accepted; whether that of a job whose lease has expired is accepted  *)
(* or refused is up to the upstream; that of a settled job is refused.     *)
Accept(j, r) ==
  \/ /\ qstate[j] \in {"leased", "queued"}
     /\ qstate' = [qstate EXCEPT ![j] = "finished"]
     /\ verdict' = [verdict EXCEPT ![j] = r]
     /\ UNCHANGED attempts
  \/ /\ qstate[j] # "leased"
     /\ UNCHANGED queueVars

(* A lease runs out: the job is queued again or, out of attempts, dead.    *)
Expire(j) ==
  /\ qstate[j] = "leased"
  /\ qstate' = [qstate EXCEPT ![j] =
                  IF attempts[j] < MaxAttempts THEN "queued" ELSE "dead"]
  /\ UNCHANGED <<attempts, verdict>>
=============================================================================
