------------------------------ MODULE Delivery ------------------------------
(***************************************************************************)
(* What the executor promises the upstream about a job, with neither       *)
(* processes nor messages: it is run at most once per lease, only when its *)
(* capability is allowed, and the verdict is an outcome that a run of this *)
(* very job had, or a rejection.  A lease may always be wasted.            *)
(***************************************************************************)
EXTENDS Naturals

CONSTANTS Jobs, Allowed, Outcomes

VARIABLES
  grants,    \* job -> leases the upstream counts
  runs,      \* job -> executions started
  outcomes,  \* job -> outcomes of its executions
  verdict    \* job -> "none", an outcome, or "rejected"

vars == <<grants, runs, outcomes, verdict>>

Init ==
  /\ grants = [j \in Jobs |-> 0]
  /\ runs = [j \in Jobs |-> 0]
  /\ outcomes = [j \in Jobs |-> {}]
  /\ verdict = [j \in Jobs |-> "none"]

Offer(S) ==
  /\ \A j \in S : verdict[j] = "none"
  /\ grants' = [j \in Jobs |-> IF j \in S THEN grants[j] + 1 ELSE grants[j]]
  /\ UNCHANGED <<runs, outcomes, verdict>>

Run(j) ==
  /\ j \in Allowed
  /\ runs[j] < grants[j]
  /\ runs' = [runs EXCEPT ![j] = @ + 1]
  /\ UNCHANGED <<grants, outcomes, verdict>>

Finish(j, r) ==
  /\ r \in Outcomes
  /\ runs[j] > 0
  /\ outcomes' = [outcomes EXCEPT ![j] = @ \cup {r}]
  /\ UNCHANGED <<grants, runs, verdict>>

Settle(j, r) ==
  /\ verdict[j] = "none"
  /\ \/ r \in outcomes[j]
     \/ r = "rejected" /\ j \notin Allowed /\ grants[j] > 0
  /\ verdict' = [verdict EXCEPT ![j] = r]
  /\ UNCHANGED <<grants, runs, outcomes>>

Next ==
  \/ \E S \in SUBSET Jobs : Offer(S)
  \/ \E j \in Jobs :
       \/ Run(j)
       \/ \E r \in Outcomes \cup {"rejected"} : Finish(j, r) \/ Settle(j, r)

Spec == Init /\ [][Next]_vars
=============================================================================
