---------------------------- MODULE LeaseProofs -----------------------------
(***************************************************************************)
(* When heartbeats are in time, LeaseHeld and MutualExclusion hold for     *)
(* every number of executors and all delays.  The invariant says how much  *)
(* of the lease is left at every stage of the heartbeat's cycle: at least  *)
(* what the rest of the cycle may take until the next request is served.   *)
(***************************************************************************)
EXTENDS Lease, TLAPS

(* What worker w may still need before the upstream serves its next        *)
(* request, from the stage it is in.                                       *)
Need(w) ==
  CASE phase[w] \in {"answered", "returning"} -> timer[w] + Interval + Delay + Budget
    [] phase[w] = "sleeping" -> timer[w] + Delay + (Budget - spent[w])
    [] phase[w] = "hanging" -> timer[w] + Interval + Delay + (Budget - spent[w])
    [] OTHER -> timer[w]

LeaseSuffices ==
  \A w \in Workers : phase[w] \in Active =>
    settled \/ (holder = w /\ lease > Need(w))

(* Late results aside, this follows from LeaseSuffices; they settle the    *)
(* job, after which no claim is served.                                    *)
OneActive ==
  \A v, w \in Workers : phase[v] \in Active /\ phase[w] \in Active => v = w

IInv == TypeOK /\ LeaseSuffices /\ OneActive

USE DEF Beating, Active

(* The invariant holds initially. *)
LEMMA InitIInv == Init => IInv
<1> SUFFICES ASSUME Init PROVE IInv
  OBVIOUS
<1>1. settled \in BOOLEAN /\ done \in [Workers -> BOOLEAN]
  BY DEF Init
<1>2. TypeOK
  BY <1>1, LeaseAssumption DEF Init, TypeOK
<1>3. LeaseSuffices /\ OneActive
  BY DEF Init, LeaseSuffices, OneActive
<1> QED
  BY <1>2, <1>3 DEF IInv

(* What the upstream does to a lease keeps its type. *)
LEMMA UpstreamTypes ==
  ASSUME TypeOK, NEW w \in Workers, Settle(w) \/ (Extend(w) /\ UNCHANGED <<holder, settled>>)
  PROVE  /\ holder' \in Workers \cup {NoWorker}
         /\ lease' \in 0..Duration
         /\ settled' \in BOOLEAN
<1>1. CASE holder = w /\ ~settled
  <2>1. \/ settled' = TRUE /\ holder' = NoWorker /\ lease' = lease
        \/ lease' = Duration /\ UNCHANGED <<holder, settled>>
    BY <1>1 DEF Settle, Extend
  <2>2. settled' \in BOOLEAN /\ holder' \in Workers \cup {NoWorker}
    BY <2>1 DEF TypeOK
  <2>3. lease' \in 0..Duration
    BY <2>1, LeaseAssumption DEF TypeOK
  <2> QED
    BY <2>2, <2>3
<1>2. CASE ~(holder = w /\ ~settled)
  BY <1>2 DEF TypeOK, Settle, Extend, upstream
<1> QED
  BY <1>1, <1>2

(* Every step keeps the types. *)
LEMMA TypeStep == TypeOK /\ [Next]_vars => TypeOK'
<1> SUFFICES ASSUME TypeOK, [Next]_vars PROVE TypeOK'
  OBVIOUS
<1> USE LeaseAssumption DEF TypeOK, Enter, upstream
<1>1. CASE Tick
  BY <1>1 DEF Tick
<1>2. CASE Expire
  BY <1>2 DEF Expire
<1>3. ASSUME NEW w \in Workers, ServeClaim(w) PROVE TypeOK'
  BY <1>3 DEF ServeClaim
<1>4. ASSUME NEW w \in Workers, ClaimFails(w) \/ Reject(w) \/ Crash(w) PROVE TypeOK'
  BY <1>4 DEF ClaimFails, Reject, Crash
<1>5. ASSUME NEW w \in Workers, StartExecution(w) PROVE TypeOK'
  BY <1>5 DEF StartExecution
<1>6. ASSUME NEW w \in Workers, HeartbeatFires(w) \/ HeartbeatReturns(w) PROVE TypeOK'
  BY <1>6 DEF HeartbeatFires, HeartbeatReturns
<1>7. ASSUME NEW w \in Workers, NEW t \in 0..Timeout, HeartbeatLost(w, t) PROVE TypeOK'
  BY <1>7 DEF HeartbeatLost
<1>8. ASSUME NEW w \in Workers, ServeHeartbeat(w) PROVE TypeOK'
  BY <1>8 DEF ServeHeartbeat, Extend
<1>9. ASSUME NEW w \in Workers, DispatchEnds(w) PROVE TypeOK'
  BY <1>9 DEF DispatchEnds
<1>10. ASSUME NEW w \in Workers, ServeReport(w) \/ ReportFails(w) PROVE TypeOK'
  <2>1. CASE ServeReport(w)
    BY <2>1, UpstreamTypes DEF ServeReport
  <2>2. CASE ReportFails(w)
    BY <2>2 DEF ReportFails
  <2> QED
    BY <1>10, <2>1, <2>2
<1>11. ASSUME NEW w \in Workers, ServeLate(w) PROVE TypeOK'
  <2>1. /\ Settle(w) \/ (Extend(w) /\ UNCHANGED <<holder, settled>>)
        /\ late' \subseteq late
        /\ UNCHANGED <<phase, timer, done, spent>>
    BY <1>11 DEF ServeLate
  <2> QED
    BY <2>1, UpstreamTypes
<1>12. CASE UNCHANGED vars
  BY <1>12 DEF vars
<1> QED
  BY <1>1, <1>2, <1>3, <1>4, <1>5, <1>6, <1>7, <1>8, <1>9, <1>10, <1>11, <1>12
  DEF Next

(* In time, every step leaves enough of the lease until the next         *)
(* request.                                                              *)
LEMMA LeaseStep == InTime /\ IInv /\ TypeOK' /\ [Next]_vars => LeaseSuffices'
<1> SUFFICES ASSUME InTime, IInv, TypeOK', [Next]_vars,
                    NEW v \in Workers, phase'[v] \in Active, ~settled'
             PROVE  holder' = v /\ lease' > Need(v)'
  BY DEF LeaseSuffices
<1> USE LeaseAssumption DEF IInv, TypeOK, LeaseSuffices, Need, InTime, Enter, upstream
<1>1. CASE Tick
  BY <1>1 DEF Tick
<1>2. CASE Expire
  BY <1>2 DEF Expire
<1>3. ASSUME NEW w \in Workers, ServeClaim(w) PROVE holder' = v /\ lease' > Need(v)'
  BY <1>3 DEF ServeClaim
<1>4. ASSUME NEW w \in Workers, ClaimFails(w) \/ Reject(w) \/ Crash(w)
      PROVE  holder' = v /\ lease' > Need(v)'
  BY <1>4 DEF ClaimFails, Reject, Crash
<1>5. ASSUME NEW w \in Workers, StartExecution(w) PROVE holder' = v /\ lease' > Need(v)'
  BY <1>5 DEF StartExecution
<1>6. ASSUME NEW w \in Workers, HeartbeatFires(w) PROVE holder' = v /\ lease' > Need(v)'
  BY <1>6 DEF HeartbeatFires
<1>7. ASSUME NEW w \in Workers, HeartbeatReturns(w) PROVE holder' = v /\ lease' > Need(v)'
  BY <1>7 DEF HeartbeatReturns
<1>8. ASSUME NEW w \in Workers, NEW t \in 0..Timeout, HeartbeatLost(w, t)
      PROVE  holder' = v /\ lease' > Need(v)'
  BY <1>8 DEF HeartbeatLost
<1>9. ASSUME NEW w \in Workers, ServeHeartbeat(w) PROVE holder' = v /\ lease' > Need(v)'
  BY <1>9 DEF ServeHeartbeat, Extend
<1>10. ASSUME NEW w \in Workers, DispatchEnds(w) PROVE holder' = v /\ lease' > Need(v)'
  BY <1>10 DEF DispatchEnds
<1>11. ASSUME NEW w \in Workers, ServeReport(w) PROVE holder' = v /\ lease' > Need(v)'
  BY <1>11 DEF ServeReport, Settle
<1>12. ASSUME NEW w \in Workers, ReportFails(w) PROVE holder' = v /\ lease' > Need(v)'
  BY <1>12 DEF ReportFails
<1>13. ASSUME NEW w \in Workers, ServeLate(w) PROVE holder' = v /\ lease' > Need(v)'
  BY <1>13 DEF ServeLate, Extend, Settle
<1>14. CASE UNCHANGED vars
  BY <1>14 DEF vars
<1> QED
  BY <1>1, <1>2, <1>3, <1>4, <1>5, <1>6, <1>7, <1>8, <1>9, <1>10, <1>11, <1>12,
     <1>13, <1>14 DEF Next

(* A claim is served only when nobody is active any more. *)
LEMMA OneActiveStep == IInv /\ TypeOK' /\ [Next]_vars => OneActive'
<1> SUFFICES ASSUME IInv, [Next]_vars PROVE OneActive'
  OBVIOUS
<1>1. ASSUME NEW w \in Workers, ServeClaim(w) PROVE OneActive'
  <2>1. \A v \in Workers : phase[v] \notin Active
    BY <1>1, LeaseAssumption DEF ServeClaim, IInv, LeaseSuffices
  <2> QED
    BY <1>1, <2>1 DEF ServeClaim, Enter, OneActive, IInv, TypeOK
<1>2. CASE \A v \in Workers : phase'[v] \in Active => phase[v] \in Active
  BY <1>2 DEF IInv, OneActive
<1>3. ASSUME NEW w \in Workers, phase[w] \in Active,
             \/ UNCHANGED phase
             \/ \E p \in Active \cup {"idle"}, t \in Nat : Enter(w, p, t)
      PROVE  OneActive'
  BY <1>2, <1>3 DEF Enter, IInv, TypeOK
<1>4. ASSUME NEW w \in Workers,
             ClaimFails(w) \/ Reject(w) \/ StartExecution(w) \/ HeartbeatFires(w)
      PROVE  OneActive'
  BY <1>3, <1>4, LeaseAssumption DEF ClaimFails, Reject, StartExecution, HeartbeatFires
<1>5. ASSUME NEW w \in Workers,
             ServeHeartbeat(w) \/ HeartbeatReturns(w) \/ DispatchEnds(w)
      PROVE  OneActive'
  BY <1>3, <1>5, LeaseAssumption DEF ServeHeartbeat, HeartbeatReturns, DispatchEnds,
     Executing
<1>6. ASSUME NEW w \in Workers, NEW t \in 0..Timeout, HeartbeatLost(w, t)
      PROVE  OneActive'
  BY <1>3, <1>6, LeaseAssumption DEF HeartbeatLost
<1>7. ASSUME NEW w \in Workers,
             ServeReport(w) \/ ReportFails(w) \/ ServeLate(w) \/ Crash(w)
      PROVE  OneActive'
  BY <1>2, <1>7 DEF ServeReport, ReportFails, ServeLate, Crash, Enter, IInv, TypeOK
<1>8. CASE Tick \/ Expire \/ UNCHANGED vars
  BY <1>2, <1>8 DEF Tick, Expire, vars
<1> QED
  BY <1>1, <1>4, <1>5, <1>6, <1>7, <1>8 DEF Next

(* The inductive invariant, for heartbeats that are in time. *)
THEOREM Inductive == InTime => (Spec => []IInv)
<1> SUFFICES ASSUME InTime PROVE Spec => []IInv
  OBVIOUS
<1>1. IInv /\ [Next]_vars => IInv'
  BY TypeStep, LeaseStep, OneActiveStep DEF IInv
<1> QED
  BY InitIInv, <1>1, PTL DEF Spec

(* Types hold whether or not heartbeats are in time. *)
THEOREM TypeCorrect == Spec => []TypeOK
<1>1. Init => TypeOK
  BY InitIInv DEF IInv
<1> QED
  BY <1>1, TypeStep, PTL DEF Spec

(* Heartbeats in time keep the lease as long as the worker is at the job.  *)
THEOREM HeartbeatsKeepLease == InTime => (Spec => []LeaseHeld)
<1> SUFFICES ASSUME InTime PROVE Spec => []LeaseHeld
  OBVIOUS
<1>1. IInv => LeaseHeld
  BY DEF IInv, LeaseSuffices, LeaseHeld
<1>2. Spec => []IInv
  BY Inductive
<1> QED
  BY <1>1, <1>2, PTL

(* Nobody is given the job while somebody executes it.                     *)
THEOREM NobodyElseExecutes == InTime => (Spec => []MutualExclusion)
<1> SUFFICES ASSUME InTime PROVE Spec => []MutualExclusion
  OBVIOUS
<1>1. IInv => MutualExclusion
  BY DEF IInv, OneActive, MutualExclusion, Executing
<1>2. Spec => []IInv
  BY Inductive
<1> QED
  BY <1>1, <1>2, PTL

-----------------------------------------------------------------------------
(* What the upstream does to the lease of a job without a result, seen     *)
(* from the executors.                                                     *)

(* It takes the job from nobody who is at work on it.                      *)
LeavesTheActive ==
  holder # NoWorker /\ holder' # holder /\ ~settled' => phase[holder] \notin Active

(* It gives the job to somebody only when nobody is at work on it, not     *)
(* even on a lease that is over.                                           *)
GivesTheIdle ==
  holder' # holder /\ holder' # NoWorker => \A w \in Workers : phase[w] \notin Active

(* The holder changes by a claim, by a result or when the lease is over.   *)
LEMMA HolderChanges ==
  ASSUME [Next]_vars, holder' # holder
  PROVE  \/ holder = NoWorker /\ ~settled /\ holder' \in Workers
         \/ holder' = NoWorker /\ (settled' \/ lease = 0)
<1> USE DEF upstream, Enter
<1>1. CASE Tick \/ Expire
  BY <1>1 DEF Tick, Expire
<1>2. ASSUME NEW w \in Workers, ServeClaim(w)
      PROVE  holder = NoWorker /\ ~settled /\ holder' \in Workers
  BY <1>2 DEF ServeClaim
<1>3. ASSUME NEW w \in Workers, ServeReport(w) \/ ServeLate(w)
      PROVE  holder' = NoWorker /\ settled'
  BY <1>3 DEF ServeReport, ServeLate, Settle
<1>4. ASSUME NEW w \in Workers,
             \/ ClaimFails(w) \/ Reject(w) \/ StartExecution(w) \/ HeartbeatFires(w)
             \/ ServeHeartbeat(w) \/ HeartbeatReturns(w) \/ DispatchEnds(w)
             \/ ReportFails(w) \/ Crash(w)
      PROVE  FALSE
  BY <1>4 DEF ClaimFails, Reject, StartExecution, HeartbeatFires, ServeHeartbeat,
              HeartbeatReturns, DispatchEnds, ReportFails, Crash
<1>5. ASSUME NEW w \in Workers, NEW t \in 0..Timeout, HeartbeatLost(w, t)
      PROVE  FALSE
  BY <1>5 DEF HeartbeatLost
<1>6. CASE UNCHANGED vars
  BY <1>6 DEF vars
<1> QED
  BY <1>1, <1>2, <1>3, <1>4, <1>5, <1>6 DEF Next

(* A result is for good. *)
LEMMA ResultStays == ASSUME [Next]_vars, settled PROVE settled'
<1> USE DEF upstream
<1>1. ASSUME NEW w \in Workers, ServeReport(w) \/ ServeLate(w) \/ ServeHeartbeat(w)
      PROVE  settled'
  BY <1>1 DEF ServeReport, ServeLate, ServeHeartbeat, Settle
<1>2. CASE ~\E w \in Workers : ServeReport(w) \/ ServeLate(w) \/ ServeHeartbeat(w)
  BY <1>2 DEF Next, vars, Tick, Expire, ServeClaim, ClaimFails, Reject, StartExecution,
              HeartbeatFires, HeartbeatReturns, DispatchEnds, ReportFails, Crash, HeartbeatLost
<1>3. QED  BY <1>1, <1>2

(* On a network in time a lease ends only when its job has a result or its *)
(* holder has given it up, and it is granted only when nobody else is      *)
(* still at the job.  The untimed queue of Executor calls any other end of *)
(* a lease trouble (worker.rs:105-126).                                    *)
THEOREM LeasesChangeHandsIdle ==
  InTime => (Spec => [][LeavesTheActive /\ GivesTheIdle]_vars)
<1> SUFFICES ASSUME InTime PROVE Spec => [][LeavesTheActive /\ GivesTheIdle]_vars
  OBVIOUS
<1>1. IInv /\ [Next]_vars => LeavesTheActive /\ GivesTheIdle
  <2> SUFFICES ASSUME IInv, [Next]_vars PROVE LeavesTheActive /\ GivesTheIdle
    OBVIOUS
  <2>1. \A w \in Workers : phase[w] \in Active => settled \/ (holder = w /\ lease > 0)
    <3> SUFFICES ASSUME NEW w \in Workers, phase[w] \in Active, ~settled
                 PROVE  holder = w /\ lease > 0
      OBVIOUS
    <3>1. holder = w /\ lease > Need(w)
      BY DEF IInv, LeaseSuffices
    <3>2. Need(w) \in Nat
      BY LeaseAssumption DEF IInv, TypeOK, Need
    <3>3. QED  BY <3>1, <3>2 DEF IInv, TypeOK
  <2>2. LeavesTheActive
    <3> SUFFICES ASSUME holder # NoWorker, holder' # holder, ~settled', phase[holder] \in Active
                 PROVE  FALSE
      BY DEF LeavesTheActive
    <3>1. holder \in Workers
      BY DEF IInv, TypeOK
    <3>2. lease = 0
      BY HolderChanges
    <3>3. settled
      BY <2>1, <3>1, <3>2
    <3>4. settled'
      BY <3>3, ResultStays
    <3>5. QED  BY <3>4
  <2>3. GivesTheIdle
    BY <2>1, HolderChanges, LeaseAssumption DEF GivesTheIdle
  <2> QED
    BY <2>2, <2>3
<1> QED
  BY <1>1, Inductive, PTL DEF Spec
=============================================================================
