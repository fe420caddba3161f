------------------------------- MODULE Lease --------------------------------
(***************************************************************************)
(* One job, its lease at the upstream and the executors that may claim it, *)
(* with time.  Heartbeats (src/worker.rs) are to keep the lease for as     *)
(* long as a handler runs, so that no second executor is given the job.    *)
(*                                                                         *)
(* Time passes in ticks for everyone alike.  A timer is what is left of a  *)
(* delay: exactly for the sleep between heartbeats, at most for a message. *)
(* No timer may pass its end: Tick waits for whoever is due.  The latency  *)
(* of the executor's own scheduling is part of Delay.                      *)
(***************************************************************************)
EXTENDS Naturals

CONSTANTS
  Workers,
  NoWorker,
  Interval,  \* heartbeat_interval_seconds
  Duration,  \* lease_seconds, asked for by a claim and by each heartbeat
  Delay,     \* bound on a message that arrives, per direction
  Timeout,   \* the client's timeout (60 s), bound on a call that fails
  Budget     \* time that failed calls may take between two served ones

(* Config::validate demands no more than Interval < Duration. *)
ASSUME LeaseAssumption ==
  /\ NoWorker \notin Workers
  /\ Interval \in Nat /\ Duration \in Nat /\ Interval < Duration
  /\ Delay \in Nat /\ Timeout \in Nat /\ Budget \in Nat

VARIABLES
  holder,   \* the worker the upstream leased the job to
  lease,    \* what is left of the lease
  settled,  \* the upstream has a result
  phase,    \* worker -> what its task for the job is waiting for
  timer,    \* worker -> what is left of that wait
  done,     \* worker -> the handler returned while a heartbeat was in flight
  spent,    \* worker -> part of Budget used since the last served heartbeat
  late      \* requests given up on that may still be served

vars == <<holder, lease, settled, phase, timer, done, spent, late>>
upstream == <<holder, lease, settled>>

(* "hanging": a heartbeat that will not be answered; "returning": one that *)
(* was served and whose answer is under way.                               *)
Beating == {"sleeping", "sending", "hanging", "returning"}
Active == Beating \cup {"answered", "reporting"}
Executing(w) == phase[w] \in Beating /\ ~done[w]

Init ==
  /\ holder = NoWorker /\ lease = 0 /\ settled = FALSE
  /\ phase = [w \in Workers |-> "idle"]
  /\ timer = [w \in Workers |-> 0]
  /\ done = [w \in Workers |-> FALSE]
  /\ spent = [w \in Workers |-> 0]
  /\ late = {}

Enter(w, p, t) ==
  /\ phase' = [phase EXCEPT ![w] = p]
  /\ timer' = [timer EXCEPT ![w] = t]

(* One second for everyone. *)
Tick ==
  /\ \A w \in Workers : phase[w] \in Active => timer[w] > 0
  /\ timer' = [w \in Workers |-> IF timer[w] > 0 THEN timer[w] - 1 ELSE 0]
  /\ lease' = IF lease > 0 THEN lease - 1 ELSE 0
  /\ UNCHANGED <<holder, settled, phase, done, spent, late>>

-----------------------------------------------------------------------------
(* The lease runs out at the upstream. *)
Expire ==
  /\ holder # NoWorker
  /\ lease = 0
  /\ holder' = NoWorker
  /\ UNCHANGED <<lease, settled, phase, timer, done, spent, late>>

(* The upstream serves a claim; its answer takes up to Delay. *)
ServeClaim(w) ==
  /\ phase[w] = "idle"
  /\ holder = NoWorker
  /\ ~settled
  /\ holder' = w
  /\ lease' = Duration
  /\ Enter(w, "answered", Delay)
  /\ UNCHANGED <<settled, done, spent, late>>

(* The answer is lost or cannot be decoded: the lease is wasted.           *)
ClaimFails(w) ==
  /\ phase[w] = "answered"
  /\ Enter(w, "idle", 0)
  /\ UNCHANGED <<upstream, done, spent, late>>

(* process_one: reject at once, or spawn the heartbeat and the handler.    *)
Reject(w) ==
  /\ phase[w] = "answered"
  /\ Enter(w, "reporting", Delay)
  /\ UNCHANGED <<upstream, done, spent, late>>

(* Mutant: the first heartbeat waits for lease_seconds. *)
StartExecutionLate(w) ==
  /\ phase[w] = "answered"
  /\ Enter(w, "sleeping", Duration)
  /\ done' = [done EXCEPT ![w] = FALSE]
  /\ spent' = [spent EXCEPT ![w] = 0]
  /\ UNCHANGED <<upstream, late>>

StartExecution(w) ==
  /\ phase[w] = "answered"
  /\ Enter(w, "sleeping", Interval)
  /\ done' = [done EXCEPT ![w] = FALSE]
  /\ spent' = [spent EXCEPT ![w] = 0]
  /\ UNCHANGED <<upstream, late>>

(* The interval is over and the heartbeat is sent: it will arrive, or it   *)
(* will fail after a while within the client's timeout.                    *)
HeartbeatFires(w) ==
  /\ phase[w] = "sleeping"
  /\ timer[w] = 0
  /\ Enter(w, "sending", Delay)
  /\ UNCHANGED <<upstream, done, spent, late>>

HeartbeatLost(w, t) ==
  /\ phase[w] = "sleeping"
  /\ timer[w] = 0
  /\ t <= Timeout
  /\ spent[w] + t + Interval <= Budget
  /\ spent' = [spent EXCEPT ![w] = @ + t + Interval]
  /\ Enter(w, "hanging", t)
  /\ \/ UNCHANGED late
     \/ late' = late \cup {<<w, "heartbeat">>}
  /\ UNCHANGED <<upstream, done>>

(* Mutant: what is left of the lease is added to the extension. *)
ExtendMore(w) == lease' = IF holder = w /\ ~settled THEN lease + Duration ELSE lease

(* The upstream extends the lease of its holder only. *)
Extend(w) == lease' = IF holder = w /\ ~settled THEN Duration ELSE lease

ServeHeartbeat(w) ==
  /\ phase[w] = "sending"
  /\ Extend(w)
  /\ spent' = [spent EXCEPT ![w] = 0]
  /\ Enter(w, "returning", Delay)
  /\ UNCHANGED <<holder, settled, done, late>>

(* Mutant: later heartbeats wait for lease_seconds. *)
HeartbeatReturnsLate(w) ==
  /\ \/ phase[w] = "returning"
     \/ phase[w] = "hanging" /\ timer[w] = 0
  /\ IF done[w] THEN Enter(w, "reporting", Delay) ELSE Enter(w, "sleeping", Duration)
  /\ UNCHANGED <<upstream, done, spent, late>>

(* The call is over, well or badly: sleep again, or report if the handler  *)
(* returned meanwhile.                                                     *)
HeartbeatReturns(w) ==
  /\ \/ phase[w] = "returning"
     \/ phase[w] = "hanging" /\ timer[w] = 0
  /\ IF done[w] THEN Enter(w, "reporting", Delay) ELSE Enter(w, "sleeping", Interval)
  /\ UNCHANGED <<upstream, done, spent, late>>

(* The handler returns or times out.  A sleeping heartbeat ends at once, a *)
(* call in flight is awaited before the report.                            *)
DispatchEnds(w) ==
  /\ Executing(w)
  /\ IF phase[w] = "sleeping"
       THEN Enter(w, "reporting", Delay) /\ UNCHANGED done
       ELSE done' = [done EXCEPT ![w] = TRUE] /\ UNCHANGED <<phase, timer>>
  /\ UNCHANGED <<upstream, spent, late>>

(* The upstream takes a result from the holder of the lease only.          *)
Settle(w) ==
  IF holder = w /\ ~settled
    THEN settled' = TRUE /\ holder' = NoWorker /\ UNCHANGED lease
    ELSE UNCHANGED upstream

ServeReport(w) ==
  /\ phase[w] = "reporting"
  /\ Settle(w)
  /\ Enter(w, "idle", 0)
  /\ UNCHANGED <<done, spent, late>>

(* The single attempt fails; the request may still be served.              *)
ReportFails(w) ==
  /\ phase[w] = "reporting"
  /\ Enter(w, "idle", 0)
  /\ \/ UNCHANGED late
     \/ late' = late \cup {<<w, "report">>}
  /\ UNCHANGED <<upstream, done, spent>>

(* A request nobody waits for any more.  It names the job but no attempt.  *)
ServeLate(w) ==
  /\ \/ /\ <<w, "heartbeat">> \in late
        /\ late' = late \ {<<w, "heartbeat">>}
        /\ Extend(w)
        /\ UNCHANGED <<holder, settled>>
     \/ /\ <<w, "report">> \in late
        /\ late' = late \ {<<w, "report">>}
        /\ Settle(w)
  /\ UNCHANGED <<phase, timer, done, spent>>

(* The executor dies and is started again; nothing is persisted. *)
Crash(w) ==
  /\ phase[w] # "idle"
  /\ Enter(w, "idle", 0)
  /\ UNCHANGED <<upstream, done, spent, late>>

-----------------------------------------------------------------------------
Next ==
  \/ Tick \/ Expire
  \/ \E w \in Workers :
       \/ ServeClaim(w) \/ ClaimFails(w) \/ Reject(w) \/ StartExecution(w)
       \/ HeartbeatFires(w) \/ ServeHeartbeat(w) \/ HeartbeatReturns(w)
       \/ DispatchEnds(w) \/ ServeReport(w) \/ ReportFails(w)
       \/ ServeLate(w) \/ Crash(w)
       \/ \E t \in 0..Timeout : HeartbeatLost(w, t)

Spec == Init /\ [][Next]_vars

-----------------------------------------------------------------------------
TypeOK ==
  /\ holder \in Workers \cup {NoWorker}
  /\ lease \in 0..Duration
  /\ settled \in BOOLEAN
  /\ phase \in [Workers -> Active \cup {"idle"}]
  /\ timer \in [Workers -> Nat]
  /\ done \in [Workers -> BOOLEAN]
  /\ spent \in [Workers -> 0..Budget]
  /\ late \subseteq Workers \X {"heartbeat", "report"}

(* Two extensions are at most an interval, a round trip and the time lost  *)
(* on failed calls apart.  Interval < Duration does not imply it.          *)
InTime == Interval + 2 * Delay + Budget < Duration

(* A worker that executes the job or reports on it holds its lease: every  *)
(* heartbeat arrives before the lease is over (worker.rs:105-126), and so  *)
(* does the result; only a late result of an earlier attempt settles the   *)
(* job under it.                                                           *)
LeaseHeld ==
  \A w \in Workers : phase[w] \in Active => holder = w \/ settled

(* The upstream gives nobody a job that some executor still works on.      *)
MutualExclusion ==
  \A v, w \in Workers : Executing(v) /\ Executing(w) => v = w
=============================================================================
