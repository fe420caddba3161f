------------------------------ MODULE Deadlines ------------------------------
(***************************************************************************)
(* The two clocks on a job: the hard timeout handle_job puts around every  *)
(* handler (worker.rs), resolved from the payload, the job and the         *)
(* settings the process started with (module Startup), and the timers of   *)
(* their own that shell.run and http.request start later, from the same    *)
(* field of the payload.                                                   *)
(***************************************************************************)
EXTENDS Startup

CONSTANTS Timed,       \* the capabilities with a timer of their own
          Own,         \* the length of that timer when the payload gives none
          Jobs,        \* [capability, payload, level]: the seconds the payload and
                       \* the job give, each a set of at most one number
          NoJob,
          MaxTime      \* bound on the seconds a handler is watched for

VARIABLES phase,       \* "idle", "working" or "cut": ended by a timeout
          job,         \* the latest job
          elapsed,     \* seconds since its handler was called
          began        \* when the handler started its own timer, if it did

jobVars == <<phase, job, elapsed, began>>
vars == <<startupVars, jobVars>>

Default == "default_job_timeout_seconds"

ASSUME TimersAssumption == /\ Own \in [Timed -> Nat]
                           /\ MaxTime \in Nat
                           /\ Default \in DOMAIN Defaults
                           /\ \A c \in Sources(Default) : c[Default] \in Nat
ASSUME JobsAssumption == /\ \A j \in Jobs : j.payload \subseteq Nat /\ j.level \subseteq Nat
                         /\ NoJob \notin Jobs

\* Option::or and unwrap_or; a value as_u64 does not take counts as none.
OrElse(option, default) == IF option = {} THEN default ELSE CHOOSE n \in option : TRUE

\* Mutant: the job's timeout wins over its payload's.
HardLevelFirst(j) == OrElse(j.level, OrElse(j.payload, cfg[Default]))

\* payload override > job-level > executor default.
Hard(j) == OrElse(j.payload, OrElse(j.level, cfg[Default]))

OwnTimer(j) == OrElse(j.payload, Own[j.capability])
OwnIsDue == \E start \in began : elapsed >= start + OwnTimer(job)
-----------------------------------------------------------------------------
Init == /\ StartupInit
        /\ phase = "idle"
        /\ job = NoJob
        /\ elapsed = 0
        /\ began = {}

Dispatch(j) == /\ pc = "running"
               /\ phase # "working"
               /\ phase' = "working"
               /\ job' = j
               /\ elapsed' = 0
               /\ began' = {}

Tick == /\ phase = "working"
        /\ elapsed < MaxTime
        /\ elapsed' = elapsed + 1
        /\ UNCHANGED <<phase, job, began>>

\* After the spawn and the feeding of stdin, or after the guard's lookup.
StartOwnTimer == /\ phase = "working"
                 /\ job.capability \in Timed
                 /\ began = {}
                 /\ began' = {elapsed}
                 /\ UNCHANGED <<phase, job, elapsed>>

Forgets == phase' = "idle" /\ job' = NoJob /\ elapsed' = 0 /\ began' = {}

\* With a result or an error, before any timer of its own has started too.
HandlerReturns == phase = "working" /\ Forgets

Cut == phase = "working" /\ phase' = "cut" /\ UNCHANGED <<job, elapsed, began>>

OwnTimeout == Cut /\ OwnIsDue

\* timeout polls the handler before its own delay: a handler that is due wins.
HardTimeout == Cut /\ elapsed >= Hard(job) /\ ~OwnIsDue

JobStep == Tick \/ StartOwnTimer \/ HandlerReturns \/ OwnTimeout \/ HardTimeout

\* Mutant: the loop ends while a job is executed, which nobody waits for.
ProcessStepUnjoined == StartupNext /\ UNCHANGED jobVars

\* The batch is joined before the loop can end; a crash takes the job along.
ProcessStep == /\ StartupNext
               /\ pc' = "stopped" => phase # "working"
               /\ IF pc' = "running" THEN UNCHANGED jobVars ELSE Forgets

Next == \/ ProcessStep
        \/ (JobStep \/ \E j \in Jobs : Dispatch(j)) /\ UNCHANGED startupVars

Spec == Init /\ [][Next]_vars /\ StartupFairness
-----------------------------------------------------------------------------
TypeOK == /\ StartupTypeOK
          /\ phase \in {"idle", "working", "cut"}
          /\ IF phase = "idle" THEN job = NoJob ELSE pc = "running" /\ job \in Jobs
          /\ elapsed \in 0 .. MaxTime
          /\ began \subseteq 0 .. elapsed

\* The seconds the sender of job j can count on.
Granted(j) ==
  LET default == OrElse(j.level, cfg[Default])
      own == Own[j.capability]
  IN OrElse(j.payload, IF j.capability \in Timed /\ own < default THEN own ELSE default)

(* No timeout cuts a job short of what its sender was granted: the payload's
   timeout_seconds when it gives one, whatever the job, the settings and the
   handler's own default say; failing that the job's, and then the settings', up
   to the default of a handler with a timer of its own. *)
GrantedTime == phase = "cut" => elapsed >= Granted(job)
=============================================================================
