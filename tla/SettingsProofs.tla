--------------------------- MODULE SettingsProofs ---------------------------
(* Proofs about Deadlines and, with it, Startup, for all settings, options, *)
(* jobs and timers.                                                         *)
EXTENDS Deadlines, TLAPS

(* How far the settings of the process have come. *)
StartedRight ==
  /\ pc \in Building => file \in seen
  /\ pc \in {"built", "validated", "running"} =>
       \E f \in seen : /\ f \in Unseen \/ Loads(f)
                       /\ cfg = Overlay(Overlay(Parsed(f), env), flags)
  /\ pc \in {"validated", "running"} => Valid(cfg)

(* A timer of its own runs only for a capability that has one. *)
TimersRight == /\ began # {} => job.capability \in Timed
               /\ GrantedTime

IInv == TypeOK /\ StartedRight /\ TimersRight

(* Options replace settings and add none (build_config). *)
LEMMA OverlayKeeps ==
  ASSUME NEW c, NEW o, NEW k \in DOMAIN c
  PROVE  /\ DOMAIN Overlay(c, o) = DOMAIN c
         /\ Overlay(c, o)[k] = IF k \in DOMAIN o THEN o[k] ELSE c[k]
BY DEF Overlay

(* Settings as they are built have every field, from some source. *)
LEMMA BuiltFromSources ==
  ASSUME NEW c, c = Defaults \/ \E f \in Written : c = Overlay(Defaults, f),
         flags \in Options, env \in Options
  PROVE  /\ DOMAIN Override(c) = DOMAIN Defaults
         /\ \A k \in DOMAIN Defaults :
              \E s \in Sources(k) : Override(c)[k] = s[k]
<1>1. /\ DOMAIN c = DOMAIN Defaults
      /\ \A k \in DOMAIN Defaults : \E s \in Sources(k) : c[k] = s[k]
  <2>1. CASE c = Defaults
    BY <2>1 DEF Sources
  <2>2. CASE \E f \in Written : c = Overlay(Defaults, f)
    <3>1. PICK f \in Written : c = Overlay(Defaults, f)
      BY <2>2
    <3>2. QED  BY <3>1 DEF Overlay, Sources
  <2>3. QED  BY <2>1, <2>2
<1>2. DOMAIN Override(c) = DOMAIN Defaults
  BY <1>1 DEF Override, Overlay
<1>3. ASSUME NEW k \in DOMAIN Defaults
      PROVE  \E s \in Sources(k) : Override(c)[k] = s[k]
  <2>1. Override(c)[k] = IF k \in DOMAIN flags THEN flags[k]
                         ELSE IF k \in DOMAIN env THEN env[k] ELSE c[k]
    BY <1>1 DEF Override, Overlay
  <2>2. CASE k \in DOMAIN flags
    BY <2>1, <2>2 DEF Sources
  <2>3. CASE k \notin DOMAIN flags /\ k \in DOMAIN env
    BY <2>1, <2>3 DEF Sources
  <2>4. CASE k \notin DOMAIN flags /\ k \notin DOMAIN env
    BY <1>1, <2>1, <2>4
  <2>5. QED  BY <2>2, <2>3, <2>4
<1>4. QED  BY <1>2, <1>3

(* What the steps of the process do, apart from an edit of the file. *)
LEMMA StartupSteps ==
  ASSUME StartupTypeOK, StartedRight, StartupNext
  PROVE  StartupTypeOK' /\ StartedRight'
<1>1. Files = {Absent, Hidden, Broken} \cup Written
  BY DEF Files
<1>2. ASSUME NEW f \in Files, EditFile(f)
      PROVE  StartupTypeOK' /\ StartedRight'
  <2>1. StartupTypeOK'
    BY <1>2 DEF EditFile, StartupTypeOK
  <2>2. seen \subseteq seen' /\ (pc' \in Building => file' \in seen')
    BY <1>2 DEF EditFile
  <2>3. pc' = pc /\ cfg' = cfg /\ env' = env /\ flags' = flags
    BY <1>2 DEF EditFile
  <2>4. QED  BY <2>1, <2>2, <2>3 DEF StartedRight, Override, Overlay, Valid, Parsed, Loads
<1>3. ASSUME NEW c \in Commands, Begins(c)
      PROVE  StartupTypeOK' /\ StartedRight'
  BY <1>3 DEF Begins, StartupTypeOK, StartedRight, Building
<1>4. ASSUME NEW from, NEW to, Steps(from, to), KeepsSettings,
             to \in {"failed", "stopped"} \/ (from = "parsed" /\ to = "found")
      PROVE  StartupTypeOK' /\ StartedRight'
  BY <1>4 DEF Steps, KeepsSettings, StartupTypeOK, StartedRight, Building
<1>5. CASE Validates \/ Runs
  <2>1. /\ pc \in {"built", "validated"} /\ pc' \in {"validated", "running"} /\ Valid(cfg)
        /\ UNCHANGED <<file, flags, env, pathKnown, command, cfg, seen>>
    BY <1>5 DEF Validates, Runs, Steps, KeepsSettings, StartedRight
  <2>2. StartupTypeOK'
    BY <2>1 DEF StartupTypeOK
  <2>3. QED  BY <2>1, <2>2 DEF StartedRight, Building, Valid, Overlay, Parsed, Loads
<1>6. CASE NoFile \/ FileLoads
  <2>1. /\ file \in seen /\ (file \in Unseen \/ Loads(file))
        /\ cfg' = Override(Parsed(file)) /\ pc' = "built"
        /\ UNCHANGED <<file, flags, env, pathKnown, command, seen>>
    <3>1. CASE NoFile
      BY <3>1 DEF NoFile, SettingsBuilt, Steps, StartedRight, Building, Parsed
    <3>2. CASE FileLoads
      BY <3>2 DEF FileLoads, SettingsBuilt, Steps, StartedRight, Building
    <3>3. QED  BY <1>6, <3>1, <3>2
  <2>2. Parsed(file) = Defaults \/ \E f \in Written : Parsed(file) = Overlay(Defaults, f)
    BY <2>1 DEF Parsed, Loads
  <2>3. /\ DOMAIN cfg' = DOMAIN Defaults
        /\ \A k \in DOMAIN Defaults : \E s \in Sources(k) : cfg'[k] = s[k]
    BY <2>1, <2>2, BuiltFromSources DEF StartupTypeOK
  <2>4. StartupTypeOK'
    BY <2>1, <2>3 DEF StartupTypeOK
  <2>5. StartedRight'
    BY <2>1 DEF StartedRight, Building, Override, Overlay, Parsed, Loads, Valid
  <2>6. QED  BY <2>4, <2>5
<1>7. QED
  BY <1>2, <1>3, <1>4, <1>5, <1>6
     DEF StartupNext, Progress, PathIsUnknown, FileIsFound, FileIsRefused, Prints,
         SettingsAreRefused, ClientFails, Probes, StopsCleanly, Crashes, Restart, Invoke,
         Commands

(* Settings never change while a worker runs (Arc<Config>). *)
LEMMA RunningKeepsSettings ==
  ASSUME StartupNext, pc = "running", pc' = "running"
  PROVE  cfg' = cfg
BY DEF StartupNext, Progress, PathIsUnknown, FileIsFound, NoFile, FileLoads, FileIsRefused,
       Prints, Validates, SettingsAreRefused, ClientFails, Probes, Runs, StopsCleanly, Crashes,
       Restart, Invoke, EditFile, Begins, Steps, KeepsSettings, SettingsBuilt

(* Options of numbers resolve to a number. *)
LEMMA OrElseNat ==
  ASSUME NEW option \in SUBSET Nat, NEW default \in Nat
  PROVE  OrElse(option, default) \in Nat
BY DEF OrElse

(* The default timeout of the settings is a number. *)
LEMMA DefaultNat == ASSUME StartupTypeOK PROVE cfg[Default] \in Nat
BY TimersAssumption DEF StartupTypeOK

(* Whichever of the two timers is due, the time granted is over. *)
LEMMA DueIsGranted ==
  ASSUME IInv, phase = "working", OwnIsDue \/ elapsed >= Hard(job)
  PROVE  elapsed >= Granted(job)
<1>1. /\ job.payload \in SUBSET Nat /\ job.level \in SUBSET Nat
      /\ elapsed \in Nat /\ began \subseteq Nat /\ cfg[Default] \in Nat
  BY JobsAssumption, TimersAssumption, DefaultNat DEF IInv, TypeOK
<1> DEFINE default == OrElse(job.level, cfg[Default])
<1>2. default \in Nat
  BY <1>1, OrElseNat
<1>3. CASE job.payload # {}
  <2>1. /\ Hard(job) = OrElse(job.payload, 0)
        /\ Granted(job) = OrElse(job.payload, 0)
        /\ OwnTimer(job) = OrElse(job.payload, 0)
    BY <1>3 DEF Hard, Granted, OwnTimer, OrElse
  <2>2. OrElse(job.payload, 0) \in Nat
    BY <1>1, OrElseNat
  <2>3. QED  BY <1>1, <2>1, <2>2 DEF OwnIsDue
<1>4. CASE job.payload = {} /\ job.capability \in Timed
  <2>1. /\ Hard(job) = default
        /\ OwnTimer(job) = Own[job.capability]
        /\ Granted(job) = IF Own[job.capability] < default THEN Own[job.capability] ELSE default
    BY <1>4 DEF Hard, Granted, OwnTimer, OrElse
  <2>2. Own[job.capability] \in Nat
    BY <1>4, TimersAssumption
  <2>3. QED  BY <1>1, <1>2, <2>1, <2>2 DEF OwnIsDue
<1>5. CASE job.payload = {} /\ job.capability \notin Timed
  <2>1. Hard(job) = default /\ Granted(job) = default
    BY <1>5 DEF Hard, Granted, OrElse
  <2>2. ~OwnIsDue
    BY <1>5 DEF OwnIsDue, IInv, TimersRight
  <2>3. QED  BY <2>1, <2>2
<1>6. QED  BY <1>3, <1>4, <1>5

(* The invariant is inductive. *)
THEOREM Inductive == Spec => []IInv
<1>1. Init => IInv
  <2> SUFFICES ASSUME Init PROVE IInv
    OBVIOUS
  <2>1. StartupTypeOK
    BY DEF Init, StartupInit, StartupTypeOK, Building, Sources
  <2>2. TypeOK
    BY <2>1, TimersAssumption DEF Init, TypeOK
  <2>3. QED  BY <2>2 DEF Init, StartupInit, IInv, StartedRight, TimersRight, GrantedTime, Building
<1>2. IInv /\ [Next]_vars => IInv'
  <2> SUFFICES ASSUME IInv, [Next]_vars PROVE IInv'
    OBVIOUS
  <2>0. /\ elapsed \in Nat /\ MaxTime \in Nat /\ StartupTypeOK /\ StartedRight
    BY TimersAssumption DEF IInv, TypeOK
  <2>1. CASE ProcessStep
    <3>1. StartupTypeOK' /\ StartedRight'
      BY <2>0, <2>1, StartupSteps DEF ProcessStep
    <3>2. CASE pc' = "running"
      <4>1. UNCHANGED jobVars
        BY <2>1, <3>2 DEF ProcessStep
      <4>2. TypeOK'
        BY <3>1, <3>2, <4>1 DEF IInv, TypeOK, jobVars
      <4>3. phase = "cut" => cfg' = cfg
        BY <2>1, <3>2, RunningKeepsSettings DEF IInv, TypeOK, ProcessStep
      <4>4. TimersRight'
        BY <4>1, <4>3 DEF IInv, TimersRight, GrantedTime, Granted, OrElse, jobVars
      <4>5. QED  BY <3>1, <4>2, <4>4 DEF IInv
    <3>3. CASE pc' # "running"
      <4>1. Forgets
        BY <2>1, <3>3 DEF ProcessStep
      <4>2. QED  BY <2>0, <3>1, <4>1 DEF IInv, TypeOK, TimersRight, GrantedTime, Forgets
    <3>4. QED  BY <3>2, <3>3
  <2>2. CASE (JobStep \/ \E j \in Jobs : Dispatch(j)) /\ UNCHANGED startupVars
    <3>1. StartupTypeOK' /\ StartedRight'
      BY <2>0, <2>2 DEF startupVars, StartupTypeOK, StartedRight, Overlay, Parsed, Loads, Valid
    <3>2. pc' = pc /\ cfg' = cfg
      BY <2>2 DEF startupVars
    <3>3. CASE \E j \in Jobs : Dispatch(j)
      BY <2>0, <3>1, <3>2, <3>3 DEF Dispatch, IInv, TypeOK, TimersRight, GrantedTime
    <3>4. CASE Tick
      BY <2>0, <3>1, <3>2, <3>4 DEF Tick, IInv, TypeOK, TimersRight, GrantedTime
    <3>5. CASE StartOwnTimer
      BY <2>0, <3>1, <3>2, <3>5 DEF StartOwnTimer, IInv, TypeOK, TimersRight, GrantedTime
    <3>6. CASE HandlerReturns
      BY <2>0, <3>1, <3>2, <3>6 DEF HandlerReturns, Forgets, IInv, TypeOK, TimersRight, GrantedTime
    <3>7. CASE OwnTimeout \/ HardTimeout
      <4>1. elapsed >= Granted(job)
        BY <3>7, DueIsGranted DEF OwnTimeout, HardTimeout, Cut
      <4>2. Granted(job)' = Granted(job)
        <5>1. job' = job /\ cfg' = cfg
          BY <3>2, <3>7 DEF OwnTimeout, HardTimeout, Cut
        <5>2. QED  BY <5>1 DEF Granted
      <4>3. QED
        BY <3>1, <3>2, <3>7, <4>1, <4>2
           DEF OwnTimeout, HardTimeout, Cut, IInv, TypeOK, TimersRight, GrantedTime
    <3>8. QED  BY <2>2, <3>3, <3>4, <3>5, <3>6, <3>7 DEF JobStep
  <2>3. CASE UNCHANGED vars
    <3>1. UNCHANGED startupVars /\ UNCHANGED jobVars
      BY <2>3 DEF vars
    <3>2. StartupTypeOK' /\ StartedRight'
      <4>1. UNCHANGED <<file, flags, env, pathKnown, command, pc, cfg, seen>>
        BY <3>1 DEF startupVars
      <4>2. StartupTypeOK'
        BY <2>0, <4>1 DEF StartupTypeOK
      <4>3. StartedRight'
        BY <2>0, <4>1 DEF StartedRight, Overlay, Parsed, Loads, Valid
      <4>4. QED  BY <4>2, <4>3
    <3>3. TypeOK'
      BY <3>1, <3>2 DEF IInv, TypeOK, startupVars, jobVars
    <3>4. Granted(job)' = Granted(job)
      <4>1. job' = job /\ cfg' = cfg
        BY <3>1 DEF startupVars, jobVars
      <4>2. QED  BY <4>1 DEF Granted
    <3>5. QED  BY <3>1, <3>2, <3>3, <3>4 DEF IInv, TimersRight, GrantedTime, jobVars
  <2>4. QED  BY <2>1, <2>2, <2>3 DEF Next
<1>3. QED  BY <1>1, <1>2, PTL DEF Spec

(* Settings, process and timers keep their types. *)
THEOREM TypeCorrect == Spec => []TypeOK
BY Inductive, PTL DEF IInv

(* No worker runs on settings validate() would refuse. *)
THEOREM ValidatedSettings == Spec => []RunsValidated
<1>1. IInv => RunsValidated
  BY DEF IInv, StartedRight, RunsValidated
<1>2. QED  BY <1>1, Inductive, PTL

(* A worker's settings are those of one state the file was in while it      *)
(* started, overridden, or the defaults when it was out of sight: a file     *)
(* that was found and does not load is never replaced by the defaults.       *)
THEOREM SettingsOfOneFile == Spec => []FileIsObeyed
<1>1. IInv => FileIsObeyed
  BY DEF IInv, StartedRight, FileIsObeyed
<1>2. QED  BY <1>1, Inductive, PTL

(* Neither timeout cuts a job short of the seconds it was granted. *)
THEOREM TimeIsGranted == Spec => []GrantedTime
BY Inductive, PTL DEF IInv, TimersRight

-----------------------------------------------------------------------------
(* What StartsWhenItCan rests on, beside fairness.                          *)

(* A file that was found was there in some state the process saw. *)
FoundIsSeen == pc = "found" => \E f \in seen : f \notin Unseen

LEMMA FoundStep ==
  ASSUME StartedRight, FoundIsSeen, StartupNext
  PROVE  FoundIsSeen'
<1>1. ASSUME NEW f \in Files, EditFile(f) PROVE FoundIsSeen'
  BY <1>1 DEF EditFile, FoundIsSeen, Building
<1>2. CASE FileIsFound
  BY <1>2 DEF FileIsFound, Steps, KeepsSettings, FoundIsSeen, StartedRight, Building
<1>3. CASE pc' # "found"
  BY <1>3 DEF FoundIsSeen
<1>4. QED
  BY <1>1, <1>2, <1>3
     DEF StartupNext, Progress, PathIsUnknown, NoFile, FileLoads, FileIsRefused, Prints,
         Validates, SettingsAreRefused, ClientFails, Probes, Runs, StopsCleanly, Crashes,
         Restart, Invoke, Begins, Steps, SettingsBuilt

(* A start that saw one state of the file, one it can run with, fails in no *)
(* step; a worker that runs may still crash.                                *)
GoodStartSucceeds ==
  command = "run" /\ seen = {file} /\ CanRun /\ pc' = "failed" => pc \in {"running", "failed"}

(* A process of the service that was not running yet ends with a failure,   *)
(* which is what the service manager restarts on, and never quietly.        *)
NoQuietEnd == command = "run" /\ pc' = "stopped" => pc \in {"running", "stopped"}

(* Refusals are for cause, and loud (cli.rs, scripts/install-linux.sh).     *)
THEOREM StartsFailForCause == Spec => [][GoodStartSucceeds /\ NoQuietEnd]_vars
<1>1. Init => FoundIsSeen
  BY DEF Init, StartupInit, FoundIsSeen
<1>2. IInv /\ FoundIsSeen /\ [Next]_vars => FoundIsSeen'
  <2> SUFFICES ASSUME IInv, FoundIsSeen, [Next]_vars PROVE FoundIsSeen'
    OBVIOUS
  <2>1. StartupNext \/ UNCHANGED startupVars
    BY DEF Next, ProcessStep, vars
  <2>2. CASE UNCHANGED startupVars
    BY <2>2 DEF startupVars, FoundIsSeen
  <2>3. QED  BY <2>1, <2>2, FoundStep DEF IInv
<1>3. IInv /\ FoundIsSeen /\ [Next]_vars => [GoodStartSucceeds /\ NoQuietEnd]_vars
  <2> SUFFICES ASSUME IInv, FoundIsSeen, Next
               PROVE  GoodStartSucceeds /\ NoQuietEnd
    OBVIOUS
  <2>0. CASE UNCHANGED startupVars
    BY <2>0 DEF startupVars, GoodStartSucceeds, NoQuietEnd
  <2>1. CASE StartupNext
    <3>1. ASSUME command = "run", seen = {file}, CanRun, pc' = "failed",
                 pc \notin {"running", "failed"}
          PROVE  FALSE
      <4>1. pc = "found" => Loads(file)
        BY <3>1 DEF FoundIsSeen, CanRun
      <4>2. pc \in {"built", "validated"} => cfg = Resolved(file)
        BY <3>1 DEF IInv, StartedRight, Resolved, Override
      <4>3. pathKnown /\ Valid(Resolved(file)) /\ Resolved(file).user_agent \in GoodAgents
        BY <3>1 DEF CanRun
      <4>4. PathIsUnknown \/ FileIsRefused \/ SettingsAreRefused \/ ClientFails \/ Probes
        BY <2>1, <3>1
           DEF StartupNext, Progress, FileIsFound, NoFile, FileLoads, Prints, Validates, Runs,
               StopsCleanly, Crashes, Restart, Invoke, EditFile, Begins, Steps, SettingsBuilt
      <4>5. ~PathIsUnknown /\ ~Probes
        BY <3>1, <4>3 DEF PathIsUnknown, Probes
      <4>6. ~FileIsRefused
        BY <4>1 DEF FileIsRefused, Steps
      <4>7. ~SettingsAreRefused /\ ~ClientFails
        BY <4>2, <4>3 DEF SettingsAreRefused, ClientFails, Steps
      <4>8. QED  BY <4>4, <4>5, <4>6, <4>7
    <3>2. NoQuietEnd
      BY <2>1
         DEF NoQuietEnd, StartupNext, Progress, PathIsUnknown, FileIsFound, NoFile, FileLoads,
             FileIsRefused, Prints, Validates, SettingsAreRefused, ClientFails, Probes, Runs,
             StopsCleanly, Crashes, Restart, Invoke, EditFile, Begins, Steps, SettingsBuilt
    <3>3. QED  BY <3>1, <3>2 DEF GoodStartSucceeds
  <2>2. QED  BY <2>0, <2>1 DEF Next, ProcessStep
<1>4. QED  BY <1>1, <1>2, <1>3, Inductive, PTL DEF Spec
=============================================================================
