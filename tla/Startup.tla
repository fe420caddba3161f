------------------------------- MODULE Startup -------------------------------
(***************************************************************************)
(* How a process of the executor comes by its settings (config.rs,         *)
(* build_config and run of cli.rs) and what the service manager does when  *)
(* it exits (scripts/install-linux.sh).  The operator may edit the file at *)
(* any moment, between `path.exists()` and the read too.                   *)
(*                                                                         *)
(* A file, like the command line and the environment, is a function from   *)
(* the names of the fields it gives to their values.                       *)
(***************************************************************************)
EXTENDS Naturals, FiniteSets

CONSTANTS Written,    \* the settings a file that is TOML may hold
          Absent,     \* no file
          Hidden,     \* a file whose metadata cannot be read: in a directory
                      \* that cannot be searched, on a failing disk, or behind
                      \* a link that leads nowhere
          Broken,     \* a file that cannot be read, or is not TOML
          Options,    \* what the command line, or the environment, may give
          Defaults,   \* the settings of a process without a file
          GoodUrls, GoodTokens,  \* what passes the checks of the prefixes
          GoodAgents, \* user agents a header can hold
          MaxSeen     \* bound on the states of the file during one start

VARIABLES file,       \* what is at the path of the settings
          flags, env, \* what the command line and the environment give
          pathKnown,  \* --config is given, or the platform has a directory
          command,    \* the subcommand of the latest process
          pc,         \* how far that process is
          cfg,        \* its settings, once they are built
          seen        \* every state the file was in until they were built

startupVars == <<file, flags, env, pathKnown, command, pc, cfg, seen>>

\* base_url and bearer_token have no default: serde refuses a file without them.
Required == {"base_url", "bearer_token"}
Files == {Absent, Hidden, Broken} \cup Written

\* `path.exists()` is false for a file that is not there and for one it cannot see.
Unseen == {Absent, Hidden}

Commands == {"run", "probe", "show-config", "system-info", "capabilities"}
Building == {"parsed", "found"}

\* Settings c with the fields o gives replaced.
Overlay(c, o) == [k \in DOMAIN c |-> IF k \in DOMAIN o THEN o[k] ELSE c[k]]

\* The settings that give field k are where a value of it comes from.
Sources(k) == {c \in Written \cup Options \cup {Defaults} : k \in DOMAIN c}

ASSUME FilesAssumption == Written \cap {Absent, Hidden, Broken} = {} /\ Broken \notin Unseen
ASSUME OptionsAssumption == \A o \in Options : DOMAIN o \subseteq Required
ASSUME DefaultsAssumption == Required \subseteq DOMAIN Defaults

Valid(c) == /\ c.base_url \in GoodUrls
            /\ c.bearer_token \in GoodTokens
            /\ c.heartbeat_interval_seconds < c.lease_seconds

\* What a file parses to; in place of an unseen one, the settings built without it.
Parsed(f) == IF f \in Unseen THEN Defaults ELSE Overlay(Defaults, f)
Loads(f) == f \in Written /\ Required \subseteq DOMAIN f /\ Valid(Parsed(f))

\* Mutant: the environment wins over the command line.
OverrideEnvFirst(c) == Overlay(Overlay(c, flags), env)

\* clap takes an option from the environment when no flag gives it.
Override(c) == Overlay(Overlay(c, env), flags)
-----------------------------------------------------------------------------
StartupInit == /\ file \in Files
               /\ flags \in Options
               /\ env \in Options
               /\ pathKnown \in BOOLEAN
               /\ command \in Commands
               /\ pc = "parsed"
               /\ cfg = Defaults
               /\ seen = {file}

\* The operator writes, breaks, hides or removes the file.
EditFile(f) == /\ f # file
               /\ file' = f
               /\ seen' = IF pc \in Building THEN seen \cup {f} ELSE seen
               /\ Cardinality(seen') <= MaxSeen
               /\ UNCHANGED <<flags, env, pathKnown, command, pc, cfg>>

Steps(from, to) == pc = from /\ pc' = to
Begins(c) == /\ pc' = "parsed"
             /\ command' = c
             /\ seen' = {file}
             /\ UNCHANGED <<file, flags, env, pathKnown, cfg>>
KeepsSettings == UNCHANGED <<file, flags, env, pathKnown, command, cfg, seen>>

\* Every command builds the settings first; a failure of any step is exit code 1.
PathIsUnknown == ~pathKnown /\ Steps("parsed", "failed") /\ KeepsSettings

FileIsFound == /\ pathKnown
               /\ file \notin Unseen
               /\ Steps("parsed", "found")
               /\ KeepsSettings

\* The file is looked for, and only then read.
SettingsBuilt(from, c) == /\ Steps(from, "built")
                          /\ cfg' = Override(c)
                          /\ UNCHANGED <<file, flags, env, pathKnown, command, seen>>

NoFile == pathKnown /\ file \in Unseen /\ SettingsBuilt("parsed", Defaults)

\* Mutant: a file that cannot be read counts as none.
FileLoadsOrNone == SettingsBuilt("found", IF Loads(file) THEN Parsed(file) ELSE Defaults)

FileLoads == Loads(file) /\ SettingsBuilt("found", Parsed(file))

\* Mutant: the process reports the error and exits with 0.
FileIsRefusedQuietly == ~Loads(file) /\ Steps("found", "stopped") /\ KeepsSettings

\* Unreadable or gone meanwhile, not TOML, a required field missing, or refused
\* by validate() before any option has been applied to it.
FileIsRefused == ~Loads(file) /\ Steps("found", "failed") /\ KeepsSettings

\* capabilities, system-info and show-config print and end.
Prints == /\ command \notin {"run", "probe"}
          /\ Steps("built", "stopped")
          /\ KeepsSettings

\* Mutant: the settings are validated where the file is loaded only.
ValidatesNothing == /\ command \in {"run", "probe"}
                    /\ Steps("built", "validated")
                    /\ KeepsSettings

Validates == /\ command \in {"run", "probe"}
             /\ Valid(cfg)
             /\ Steps("built", "validated")
             /\ KeepsSettings

SettingsAreRefused == /\ command \in {"run", "probe"}
                      /\ ~Valid(cfg)
                      /\ Steps("built", "failed")
                      /\ KeepsSettings

\* UpstreamClient::new fails on a user agent no header can hold.
ClientFails == /\ cfg.user_agent \notin GoodAgents
               /\ Steps("validated", "failed")
               /\ KeepsSettings

Probes == /\ command = "probe"
          /\ cfg.user_agent \in GoodAgents
          /\ \E end \in {"stopped", "failed"} : Steps("validated", end)
          /\ KeepsSettings

Runs == /\ command = "run"
        /\ cfg.user_agent \in GoodAgents
        /\ Steps("validated", "running")
        /\ KeepsSettings

\* run_forever returns after a signal, or when no listener for signals could be
\* installed: exit code 0 in both cases.
StopsCleanly == Steps("running", "stopped") /\ KeepsSettings
Crashes == Steps("running", "failed") /\ KeepsSettings

\* Restart=on-failure, RestartSec=5s.
Restart == pc = "failed" /\ command = "run" /\ Begins("run")

\* The operator runs a command by hand, or starts the service (again).
Invoke(c) == /\ pc \in {"stopped", "failed"}
             /\ ~(pc = "failed" /\ command = "run")
             /\ Begins(c)

Progress == \/ PathIsUnknown \/ FileIsFound \/ NoFile \/ FileLoads \/ FileIsRefused
            \/ Prints \/ Validates \/ SettingsAreRefused \/ ClientFails \/ Probes \/ Runs

StartupNext == \/ Progress
               \/ StopsCleanly
               \/ Crashes
               \/ Restart
               \/ \E c \in Commands : Invoke(c)
               \/ \E f \in Files : EditFile(f)

StartupFairness == WF_startupVars(Progress) /\ WF_startupVars(Restart)
-----------------------------------------------------------------------------
StartupTypeOK == /\ file \in Files
                 /\ flags \in Options /\ env \in Options
                 /\ pathKnown \in BOOLEAN
                 /\ command \in Commands
                 /\ pc \in Building \cup {"built", "validated", "running", "stopped", "failed"}
                 /\ DOMAIN cfg = DOMAIN Defaults
                 /\ \A k \in DOMAIN cfg : \E c \in Sources(k) : cfg[k] = c[k]
                 /\ seen \subseteq Files

\* The settings a process gets that finds the file in state f throughout.
Resolved(f) == Override(Parsed(f))

(* A worker that runs has settings that pass validate(), the ones overridden
   after load_from_file had validated the file included: its heartbeats are
   more frequent than its lease is long, which module Lease assumes. *)
RunsValidated == pc = "running" => Valid(cfg)

(* The settings of a worker are those of one state the file really was in while
   it started, with flags before environment before file: a file that the process
   found is never ignored, nor one that has been there and in sight all along,
   however it was edited meanwhile (cli.rs:132-157).  A hidden one is ignored:
   "Load file if it exists" (cli.rs:129) does not hold of it. *)
FileIsObeyed == pc = "running" =>
                  \E f \in seen : /\ f \in Unseen \/ Loads(f)
                                  /\ cfg = Overlay(Overlay(Parsed(f), env), flags)

\* A process that starts with the file as it is now will run.
CanRun == /\ pathKnown
          /\ file \in Unseen \/ Loads(file)
          /\ Valid(Resolved(file))
          /\ Resolved(file).user_agent \in GoodAgents

(* Once the file has been repaired and is left alone, a service that was started
   and not stopped by a signal runs, with nobody starting it again: every refusal
   exits with a failure, which is what the service manager restarts on. *)
StartsWhenItCan ==
  <>[]CanRun /\ <>[][FALSE]_file =>
    [](command = "run" /\ pc # "stopped" => <>(pc = "running"))
=============================================================================
