------------------------------ MODULE ShellRun ------------------------------
(***************************************************************************)
(* The shell.run capability (src/caps/shell_run.rs): the handler, the      *)
(* command it spawns, a background process the command may leave behind,   *)
(* and the pipes between them.                                             *)
(*                                                                         *)
(* The handler first writes all of stdin and only then collects the output *)
(* and awaits the exit.  Its own timer covers the second part alone; the   *)
(* worker's hard timeout (worker.rs:136) covers both.  Stdout and stderr   *)
(* are collected alike and modelled as one pipe.                           *)
(***************************************************************************)
EXTENDS Naturals

CONSTANTS
  Input,     \* bound on the "stdin" of the payload
  Output,    \* bound on what the command writes
  Capacity   \* of a pipe

ASSUME ShellAssumption == Input \in Nat /\ Output \in Nat /\ Capacity \in Nat \ {0}

VARIABLES
  pc,          \* of the handler
  outcome,     \* what the handler produced
  child,       \* the command: its life, then its exit
  op,          \* what the command is doing; it blocks until it can
  intake,      \* the command's own end of its stdin: "open" or "closed"
  stdin,       \* size of the "stdin" of the payload, 0 without one
  appetite,    \* how much of it the command will read
  volume,      \* how much it will write before it exits
  written, consumed,    \* bytes that entered and left the stdin pipe
  produced, collected,  \* bytes that entered and left the stdout pipe
  background   \* a process left behind with the command's stdout

vars == <<pc, outcome, child, op, intake, stdin, appetite, volume, written,
          consumed, produced, collected, background>>

plan == <<stdin, appetite, volume>>

inPipe == written - consumed
outPipe == produced - collected

(* Someone may still read what is written to the command.                  *)
Reads == child = "running" /\ intake = "open"

Exits == {"zero", "nonzero"}

(* The command reads and writes in an order of its own, then exits. *)
NextOps(c, p) ==
  IF c = appetite /\ p = volume
    THEN {"exit"}
    ELSE {o \in {"read", "write"} :
            \/ o = "read" /\ c < appetite
            \/ o = "write" /\ p < volume}

Init ==
  /\ pc = "start"
  /\ outcome = "none"
  /\ child = "none"
  /\ stdin \in 0..Input /\ appetite \in 0..stdin /\ volume \in 0..Output
  /\ op = "none" /\ intake = "open"
  /\ written = 0 /\ consumed = 0 /\ produced = 0 /\ collected = 0
  /\ background = "none"

-----------------------------------------------------------------------------
(* The handler *)

(* kill_on_drop: when the handler is over its Child is dropped, which      *)
(* kills the command, and the command alone.                               *)
Return(o) ==
  /\ pc' = "returned"
  /\ outcome' = o
  /\ child' = IF child = "running" THEN "killed" ELSE child
  /\ UNCHANGED <<op, intake, plan, written, consumed, produced, collected, background>>

(* No command: a bad payload, an unsupported shell, or spawn() failed.     *)
SpawnFails == pc = "start" /\ Return("error")

Spawn ==
  /\ pc = "start"
  /\ child' = "running"
  /\ op' \in NextOps(0, 0)
  /\ pc' = "writing"
  /\ UNCHANGED <<outcome, intake, plan, written, consumed, produced, collected,
                 background>>

WriteStdin ==
  /\ pc = "writing"
  /\ Reads
  /\ written < stdin
  /\ inPipe < Capacity
  /\ written' = written + 1
  /\ UNCHANGED <<pc, outcome, child, op, intake, plan, consumed, produced,
                 collected, background>>

(* The command has exited or closed its stdin: write_all fails and `?`     *)
(* returns its error.                                                      *)
StdinBreaks ==
  /\ pc = "writing"
  /\ ~Reads
  /\ written < stdin
  /\ Return("broken")

(* Mutant: an error of shutdown() is returned as well, not dropped.        *)
StdinDoneStrict ==
  /\ pc = "writing"
  /\ written = stdin
  /\ \/ Reads /\ pc' = "waiting"
        /\ UNCHANGED <<outcome, child, op, intake, plan, written, consumed,
                       produced, collected, background>>
     \/ ~Reads /\ Return("broken")

(* stdin is shut down, or there is none; the timer of the handler starts.  *)
StdinDone ==
  /\ pc = "writing"
  /\ written = stdin
  /\ pc' = "waiting"
  /\ UNCHANGED <<outcome, child, op, intake, plan, written, consumed, produced,
                 collected, background>>

(* Mutants: the output is collected after the exit; more is collected than *)
(* was written.                                                            *)
CollectLate ==
  /\ pc = "waiting"
  /\ outPipe > 0
  /\ child \in Exits
  /\ collected' = collected + 1
  /\ UNCHANGED <<pc, outcome, child, op, intake, plan, written, consumed, produced,
                 background>>

CollectBlind ==
  /\ pc = "waiting"
  /\ collected < volume
  /\ collected' = collected + 1
  /\ UNCHANGED <<pc, outcome, child, op, intake, plan, written, consumed, produced,
                 background>>

Collect ==
  /\ pc = "waiting"
  /\ outPipe > 0
  /\ collected' = collected + 1
  /\ UNCHANGED <<pc, outcome, child, op, intake, plan, written, consumed, produced,
                 background>>

(* Mutant: wait() instead of wait_with_output(). *)
WaitOnly ==
  /\ pc = "waiting"
  /\ child \in Exits
  /\ Return(child)

(* wait_with_output: the exit is known and both pipes are at their end,    *)
(* that is, empty and closed by everyone who could write.                  *)
WaitReturns ==
  /\ pc = "waiting"
  /\ child \in Exits
  /\ outPipe = 0
  /\ background # "running"
  /\ Return(child)

(* A pipe cannot be read, or the exit cannot be awaited.                   *)
WaitFails == pc = "waiting" /\ Return("waitError")

InnerTimeout == pc = "waiting" /\ Return("timeout")

(* The worker's hard timeout drops the handler where it stands. *)
HardTimeoutElapses == pc \in {"writing", "waiting"} /\ Return("cut")

-----------------------------------------------------------------------------
(* The command and what it leaves behind *)

CommandReads ==
  /\ child = "running"
  /\ op = "read"
  /\ inPipe > 0
  /\ consumed' = consumed + 1
  /\ op' \in NextOps(consumed + 1, produced)
  /\ UNCHANGED <<pc, outcome, child, intake, plan, written, produced, collected,
                 background>>

(* It closes its stdin once it has read all it wants, or keeps it open     *)
(* until it exits.                                                         *)
CommandCloses ==
  /\ child = "running"
  /\ intake = "open"
  /\ consumed = appetite
  /\ intake' = "closed"
  /\ UNCHANGED <<pc, outcome, child, op, plan, written, consumed, produced,
                 collected, background>>

CommandWrites ==
  /\ child = "running"
  /\ op = "write"
  /\ outPipe < Capacity
  /\ produced' = produced + 1
  /\ op' \in NextOps(consumed, produced + 1)
  /\ UNCHANGED <<pc, outcome, child, intake, plan, written, consumed, collected,
                 background>>

CommandForks ==
  /\ child = "running"
  /\ background = "none"
  /\ background' = "running"
  /\ UNCHANGED <<pc, outcome, child, op, intake, plan, written, consumed, produced,
                 collected>>

CommandExits ==
  /\ child = "running"
  /\ op = "exit"
  /\ child' \in Exits
  /\ UNCHANGED <<pc, outcome, op, intake, plan, written, consumed, produced,
                 collected, background>>

BackgroundExits ==
  /\ background = "running"
  /\ background' = "exited"
  /\ UNCHANGED <<pc, outcome, child, op, intake, plan, written, consumed, produced,
                 collected>>

-----------------------------------------------------------------------------
Handler == Spawn \/ SpawnFails \/ WriteStdin \/ StdinBreaks \/ StdinDone
           \/ Collect \/ WaitReturns
Command == CommandReads \/ CommandWrites \/ CommandExits

Next ==
  \/ Handler \/ Command
  \/ WaitFails \/ InnerTimeout \/ HardTimeoutElapses
  \/ CommandCloses \/ CommandForks \/ BackgroundExits

Spec == Init /\ [][Next]_vars

(* The handler is polled and the command makes progress.  No timer and no  *)
(* failure is fair: Completes is about finishing without them.  Nothing is *)
(* assumed of a process left behind, which may never end.                  *)
FairSpec == Spec /\ WF_vars(Handler) /\ WF_vars(Command)

-----------------------------------------------------------------------------
TypeOK ==
  /\ pc \in {"start", "writing", "waiting", "returned"}
  /\ outcome \in {"none", "error", "broken", "waitError", "timeout", "cut"} \cup Exits
  /\ child \in {"none", "running", "killed"} \cup Exits
  /\ op \in {"none", "read", "write", "exit"}
  /\ intake \in {"open", "closed"}
  /\ stdin \in 0..Input /\ appetite \in 0..stdin /\ volume \in 0..Output
  /\ written \in 0..stdin /\ consumed \in 0..written
  /\ produced \in 0..volume /\ collected \in 0..produced
  /\ background \in {"none", "running", "exited"}

(* An exit code is reported only when it is the command's own, and with    *)
(* all the output of the command (shell_run.rs:55-74).                     *)
ExitIsWhole ==
  outcome \in Exits => child = outcome /\ collected = volume

(* A command that reads all that it is sent and then exits, at whatever    *)
(* moment of the handler, is reported with its exit; only a timer or a     *)
(* failing wait can take its place (shell_run.rs:48-60).  One that leaves  *)
(* some of its stdin unread may lose it, see ErrorsAreInfrastructure.      *)
ExitIsKept ==
  pc = "returned" /\ child \in Exits /\ consumed = stdin
    => outcome \in {child, "timeout", "cut", "waitError"}

(* The command waits for room on stdout while the handler waits for room   *)
(* on stdin, and neither will ever give the other any.                     *)
MutualBlock ==
  /\ pc = "writing" /\ written < stdin /\ inPipe = Capacity
  /\ Reads /\ op = "write" /\ outPipe = Capacity

(* Writing all of stdin before the first read of stdout is safe as long as *)
(* one of the two fits into its pipe.                                      *)
OneFits == stdin <= Capacity \/ volume <= Capacity
NoMutualBlock == OneFits => ~MutualBlock

(* A process left behind keeps stdout open after the command has exited.   *)
HeldOpen == pc = "waiting" /\ child \in Exits /\ background = "running"

(* When one of stdin and output fits into its pipe, the handler comes to   *)
(* an end with no help from any timer; the one thing that keeps it is a    *)
(* process left behind that never ends (shell_run.rs:48-56).               *)
Completes == pc = "start" /\ OneFits ~> pc = "returned" \/ []HeldOpen

(* types.rs:63: an error stands for a failure of the infrastructure, never *)
(* for a command that was run and came to its exit.                        *)
ErrorsAreInfrastructure == outcome \in {"error", "broken"} => child \notin Exits
=============================================================================
