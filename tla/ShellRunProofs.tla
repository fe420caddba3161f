--------------------------- MODULE ShellRunProofs ---------------------------
(***************************************************************************)
(* What the handler of shell.run returns, and that it and its command do   *)
(* not block each other, for all sizes of stdin, stdout and the pipes.     *)
(***************************************************************************)
EXTENDS ShellRun, Integers, TLAPS

(* What the command has left to do agrees with what it is doing; nothing   *)
(* is collected before the wait; an error has its cause.                   *)
Progress ==
  /\ pc = "start" => child = "none" /\ consumed = 0 /\ produced = 0
  /\ child = "running" => op \in NextOps(consumed, produced)
  /\ child \in Exits => produced = volume
  /\ pc \in {"start", "writing"} => collected = 0
  /\ pc = "returned" => child # "running"
  /\ pc # "returned" => outcome = "none"
  /\ outcome \in Exits => child = outcome /\ collected = volume
  /\ pc = "returned" => outcome # "none"
  /\ outcome = "error" => child = "none"
  /\ outcome = "broken" => consumed < stdin

IInv == TypeOK /\ Progress

USE DEF Exits, plan

(* The invariant holds initially. *)
LEMMA InitIInv == Init => IInv
  BY ShellAssumption DEF Init, IInv, TypeOK, Progress

(* The steps of the handler and both timeouts preserve it. *)
LEMMA HandlerIInv ==
  ASSUME IInv, Handler \/ WaitFails \/ InnerTimeout \/ HardTimeoutElapses
  PROVE  IInv'
<1> USE ShellAssumption DEF IInv, TypeOK, Progress, Return
<1>1. CASE Spawn
  <2>1. (op \in NextOps(consumed, produced))'
    BY <1>1 DEF Spawn, NextOps
  <2>2. op' \in {"none", "read", "write", "exit"}
    BY <1>1 DEF Spawn, NextOps
  <2> QED
    BY <1>1, <2>1, <2>2 DEF Spawn
<1>2. CASE SpawnFails \/ StdinBreaks \/ WaitFails \/ InnerTimeout \/ HardTimeoutElapses
  BY <1>2 DEF SpawnFails, StdinBreaks, WaitFails, InnerTimeout, HardTimeoutElapses
<1>3. CASE WriteStdin
  BY <1>3 DEF WriteStdin, NextOps, inPipe
<1>4. CASE StdinDone
  BY <1>4 DEF StdinDone, NextOps
<1>5. CASE Collect
  BY <1>5 DEF Collect, NextOps, outPipe
<1>6. CASE WaitReturns
  BY <1>6 DEF WaitReturns, outPipe
<1> QED
  BY <1>1, <1>2, <1>3, <1>4, <1>5, <1>6 DEF Handler

(* The steps of the command and of a background process preserve it. *)
LEMMA CommandIInv ==
  ASSUME IInv, Command \/ CommandCloses \/ CommandForks \/ BackgroundExits
  PROVE  IInv'
<1> USE ShellAssumption DEF IInv, TypeOK, Progress, NextOps
<1>1. CASE CommandReads
  BY <1>1 DEF CommandReads, inPipe
<1>2. CASE CommandWrites
  BY <1>2 DEF CommandWrites, outPipe
<1>3. CASE CommandExits
  BY <1>3 DEF CommandExits
<1>4. CASE CommandCloses \/ CommandForks \/ BackgroundExits
  BY <1>4 DEF CommandCloses, CommandForks, BackgroundExits
<1> QED
  BY <1>1, <1>2, <1>3, <1>4 DEF Command

(* The inductive invariant of the handler and its command. *)
THEOREM Inductive == Spec => []IInv
<1>1. IInv /\ [Next]_vars => IInv'
  <2> SUFFICES ASSUME IInv, [Next]_vars PROVE IInv'
    OBVIOUS
  <2>1. CASE UNCHANGED vars
    BY <2>1 DEF vars, IInv, TypeOK, Progress, NextOps
  <2> QED
    BY <2>1, HandlerIInv, CommandIInv DEF Next
<1> QED
  BY InitIInv, <1>1, PTL DEF Spec

(* The variables keep their types; the pipes never hold less than nothing. *)
THEOREM TypeCorrect == Spec => []TypeOK
<1>1. IInv => TypeOK
  BY DEF IInv
<1> QED
  BY Inductive, <1>1, PTL

(* A reported exit code is the command's, with the whole of its output.    *)
THEOREM ExitsAreWhole == Spec => []ExitIsWhole
<1>1. IInv => ExitIsWhole
  BY DEF IInv, Progress, ExitIsWhole
<1> QED
  BY Inductive, <1>1, PTL

(* A command that has read all of its stdin when it exits keeps its exit:  *)
(* it is reported with it, or a timer or a failing wait came first.        *)
THEOREM ExitsAreKept == Spec => []ExitIsKept
<1>1. IInv => ExitIsKept
  BY DEF IInv, TypeOK, Progress, ExitIsKept
<1> QED
  BY Inductive, <1>1, PTL

(* Stdin before stdout is no deadlock as long as one fits into its pipe.   *)
THEOREM NeverMutuallyBlocked == Spec => []NoMutualBlock
<1>1. IInv => NoMutualBlock
  BY ShellAssumption
  DEF IInv, TypeOK, Progress, NextOps, NoMutualBlock, OneFits, MutualBlock,
      inPipe, outPipe, Reads
<1> QED
  BY Inductive, <1>1, PTL

-----------------------------------------------------------------------------
(* The run of a command comes to its end without the help of a timer: it   *)
(* is never stuck, and there is only so much for it to do.  That what can  *)
(* happen does happen is fairness, and left to the runs.                   *)

PcLeft == CASE pc = "start" -> 3
            [] pc = "writing" -> 2
            [] pc = "waiting" -> 1
            [] pc = "returned" -> 0

ChildLeft == CASE child = "none" -> 2
               [] child = "running" -> 1
               [] OTHER -> 0

BackgroundLeft == CASE background = "none" -> 2
                    [] background = "running" -> 1
                    [] background = "exited" -> 0

IntakeLeft == IF intake = "open" THEN 1 ELSE 0

(* The stages still ahead of handler, command and background process, and  *)
(* the bytes still ahead of each end of the two pipes.                     *)
StagesLeft == PcLeft + ChildLeft + BackgroundLeft + IntakeLeft
BytesLeft ==
  (stdin - written) + (stdin - consumed) + (volume - produced) + (volume - collected)

Left == StagesLeft + BytesLeft
Bound == 8 + 2 * Input + 2 * Output

LEMMA LeftBounded ==
  ASSUME IInv
  PROVE  StagesLeft \in 0..8 /\ BytesLeft \in 0..(2 * Input + 2 * Output)
<1>1. PcLeft \in 0..3 /\ ChildLeft \in 0..2 /\ BackgroundLeft \in 0..2 /\ IntakeLeft \in 0..1
  BY DEF IInv, TypeOK, PcLeft, ChildLeft, BackgroundLeft, IntakeLeft
<1>2. StagesLeft \in 0..8
  BY <1>1 DEF StagesLeft
<1>3. /\ Input \in Nat /\ Output \in Nat /\ volume \in 0..Output
      /\ stdin \in 0..Input /\ written \in 0..stdin /\ consumed \in 0..stdin
      /\ produced \in 0..volume /\ collected \in 0..volume
  BY ShellAssumption DEF IInv, TypeOK
<1>4. BytesLeft \in 0..(2 * Input + 2 * Output)
  BY <1>3 DEF BytesLeft
<1> QED
  BY <1>2, <1>4

(* A step is one to the next stage, or moves one byte. *)
LEMMA StepsForward ==
  ASSUME IInv, Next
  PROVE  \/ StagesLeft' < StagesLeft /\ BytesLeft' = BytesLeft
         \/ StagesLeft' = StagesLeft /\ BytesLeft' < BytesLeft
<1>0. PcLeft \in Nat /\ ChildLeft \in Nat /\ BackgroundLeft \in Nat /\ IntakeLeft \in Nat
  BY DEF IInv, TypeOK, PcLeft, ChildLeft, BackgroundLeft, IntakeLeft
<1>1. CASE \/ Spawn \/ SpawnFails \/ StdinBreaks \/ StdinDone \/ WaitReturns
           \/ WaitFails \/ InnerTimeout \/ HardTimeoutElapses
           \/ CommandExits \/ CommandCloses \/ CommandForks \/ BackgroundExits
  <2>1. BytesLeft' = BytesLeft
    BY <1>1 DEF BytesLeft, Spawn, SpawnFails, StdinBreaks, StdinDone, WaitReturns,
                WaitFails, InnerTimeout, HardTimeoutElapses, CommandExits, CommandCloses,
                CommandForks, BackgroundExits, Return, plan
  <2>2. StagesLeft' < StagesLeft
    <3>1. CASE Spawn
      <4>1. /\ PcLeft = 3 /\ PcLeft' = 2 /\ ChildLeft = 2 /\ ChildLeft' = 1
            /\ BackgroundLeft' = BackgroundLeft /\ IntakeLeft' = IntakeLeft
        BY <3>1 DEF Spawn, IInv, Progress, PcLeft, ChildLeft, BackgroundLeft, IntakeLeft
      <4> QED
        BY <1>0, <4>1 DEF StagesLeft
    <3>2. CASE SpawnFails \/ StdinBreaks \/ WaitReturns \/ WaitFails \/ InnerTimeout
               \/ HardTimeoutElapses
      <4>1. PcLeft > 0 /\ PcLeft' = 0
        BY <3>2 DEF SpawnFails, StdinBreaks, WaitReturns, WaitFails, InnerTimeout,
                    HardTimeoutElapses, Return, PcLeft
      <4>2. /\ child' = child \/ (child = "running" /\ child' = "killed")
            /\ background' = background /\ intake' = intake
        BY <3>2 DEF SpawnFails, StdinBreaks, WaitReturns, WaitFails, InnerTimeout,
                    HardTimeoutElapses, Return
      <4>3. BackgroundLeft' = BackgroundLeft /\ IntakeLeft' = IntakeLeft
        BY <4>2 DEF BackgroundLeft, IntakeLeft
      <4>4. ChildLeft' = ChildLeft \/ (ChildLeft = 1 /\ ChildLeft' = 0)
        BY <4>2 DEF ChildLeft
      <4>5. StagesLeft' = ChildLeft' + BackgroundLeft + IntakeLeft
        BY <1>0, <4>1, <4>3, <4>4 DEF StagesLeft
      <4> QED
        BY <1>0, <4>1, <4>4, <4>5 DEF StagesLeft
    <3>3. CASE StdinDone
      <4>1. PcLeft = 2 /\ PcLeft' = 1 /\ ChildLeft' = ChildLeft
            /\ BackgroundLeft' = BackgroundLeft /\ IntakeLeft' = IntakeLeft
        BY <3>3 DEF StdinDone, PcLeft, ChildLeft, BackgroundLeft, IntakeLeft
      <4> QED
        BY <1>0, <4>1 DEF StagesLeft
    <3>4. CASE CommandExits
      <4>1. PcLeft' = PcLeft /\ ChildLeft = 1 /\ ChildLeft' = 0
            /\ BackgroundLeft' = BackgroundLeft /\ IntakeLeft' = IntakeLeft
        BY <3>4 DEF CommandExits, PcLeft, ChildLeft, BackgroundLeft, IntakeLeft
      <4> QED
        BY <1>0, <4>1 DEF StagesLeft
    <3>5. CASE CommandForks \/ BackgroundExits
      <4>1. PcLeft' = PcLeft /\ ChildLeft' = ChildLeft /\ IntakeLeft' = IntakeLeft
        BY <3>5 DEF CommandForks, BackgroundExits, PcLeft, ChildLeft, IntakeLeft
      <4>2. \/ BackgroundLeft = 2 /\ BackgroundLeft' = 1
            \/ BackgroundLeft = 1 /\ BackgroundLeft' = 0
        BY <3>5 DEF CommandForks, BackgroundExits, BackgroundLeft
      <4> QED
        BY <1>0, <4>1, <4>2 DEF StagesLeft
    <3>6. CASE CommandCloses
      <4>1. /\ PcLeft' = PcLeft /\ ChildLeft' = ChildLeft
            /\ BackgroundLeft' = BackgroundLeft
            /\ IntakeLeft = 1 /\ IntakeLeft' = 0
        BY <3>6 DEF CommandCloses, PcLeft, ChildLeft, BackgroundLeft, IntakeLeft
      <4> QED
        BY <1>0, <4>1 DEF StagesLeft
    <3> QED
      BY <1>1, <3>1, <3>2, <3>3, <3>4, <3>5, <3>6
  <2> QED
    BY <2>1, <2>2
<1>2. CASE WriteStdin \/ Collect \/ CommandReads \/ CommandWrites
  <2>1. StagesLeft' = StagesLeft
    BY <1>2 DEF WriteStdin, Collect, CommandReads, CommandWrites,
                StagesLeft, PcLeft, ChildLeft, BackgroundLeft, IntakeLeft
  <2>2. /\ stdin \in Nat /\ volume \in Nat /\ written \in Nat /\ consumed \in Nat
        /\ produced \in Nat /\ collected \in Nat
    BY ShellAssumption DEF IInv, TypeOK
  <2>3. BytesLeft' < BytesLeft
    <3>1. CASE WriteStdin
      BY <2>2, <3>1 DEF WriteStdin, BytesLeft
    <3>2. CASE Collect
      BY <2>2, <3>2 DEF Collect, BytesLeft
    <3>3. CASE CommandReads
      BY <2>2, <3>3 DEF CommandReads, BytesLeft
    <3>4. CASE CommandWrites
      BY <2>2, <3>4 DEF CommandWrites, BytesLeft
    <3> QED
      BY <1>2, <3>1, <3>2, <3>3, <3>4
  <2> QED
    BY <2>1, <2>3
<1> QED
  BY <1>1, <1>2 DEF Next, Handler, Command

(* A sum falls with one of its parts. *)
LEMMA SumFalls ==
  ASSUME NEW a \in Nat, NEW b \in Nat, NEW c, NEW d,
         (c < a /\ c \in Nat /\ d = b) \/ (c = a /\ d < b /\ d \in Nat)
  PROVE  c + d < a + b
OBVIOUS

(* Every step is a step towards the end, whoever takes it, and there are   *)
(* no more of them than Bound.                                             *)
THEOREM EveryStepCounts == Spec => [](Left \in 0..Bound) /\ [][Left' < Left]_vars
<1>1. IInv => /\ StagesLeft \in Nat /\ BytesLeft \in Nat
              /\ Left \in 0..Bound
  BY LeftBounded, ShellAssumption DEF Left, Bound
<1>2. ASSUME IInv, Next, StagesLeft \in Nat, BytesLeft \in Nat,
             StagesLeft' \in Nat, BytesLeft' \in Nat
      PROVE  Left' < Left
  BY <1>2, StepsForward, SumFalls DEF Left
<1>3. (IInv /\ StagesLeft \in Nat /\ BytesLeft \in Nat)
        /\ (IInv /\ StagesLeft \in Nat /\ BytesLeft \in Nat)' /\ [Next]_vars
        => [Left' < Left]_vars
  BY <1>2
<1> QED
  BY <1>1, <1>3, Inductive, PTL DEF Spec

(* The handler waits for the exit only after all of stdin, and its command *)
(* lives or has come to an exit of its own until the handler is over.      *)
Fed ==
  /\ pc = "waiting" => written = stdin
  /\ pc \in {"writing", "waiting"} => child \in {"running"} \cup Exits

LEMMA FedStep == IInv /\ Fed /\ [Next]_vars => Fed'
<1> SUFFICES ASSUME IInv, Fed, [Next]_vars PROVE Fed'
  OBVIOUS
<1> USE DEF Fed, IInv, TypeOK
<1>1. CASE Handler \/ WaitFails \/ InnerTimeout \/ HardTimeoutElapses
  BY <1>1 DEF Handler, Spawn, SpawnFails, WriteStdin, StdinBreaks, StdinDone, Collect,
              WaitReturns, WaitFails, InnerTimeout, HardTimeoutElapses, Return
<1>2. CASE Command \/ CommandCloses \/ CommandForks \/ BackgroundExits
  BY <1>2 DEF Command, CommandReads, CommandWrites, CommandExits, CommandCloses,
              CommandForks, BackgroundExits
<1>3. CASE UNCHANGED vars
  BY <1>3 DEF vars
<1> QED
  BY <1>1, <1>2, <1>3 DEF Next

(* Guards of the steps of Handler and Command: the handler has something   *)
(* to spawn, to write, to collect or to return, or its command can read,   *)
(* write or exit.                                                          *)
HandlerCan ==
  \/ pc = "start"
  \/ pc = "writing" /\ (written = stdin \/ ~Reads \/ inPipe < Capacity)
  \/ pc = "waiting" /\ (outPipe > 0 \/ (child \in Exits /\ background # "running"))

CommandCan ==
  /\ child = "running"
  /\ \/ op = "read" /\ inPipe > 0
     \/ op = "write" /\ outPipe < Capacity
     \/ op = "exit"

NeverStuck == OneFits /\ pc # "returned" /\ ~HeldOpen => HandlerCan \/ CommandCan

(* Whatever the command does and in which order it reads and writes, until *)
(* the handler has returned one of the two can go on, when stdin or the    *)
(* output fits into its pipe and no background process holds stdout open   *)
(* after the command's exit (shell_run.rs:36-55).                          *)
THEOREM SomeoneGoesOn == Spec => []NeverStuck
<1>1. Init => Fed
  BY DEF Init, Fed
<1>2. IInv /\ Fed => NeverStuck
  <2> SUFFICES ASSUME IInv, Fed, OneFits, pc # "returned", ~HeldOpen,
                      ~HandlerCan, ~CommandCan
               PROVE  FALSE
    BY DEF NeverStuck
  <2>1. /\ Input \in Nat /\ Output \in Nat /\ Capacity \in Nat \ {0}
        /\ stdin \in 0..Input /\ written \in 0..stdin /\ consumed \in 0..written
        /\ appetite \in 0..stdin /\ volume \in 0..Output
        /\ produced \in 0..volume /\ collected \in 0..produced
    BY ShellAssumption DEF IInv, TypeOK
  <2>2. child = "running" /\ op \in NextOps(consumed, produced)
    BY <2>1 DEF IInv, TypeOK, Progress, Fed, HandlerCan, HeldOpen, Reads, outPipe
  <2>3. op \in {"read", "write"} /\ (op = "read" => consumed < appetite)
        /\ (op = "write" => produced < volume)
    BY <2>2 DEF NextOps, CommandCan
  <2>4. CASE pc = "waiting"
    BY <2>1, <2>2, <2>3, <2>4 DEF Fed, HandlerCan, CommandCan, inPipe, outPipe
  <2>5. CASE pc = "writing"
    <3>1. written < stdin /\ inPipe >= Capacity
      BY <2>1, <2>2, <2>5 DEF HandlerCan, inPipe
    <3>2. op = "write" /\ outPipe >= Capacity
      BY <2>1, <2>2, <2>3, <3>1 DEF CommandCan, inPipe, outPipe
    <3>3. collected = 0
      BY <2>5 DEF IInv, Progress
    <3>4. stdin > Capacity /\ volume > Capacity
      BY <2>1, <2>3, <3>1, <3>2, <3>3 DEF inPipe, outPipe
    <3> QED
      BY <2>1, <3>4 DEF OneFits
  <2> QED
    BY <2>4, <2>5 DEF IInv, TypeOK, HandlerCan
<1> QED
  BY <1>1, <1>2, FedStep, Inductive, PTL DEF Spec
=============================================================================
