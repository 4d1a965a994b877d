------------------------------ MODULE Process -------------------------------
(***************************************************************************)
(* runProcess and runProcessCaptureOut: a child is spawned, its output     *)
(* drained from a pipe when it is captured, and the child reaped.  Output  *)
(* is counted in the parts a read takes.  A call that a signal interrupts  *)
(* is made again; signals are few.                                         *)
(***************************************************************************)
EXTENDS Naturals

Room == 2        \* parts a pipe holds
MaxOutput == 4   \* parts a child writes: more than the pipe holds
MaxSignals == 2  \* interrupted calls

VARIABLES step,     \* where the parent is
          capture,  \* the output is captured
          writers,  \* who holds the write end
          child,    \* "none", "runs", or how it ended
          written,  \* parts the child has written
          pipe,     \* of them, in the pipe
          got,      \* of them, in out
          signals,
          result    \* PlnProcResult
processVars == <<step, capture, writers, child, written, pipe, got, signals, result>>

Exits == {<<"exited", 0>>, <<"exited", 1>>}
Killed == <<"signaled", 9>>
Ends == Exits \cup {Killed}
NoResult == <<"none", 0>>
SpawnFailed == <<"spawn_failed", 2>>

ProcessInit(active) ==
  /\ step = (IF active THEN "spawn" ELSE "idle") /\ capture \in (IF active THEN BOOLEAN ELSE {FALSE})
  /\ writers = {} /\ child = <<"none", 0>> /\ written = 0 /\ pipe = 0 /\ got = 0
  /\ signals = 0 /\ result = NoResult

Return(r) == step' = "returned" /\ result' = r
OfChild == UNCHANGED <<child, written>>

\* The pipe is made, and its write end given to the child as its stdout.
Spawn ==
  /\ step = "spawn" /\ step' = IF capture THEN "close" ELSE "wait"
  /\ child' = <<"runs", 0>> /\ writers' = IF capture THEN {"parent", "child"} ELSE {}
  /\ UNCHANGED <<capture, written, pipe, got, signals, result>>
SpawnFails ==
  /\ step = "spawn" /\ Return(SpawnFailed)
  /\ OfChild /\ UNCHANGED <<capture, writers, pipe, got, signals>>
\* (as if the child were reaped before its output is read)
ReapFirst ==
  /\ step = "close" /\ step' = "wait" /\ writers' = writers \ {"parent"}
  /\ OfChild /\ UNCHANGED <<capture, pipe, got, signals, result>>
CloseWriteEnd ==
  /\ step = "close" /\ step' = "read" /\ writers' = writers \ {"parent"}
  /\ OfChild /\ UNCHANGED <<capture, pipe, got, signals, result>>
\* read blocks while the pipe is empty and someone may write to it; then it gives 0.
Read ==
  /\ step = "read" /\ (pipe > 0 \/ writers = {})
  /\ step' = (IF pipe = 0 THEN "wait" ELSE step)
  /\ \E n \in (IF pipe = 0 THEN {0} ELSE 1..pipe) : got' = got + n /\ pipe' = pipe - n
  /\ OfChild /\ UNCHANGED <<capture, writers, signals, result>>
Interrupted ==
  /\ step \in {"read", "wait"} /\ signals < MaxSignals /\ signals' = signals + 1
  /\ OfChild /\ UNCHANGED <<step, capture, writers, pipe, got, result>>
\* waitForChild: waitpid blocks until the child has ended.
WaitForChild ==
  /\ step = "wait" /\ child \in Ends /\ Return(child)
  /\ OfChild /\ UNCHANGED <<capture, writers, pipe, got, signals>>
Parent == Spawn \/ SpawnFails \/ CloseWriteEnd \/ Read \/ Interrupted \/ WaitForChild

\* A write blocks while the pipe is full; what ends the child closes its end.
ChildWrites ==
  /\ child = <<"runs", 0>> /\ "child" \in writers /\ pipe < Room /\ written < MaxOutput
  /\ written' = written + 1 /\ pipe' = pipe + 1
  /\ UNCHANGED <<step, capture, writers, child, got, signals, result>>
Ending(ends) ==
  /\ child = <<"runs", 0>> /\ child' \in ends /\ writers' = writers \ {"child"}
  /\ UNCHANGED <<step, capture, written, pipe, got, signals, result>>
\* A child that is stopped in a write ends when it can write on, unless it is killed.
ChildExits == ("child" \in writers => pipe < Room) /\ Ending(Exits)
ChildIsKilled == Ending({Killed})
Child == ChildWrites \/ ChildExits
ProcessNext == Parent \/ Child \/ ChildIsKilled

(***************************************************************************)
(* The call returns, with the child reaped and how it ended, and with all  *)
(* it wrote when that is captured, more than a pipe holds included.        *)
(***************************************************************************)
ReturnsAll ==
  step # "idle" =>
    <>[](/\ step = "returned" /\ result # NoResult
         /\ result = (IF child \in Ends THEN child ELSE SpawnFailed)
         /\ capture => got = written)
=============================================================================
