------------------------------- MODULE SshCall -------------------------------
(***************************************************************************)
(* What a call on an SshSession promises, without the channel: a call     *)
(* starts the command, or fails at once; the command exits with a status, *)
(* is killed, or the connection is dropped; the call then returns the     *)
(* status the command sent, returns an error, or panics, and it panics    *)
(* only when the command sent no status.  SshSession refines it.          *)
(***************************************************************************)
EXTENDS Naturals, Sequences

CONSTANTS ExitCodes, MaxCalls, NoCode

VARIABLES
  client,    \* "start", "ready", "waiting", "closed", "failed", "panicked"
  calls,     \* calls started
  results,   \* results of the finished calls
  alive,     \* the connection is up
  remote,    \* the command: "idle", "running" or "exited"
  sentExit   \* the status the command sent, or NoCode

vars == <<client, calls, results, alive, remote, sentExit>>

Init ==
  /\ client = "start" /\ calls = 0 /\ results = <<>> /\ alive = TRUE
  /\ remote = "idle" /\ sentExit = NoCode

Connect ==
  /\ client = "start"
  /\ client' \in {"ready", "failed"}
  /\ UNCHANGED <<calls, results, alive, remote, sentExit>>

Begin ==
  /\ client = "ready" /\ calls < MaxCalls
  /\ calls' = calls + 1
  /\ \/ /\ alive
        /\ client' = "waiting" /\ remote' = "running" /\ sentExit' = NoCode
        /\ UNCHANGED results
     \/ /\ results' = Append(results, "Err")
        /\ UNCHANGED <<client, remote, sentExit>>
  /\ UNCHANGED alive

CommandExits ==
  /\ remote = "running"
  /\ remote' = "exited"
  /\ sentExit' \in ExitCodes \cup {sentExit}
  /\ UNCHANGED <<client, calls, results, alive>>

Drop ==
  /\ client = "waiting" /\ remote # "idle"
  /\ alive' = FALSE /\ remote' = "exited"
  /\ UNCHANGED <<client, calls, results, sentExit>>

ReturnOk ==
  /\ client = "waiting" /\ remote = "exited" /\ sentExit # NoCode
  /\ client' = "ready" /\ results' = Append(results, sentExit)
  /\ remote' = "idle"
  /\ UNCHANGED <<calls, alive, sentExit>>

ReturnErr ==
  /\ client = "waiting" /\ remote # "idle"
  /\ client' = "ready" /\ results' = Append(results, "Err")
  /\ remote' = "idle"
  /\ UNCHANGED <<calls, alive, sentExit>>

Panic ==
  /\ client = "waiting" /\ remote = "exited" /\ sentExit = NoCode
  /\ client' = "panicked" /\ remote' = "idle"
  /\ UNCHANGED <<calls, results, alive, sentExit>>

Close ==
  /\ client = "ready"
  /\ client' = "closed"
  /\ UNCHANGED <<calls, results, alive, remote, sentExit>>

Next ==
  Connect \/ Begin \/ CommandExits \/ Drop \/ ReturnOk \/ ReturnErr \/ Panic
  \/ Close

Spec == Init /\ [][Next]_vars
=============================================================================
