----------------------------- MODULE SshSession -----------------------------
(***************************************************************************)
(* The russh client wrapper (src/rust/src/nasl/builtin/ssh/russh/          *)
(* session.rs): SshSession::new connects and authenticates, call opens a  *)
(* session channel, executes a command and reads the channel's messages   *)
(* until the channel ends, writing Data to stdout and remembering the     *)
(* ExitStatus; close disconnects.  The remote side is an actor of its own:*)
(* it sends data, an exit status or an exit signal, and closes the        *)
(* channel, or stays silent until the client's 5 s inactivity timeout     *)
(* drops the session.  The channel delivers in order (one SSH connection).*)
(***************************************************************************)
EXTENDS Naturals, Sequences

CONSTANTS
  Chunks,        \* data chunks the remote command may print
  ExitCodes,     \* exit statuses it may end with
  MaxData,       \* data messages per command
  MaxCalls,      \* calls made on one session
  NoCode         \* None of Option<u32>

ASSUME SessionAssumption ==
  /\ MaxData \in Nat /\ MaxCalls \in Nat \ {0}
  /\ NoCode \notin ExitCodes

VARIABLES
  client,    \* "start", "ready", "waiting", "closed", "failed", "panicked"
  calls,     \* calls started on this session
  code,      \* `code` of the running call: the last ExitStatus seen
  written,   \* what the running call wrote to stdout
  results,   \* results of the finished calls, in order
  alive,     \* the SSH connection is up
  remote,    \* the command: "idle", "running", "exited", "closed"
  chan,      \* messages in flight from the remote side to the client
  sentData,  \* data the remote command sent on this channel
  sentExit   \* the exit status it sent, or NoCode

vars == <<client, calls, code, written, results, alive, remote, chan, sentData,
          sentExit>>

Msgs ==
  [type : {"Data"}, data : Chunks] \cup [type : {"ExitStatus"}, status : ExitCodes]
  \cup [type : {"ExitSignal"}]

Init ==
  /\ client = "start" /\ calls = 0 /\ code = NoCode /\ written = <<>>
  /\ results = <<>> /\ alive = TRUE
  /\ remote = "idle" /\ chan = <<>> /\ sentData = <<>> /\ sentExit = NoCode

RemoteVars == <<remote, chan, sentData, sentExit>>

(* s is a prefix of t; the last element of a non-empty sequence.          *)
IsPrefix(s, t) == Len(s) <= Len(t) /\ SubSeq(t, 1, Len(s)) = s
Last(s) == s[Len(s)]

-----------------------------------------------------------------------------
(* Client: SshSession::new.  Loading the key, connecting or authenticating*)
(* may fail, and a rejected key bails with "Authentication failed".       *)
New ==
  /\ client = "start"
  /\ client' \in {"ready", "failed"}
  /\ UNCHANGED <<calls, code, written, results, alive, RemoteVars>>

(* Mutant of CallStart: `code` outlives the call (kept in the session     *)
(* instead of a local of call), so a call sees the previous call's status.*)
CallStartKeepCode ==
  /\ client = "ready" /\ calls < MaxCalls
  /\ calls' = calls + 1
  /\ \/ /\ alive
        /\ client' = "waiting" /\ written' = <<>>
        /\ remote' = "running" /\ chan' = <<>> /\ sentData' = <<>>
        /\ sentExit' = NoCode
        /\ UNCHANGED <<code, results>>
     \/ /\ results' = Append(results, "Err")
        /\ UNCHANGED <<client, code, written, RemoteVars>>
  /\ UNCHANGED alive

(* call: channel_open_session and exec; either may fail with `?`, and the *)
(* call returns Err without reading anything.                             *)
CallStart ==
  /\ client = "ready" /\ calls < MaxCalls
  /\ calls' = calls + 1
  /\ \/ /\ alive
        /\ client' = "waiting" /\ code' = NoCode /\ written' = <<>>
        /\ remote' = "running" /\ chan' = <<>> /\ sentData' = <<>>
        /\ sentExit' = NoCode
        /\ UNCHANGED results
     \/ /\ results' = Append(results, "Err")
        /\ UNCHANGED <<client, code, written, RemoteVars>>
  /\ UNCHANGED alive

(* Mutant of Receive: the loop is left as soon as the exit status comes.  *)
ReceiveBreakOnExit ==
  /\ client = "waiting" /\ chan # <<>>
  /\ LET m == Head(chan) IN
       \/ /\ m.type = "Data"
          /\ written' = written \o <<m.data>> /\ chan' = Tail(chan)
          /\ UNCHANGED <<client, code, results, remote>>
       \/ /\ m.type = "Data"
          /\ client' = "ready" /\ results' = Append(results, "Err")
          /\ remote' = "idle" /\ chan' = <<>>
          /\ UNCHANGED <<code, written>>
       \/ /\ m.type = "ExitStatus"
          /\ client' = "ready" /\ results' = Append(results, m.status)
          /\ remote' = "idle" /\ chan' = <<>>
          /\ UNCHANGED <<code, written>>
       \/ /\ m.type = "ExitSignal"
          /\ chan' = Tail(chan)
          /\ UNCHANGED <<client, code, written, results, remote>>
  /\ UNCHANGED <<calls, alive, sentData, sentExit>>

(* call's loop, one message of channel.wait(): Data is written to stdout  *)
(* and flushed, and a failed write or flush returns Err with `?`,        *)
(* dropping the channel; ExitStatus is kept in `code` and the loop goes   *)
(* on, as more data may follow; any other message is ignored.             *)
Receive ==
  /\ client = "waiting" /\ chan # <<>>
  /\ LET m == Head(chan) IN
       \/ /\ m.type = "Data"
          /\ written' = written \o <<m.data>> /\ chan' = Tail(chan)
          /\ UNCHANGED <<client, code, results, remote>>
       \/ /\ m.type = "Data"
          /\ client' = "ready" /\ results' = Append(results, "Err")
          /\ remote' = "idle" /\ chan' = <<>>
          /\ UNCHANGED <<code, written>>
       \/ /\ m.type = "ExitStatus"
          /\ code' = m.status /\ chan' = Tail(chan)
          /\ UNCHANGED <<client, written, results, remote>>
       \/ /\ m.type = "ExitSignal"
          /\ chan' = Tail(chan)
          /\ UNCHANGED <<client, code, written, results, remote>>
  /\ UNCHANGED <<calls, alive, sentData, sentExit>>

(* Mutant of ChannelEnd: the Option is returned without the expect.       *)
ChannelEndNoExpect ==
  /\ client = "waiting" /\ chan = <<>> /\ remote = "closed"
  /\ client' = "ready" /\ results' = Append(results, code)
  /\ remote' = "idle"
  /\ UNCHANGED <<calls, code, written, alive, chan, sentData, sentExit>>

(* channel.wait() returns None once the channel is closed and drained:    *)
(* the call returns Ok(code), and code.expect panics when no exit status  *)
(* came ("program did not exit cleanly").                                 *)
ChannelEnd ==
  /\ client = "waiting" /\ chan = <<>> /\ remote = "closed"
  /\ \/ /\ code # NoCode
        /\ client' = "ready" /\ results' = Append(results, code)
     \/ /\ code = NoCode
        /\ client' = "panicked"
        /\ UNCHANGED results
  /\ remote' = "idle"
  /\ UNCHANGED <<calls, code, written, alive, chan, sentData, sentExit>>

(* close: disconnect, Ok or Err; the session is finished either way.      *)
Close ==
  /\ client = "ready"
  /\ client' = "closed"
  /\ UNCHANGED <<calls, code, written, results, alive, RemoteVars>>

-----------------------------------------------------------------------------
(* Remote side. The command prints data, also after its exit status.      *)
SendData ==
  /\ remote \in {"running", "exited"} /\ Len(sentData) < MaxData
  /\ \E d \in Chunks :
       /\ chan' = Append(chan, [type |-> "Data", data |-> d])
       /\ sentData' = Append(sentData, d)
  /\ UNCHANGED <<remote, sentExit, client, calls, code, written, results, alive>>

(* The command exits with a status, or is killed by a signal.             *)
Exit ==
  /\ remote = "running"
  /\ remote' = "exited"
  /\ \/ \E s \in ExitCodes :
          /\ chan' = Append(chan, [type |-> "ExitStatus", status |-> s])
          /\ sentExit' = s
     \/ /\ chan' = Append(chan, [type |-> "ExitSignal"])
        /\ UNCHANGED sentExit
  /\ UNCHANGED <<sentData, client, calls, code, written, results, alive>>

(* EOF and close of the channel by the server.                            *)
CloseChannel ==
  /\ remote = "exited"
  /\ remote' = "closed"
  /\ UNCHANGED <<chan, sentData, sentExit, client, calls, code, written,
                 results, alive>>

(* Mutant of InactivityTimeout: no inactivity_timeout is configured.      *)
InactivityTimeoutNone == FALSE

(* client::Config inactivity_timeout (5 s): a session idle that long is   *)
(* dropped: the waiting channel ends as if closed, and later calls fail.  *)
InactivityTimeout ==
  /\ client = "waiting" /\ chan = <<>> /\ remote \in {"running", "exited"}
  /\ remote' = "closed" /\ alive' = FALSE
  /\ UNCHANGED <<chan, sentData, sentExit, client, calls, code, written,
                 results>>

Client == New \/ CallStart \/ Receive \/ ChannelEnd \/ Close

Next ==
  Client \/ SendData \/ Exit \/ CloseChannel \/ InactivityTimeout

(* The client task is scheduled while it can run; the inactivity timer    *)
(* fires once the session stays idle.  The remote side gets no fairness:  *)
(* a command may hang.                                                    *)
Spec ==
  Init /\ [][Next]_vars
  /\ WF_vars(Receive) /\ WF_vars(ChannelEnd) /\ WF_vars(InactivityTimeout)

-----------------------------------------------------------------------------
TypeOK ==
  /\ client \in {"start", "ready", "waiting", "closed", "failed", "panicked"}
  /\ calls \in 0..MaxCalls
  /\ code \in ExitCodes \cup {NoCode}
  /\ written \in Seq(Chunks)
  /\ results \in Seq(ExitCodes \cup {"Err"})
  /\ alive \in BOOLEAN
  /\ remote \in {"idle", "running", "exited", "closed"}
  /\ chan \in Seq(Msgs)
  /\ sentData \in Seq(Chunks)
  /\ sentExit \in ExitCodes \cup {NoCode}

(* A call that returns Ok returns the exit status the command sent, and   *)
(* by then has written every chunk of its output, in order, including     *)
(* what the command printed after its exit status.                        *)
CallResultFaithful ==
  /\ client = "waiting" => IsPrefix(written, sentData)
  /\ (client \in {"ready", "closed"} /\ results # <<>> /\ Last(results) # "Err")
       => Last(results) = sentExit /\ written = sentData

(* A call does not hang: the remote command ending or the inactivity     *)
(* timeout ends the loop, whatever the remote side does.                  *)
CallReturns == [](client = "waiting" => <>(client # "waiting"))

(* The specification (6, 7): a built-in returns a value or an error to    *)
(* the interpreter; the call never panics.                                *)
NeverPanics == client # "panicked"

(* The refinement: hiding the channel, the output and the `code` local,   *)
(* the session implements SshCall; a channel closed by the server counts  *)
(* as an exited command.                                                   *)
Abstract == INSTANCE SshCall
  WITH remote <- IF remote = "closed" THEN "exited" ELSE remote

(* Every behaviour of the session is one of SshCall: an Ok call returns   *)
(* the status its own command sent, and call panics only when the command *)
(* sent none.                                                              *)
ImplementsSshCall == Abstract!Spec
=============================================================================
