-------------------------- MODULE SshSessionProofs --------------------------
(***************************************************************************)
(* Proofs about SshSession for every value of the constants: the type     *)
(* invariant, and that the session implements SshCall under the mapping  *)
(* of SshSession!Abstract.                                                 *)
(***************************************************************************)
EXTENDS SshSession, TLAPS

(* While a call waits the command is running, exited or closed, and the   *)
(* command only runs while a call waits.                                  *)
ClientRemote == (remote # "idle") <=> (client = "waiting")

(* An ExitStatus message, and one at place i of the channel.            *)
IsStatus(m) == m.type = "ExitStatus"
HasStatus(i) == IsStatus(chan[i])

(* While a call waits, the exit status the command sent is in `code` or   *)
(* still in the channel, every status in the channel is that one, and a  *)
(* running command has sent none.                                          *)
ExitTracked ==
  client = "waiting" =>
    /\ code \in {NoCode, sentExit}
    /\ \A i \in 1..Len(chan) : HasStatus(i) => chan[i].status = sentExit
    /\ sentExit # NoCode => code # NoCode \/ \E i \in 1..Len(chan) : HasStatus(i)
    /\ remote = "running" =>
         /\ sentExit = NoCode /\ code = NoCode
         /\ \A i \in 1..Len(chan) : ~HasStatus(i)

Inv == TypeOK /\ ClientRemote /\ ExitTracked

-----------------------------------------------------------------------------
(* The initial state satisfies the invariant.                              *)
LEMMA InitInv == Init => Inv
  BY SessionAssumption DEF Init, Inv, TypeOK, ClientRemote, ExitTracked

(* Dropping the head of a channel keeps its messages, shifted by one:    *)
(* an ExitStatus in it is the head's or one of the tail's.                *)
LEMMA TailStatus ==
  ASSUME NEW q \in Seq(Msgs), q # <<>>
  PROVE  /\ Len(Tail(q)) = Len(q) - 1
         /\ \A i \in 1..Len(Tail(q)) : Tail(q)[i] = q[i + 1]
         /\ (\E i \in 1..Len(q) : IsStatus(q[i]))
              => IsStatus(q[1]) \/ \E i \in 1..Len(Tail(q)) : IsStatus(Tail(q)[i])
  <1>1. Len(Tail(q)) = Len(q) - 1 /\ \A i \in 1..Len(Tail(q)) : Tail(q)[i] = q[i + 1]
    OBVIOUS
  <1>2. ASSUME NEW i \in 1..Len(q), IsStatus(q[i]), ~IsStatus(q[1])
        PROVE  \E j \in 1..Len(Tail(q)) : IsStatus(Tail(q)[j])
    <2>1. i # 1 /\ i - 1 \in 1..Len(Tail(q))
      BY <1>2, <1>1
    <2>2. QED
      BY <2>1, <1>1, <1>2
  <1>3. QED
    BY <1>1, <1>2

(* Appending a message keeps the old ones at their places.                *)
LEMMA AppendAt ==
  ASSUME NEW q \in Seq(Msgs), NEW m \in Msgs
  PROVE  /\ Len(Append(q, m)) = Len(q) + 1
         /\ \A i \in 1..Len(q) : Append(q, m)[i] = q[i]
         /\ Append(q, m)[Len(q) + 1] = m
  OBVIOUS

(* Every step, or stutter, of the session preserves the invariant.       *)
LEMMA InvStep == Inv /\ [Next]_vars => Inv'
  <1> USE SessionAssumption DEF Inv, TypeOK, ClientRemote, ExitTracked,
          HasStatus, IsStatus
  <1> SUFFICES ASSUME Inv, [Next]_vars PROVE Inv'
    OBVIOUS
  <1>0. alive' \in BOOLEAN
    BY Zenon DEF Next, Client, New, CallStart, Receive, ChannelEnd, Close,
                 SendData, Exit, CloseChannel, InactivityTimeout, vars,
                 RemoteVars
  <1>1. CASE New
    BY <1>0, <1>1 DEF New, RemoteVars
  <1>2. CASE CallStart
    <2>1. CASE /\ alive
               /\ client' = "waiting" /\ code' = NoCode /\ written' = <<>>
               /\ remote' = "running" /\ chan' = <<>> /\ sentData' = <<>>
               /\ sentExit' = NoCode
               /\ UNCHANGED results
      BY <1>0, <1>2, <2>1 DEF CallStart
    <2>2. CASE /\ results' = Append(results, "Err")
               /\ UNCHANGED <<client, code, written, RemoteVars>>
      BY <1>0, <1>2, <2>2 DEF CallStart, RemoteVars
    <2>3. QED
      BY <1>2, <2>1, <2>2 DEF CallStart
  <1>3. CASE Receive
    <2> DEFINE m == Head(chan)
    <2>1. chan \in Seq(Msgs) /\ chan # <<>> /\ client = "waiting"
      BY <1>3 DEF Receive
    <2>2. m = chan[1] /\ m \in Msgs
      BY <2>1
    <2>3. CASE /\ m.type = "Data"
               /\ written' = written \o <<m.data>> /\ chan' = Tail(chan)
               /\ UNCHANGED <<client, code, results, remote>>
               /\ UNCHANGED <<calls, alive, sentData, sentExit>>
      <3>1. m.data \in Chunks
        BY <2>2, <2>3 DEF Msgs
      <3>2. ~IsStatus(chan[1])
        BY <2>2, <2>3
      <3>3. TypeOK'
        BY <1>0, <2>1, <2>3, <3>1, TailStatus
      <3>4. ExitTracked'
        <4>1. /\ \A i \in 1..Len(chan') : chan'[i] = chan[i + 1]
              /\ (\E i \in 1..Len(chan) : IsStatus(chan[i]))
                   => IsStatus(chan[1]) \/ \E i \in 1..Len(chan') : IsStatus(chan'[i])
          BY <2>1, <2>3, TailStatus, SMTT(20)
        <4>2. \A i \in 1..Len(chan') : i + 1 \in 1..Len(chan)
          BY <2>1, <2>3, TailStatus
        <4>3. QED
          BY <2>1, <2>3, <3>2, <4>1, <4>2
      <3>5. QED
        BY <2>1, <2>3, <3>3, <3>4
    <2>4. CASE /\ m.type = "Data"
               /\ client' = "ready" /\ results' = Append(results, "Err")
               /\ remote' = "idle" /\ chan' = <<>>
               /\ UNCHANGED <<code, written>>
               /\ UNCHANGED <<calls, alive, sentData, sentExit>>
      BY <2>1, <2>4
    <2>5. CASE /\ m.type = "ExitStatus"
               /\ code' = m.status /\ chan' = Tail(chan)
               /\ UNCHANGED <<client, written, results, remote>>
               /\ UNCHANGED <<calls, alive, sentData, sentExit>>
      <3>1. m.status = sentExit /\ m.status \in ExitCodes
        BY <2>1, <2>2, <2>5 DEF Msgs
      <3>2. remote # "running"
        BY <2>1, <2>2, <2>5
      <3>3. QED
        BY <2>1, <2>5, <3>1, <3>2, TailStatus
    <2>6. CASE /\ m.type = "ExitSignal"
               /\ chan' = Tail(chan)
               /\ UNCHANGED <<client, code, written, results, remote>>
               /\ UNCHANGED <<calls, alive, sentData, sentExit>>
      <3>1. ~IsStatus(chan[1])
        BY <2>2, <2>6
      <3>2. QED
        BY <2>1, <2>6, <3>1, TailStatus
    <2>7. QED
      BY <1>3, <2>3, <2>4, <2>5, <2>6 DEF Receive
  <1>4. CASE ChannelEnd
    <2>1. client' # "waiting" /\ remote' = "idle"
      BY <1>4 DEF ChannelEnd
    <2>2. results' \in Seq(ExitCodes \cup {"Err"})
      BY <1>4, SMTT(20) DEF ChannelEnd
    <2>3. QED
      BY <1>0, <1>4, <2>1, <2>2 DEF ChannelEnd
  <1>5. CASE Close
    BY <1>0, <1>5 DEF Close, RemoteVars
  <1>6. CASE SendData
    <2>1. PICK d \in Chunks :
            /\ chan' = Append(chan, [type |-> "Data", data |-> d])
            /\ sentData' = Append(sentData, d)
      BY <1>6 DEF SendData
    <2>2. [type |-> "Data", data |-> d] \in Msgs
      BY DEF Msgs
    <2>3. client = "waiting"
      BY <1>6 DEF SendData
    <2>4. QED
      BY <1>0, <1>6, <2>1, <2>2, <2>3, AppendAt DEF SendData
  <1>7. CASE Exit
    <2>1. client = "waiting" /\ remote = "running"
      BY <1>7 DEF Exit
    <2>2. CASE \E s \in ExitCodes :
                 /\ chan' = Append(chan, [type |-> "ExitStatus", status |-> s])
                 /\ sentExit' = s
      <3>1. PICK s \in ExitCodes :
                 /\ chan' = Append(chan, [type |-> "ExitStatus", status |-> s])
                 /\ sentExit' = s
        BY <2>2
      <3>2. [type |-> "ExitStatus", status |-> s] \in Msgs
        BY DEF Msgs
      <3>3. QED
        BY <1>0, <1>7, <2>1, <3>1, <3>2, AppendAt DEF Exit
    <2>3. CASE /\ chan' = Append(chan, [type |-> "ExitSignal"])
               /\ UNCHANGED sentExit
      <3>1. [type |-> "ExitSignal"] \in Msgs
        BY DEF Msgs
      <3>2. QED
        BY <1>0, <1>7, <2>1, <2>3, <3>1, AppendAt DEF Exit
    <2>4. QED
      BY <1>7, <2>2, <2>3 DEF Exit
  <1>8. CASE CloseChannel
    BY <1>0, <1>8 DEF CloseChannel
  <1>9. CASE InactivityTimeout
    BY <1>0, <1>9 DEF InactivityTimeout
  <1>10. CASE UNCHANGED vars
    BY <1>10 DEF vars
  <1>11. QED
    BY <1>1, <1>2, <1>3, <1>4, <1>5, <1>6, <1>7, <1>8, <1>9, <1>10
       DEF Next, Client

(* The type invariant holds in every reachable state of the session.     *)
THEOREM SessionTypeCorrect == Spec => []TypeOK
  <1>1. Inv => TypeOK
    BY DEF Inv
  <1>2. QED
    BY <1>1, InitInv, InvStep, PTL DEF Spec

-----------------------------------------------------------------------------
(* Each step of the session is a step of SshCall or leaves its variables  *)
(* unchanged: the channel, the output and `code` are hidden.              *)
LEMMA AbstractStep == Inv /\ [Next]_vars => [Abstract!Next]_Abstract!vars
  <1> USE SessionAssumption DEF Inv, TypeOK, ClientRemote, ExitTracked,
          HasStatus, IsStatus, Abstract!Next, Abstract!vars
  <1> SUFFICES ASSUME Inv, [Next]_vars PROVE [Abstract!Next]_Abstract!vars
    OBVIOUS
  <1>1. CASE New
    BY <1>1 DEF New, RemoteVars, Abstract!Connect
  <1>2. CASE CallStart
    BY <1>2 DEF CallStart, RemoteVars, Abstract!Begin
  <1>3. CASE Receive
    <2> DEFINE m == Head(chan)
    <2>1. chan \in Seq(Msgs) /\ chan # <<>> /\ client = "waiting"
                             /\ remote # "idle"
      BY <1>3 DEF Receive
    <2>2. CASE /\ m.type = "Data"
               /\ client' = "ready" /\ results' = Append(results, "Err")
               /\ remote' = "idle" /\ chan' = <<>>
               /\ UNCHANGED <<code, written>>
               /\ UNCHANGED <<calls, alive, sentData, sentExit>>
      BY <2>1, <2>2 DEF Abstract!ReturnErr
    <2>3. CASE UNCHANGED <<client, results, remote, calls, alive, sentExit>>
      BY <2>3
    <2>4. QED
      BY <1>3, <2>2, <2>3 DEF Receive
  <1>4. CASE ChannelEnd
    <2>1. client = "waiting" /\ chan = <<>> /\ remote = "closed"
      BY <1>4 DEF ChannelEnd
    <2>2. CASE code # NoCode
      <3>1. code = sentExit /\ sentExit # NoCode
        BY <2>1, <2>2
      <3>2. QED
        BY <1>4, <2>1, <2>2, <3>1 DEF ChannelEnd, Abstract!ReturnOk
    <2>3. CASE code = NoCode
      <3>1. sentExit = NoCode
        BY <2>1, <2>3
      <3>2. QED
        BY <1>4, <2>1, <2>3, <3>1 DEF ChannelEnd, Abstract!Panic
    <2>4. QED
      BY <2>2, <2>3
  <1>5. CASE Close
    BY <1>5 DEF Close, RemoteVars, Abstract!Close
  <1>6. CASE SendData
    BY <1>6 DEF SendData
  <1>7. CASE Exit
    BY <1>7 DEF Exit, Abstract!CommandExits
  <1>8. CASE CloseChannel
    BY <1>8 DEF CloseChannel
  <1>9. CASE InactivityTimeout
    BY <1>9 DEF InactivityTimeout, Abstract!Drop
  <1>10. CASE UNCHANGED vars
    BY <1>10 DEF vars
  <1>11. QED
    BY <1>1, <1>2, <1>3, <1>4, <1>5, <1>6, <1>7, <1>8, <1>9, <1>10
       DEF Next, Client

(* The session implements SshCall: an Ok call returns the status its own  *)
(* command sent, and call panics only when the command sent none.         *)
THEOREM Refinement == Spec => ImplementsSshCall
  <1>1. Init => Abstract!Init
    BY DEF Init, Abstract!Init
  <1>2. QED
    BY <1>1, InitInv, InvStep, AbstractStep, PTL
       DEF Spec, ImplementsSshCall, Abstract!Spec

-----------------------------------------------------------------------------
(* f places the chunks the command sent beyond what the call wrote in the *)
(* channel q: in order, on exactly the Data messages, each carrying the   *)
(* chunk it stands for.                                                    *)
DataMapOf(q, w, sd, f) ==
  /\ f \in [1..(Len(sd) - Len(w)) -> 1..Len(q)]
  /\ \A j, k \in 1..(Len(sd) - Len(w)) : j < k => f[j] < f[k]
  /\ \A i \in 1..Len(q) :
       q[i].type = "Data" => \E j \in 1..(Len(sd) - Len(w)) : f[j] = i
  /\ \A j \in 1..(Len(sd) - Len(w)) :
       q[f[j]].type = "Data" /\ q[f[j]].data = sd[Len(w) + j]

(* While a call waits, what it wrote is a prefix of what the command sent *)
(* and the rest is in the channel, in order; once it returned Ok, it has  *)
(* written everything and returned the status sent.                        *)
WaitData ==
  client = "waiting" =>
    /\ Len(written) <= Len(sentData)
    /\ written = SubSeq(sentData, 1, Len(written))
    /\ \E f \in [1..(Len(sentData) - Len(written)) -> 1..Len(chan)] :
         DataMapOf(chan, written, sentData, f)

OkComplete ==
  (client \in {"ready", "closed"} /\ results # <<>> /\ Last(results) # "Err")
    => Last(results) = sentExit /\ written = sentData

(* No call has returned before the session is set up.                     *)
StartClean == client = "start" => results = <<>>

DataTracked == WaitData /\ OkComplete /\ StartClean

OInv == Inv /\ DataTracked

(* Dropping a message other than Data from the head of the channel shifts *)
(* the places of the owed chunks by one.                                   *)
LEMMA DropOther ==
  ASSUME NEW q \in Seq(Msgs), NEW w \in Seq(Chunks), NEW sd \in Seq(Chunks),
         NEW f, q # <<>>, q[1].type # "Data", DataMapOf(q, w, sd, f)
  PROVE  DataMapOf(Tail(q), w, sd, [j \in 1..(Len(sd) - Len(w)) |-> f[j] - 1])
  <1> DEFINE P == Len(sd) - Len(w)
             g == [j \in 1..P |-> f[j] - 1]
             t == Tail(q)
  <1>0. Len(t) = Len(q) - 1 /\ \A i \in 1..Len(t) : t[i] = q[i + 1]
    OBVIOUS
  <1>1. ASSUME NEW j \in 1..P PROVE f[j] \in 2..Len(q) /\ t[g[j]] = q[f[j]]
    <2>1. f[j] \in 1..Len(q) /\ q[f[j]].type = "Data"
      BY DEF DataMapOf
    <2>2. f[j] # 1
      BY <2>1
    <2>3. QED
      BY <2>1, <2>2, <1>0
  <1>2. g \in [1..P -> 1..Len(t)]
    BY <1>0, <1>1
  <1>3. ASSUME NEW j \in 1..P, NEW k \in 1..P, j < k PROVE g[j] < g[k]
    <2>1. f[j] < f[k]
      BY <1>3 DEF DataMapOf
    <2>2. QED
      BY <2>1, <1>1
  <1>4. ASSUME NEW i \in 1..Len(t), t[i].type = "Data"
        PROVE  \E j \in 1..P : g[j] = i
    <2>1. i + 1 \in 1..Len(q) /\ q[i + 1].type = "Data"
      BY <1>0, <1>4
    <2>2. PICK j \in 1..P : f[j] = i + 1
      BY <2>1 DEF DataMapOf
    <2>3. g[j] = i
      BY <2>2, <1>1
    <2>4. QED
      BY <2>3
  <1>5. ASSUME NEW j \in 1..P
        PROVE  t[g[j]].type = "Data" /\ t[g[j]].data = sd[Len(w) + j]
    <2>1. q[f[j]].type = "Data" /\ q[f[j]].data = sd[Len(w) + j]
      BY DEF DataMapOf
    <2>2. QED
      BY <2>1, <1>1
  <1>6. QED
    BY <1>2, <1>3, <1>4, <1>5 DEF DataMapOf

(* Writing the Data message at the head of the channel: it carries the   *)
(* next owed chunk, and the others stay in place, shifted by one.         *)
LEMMA DropData ==
  ASSUME NEW q \in Seq(Msgs), NEW w \in Seq(Chunks), NEW sd \in Seq(Chunks),
         NEW f, q # <<>>, q[1].type = "Data", DataMapOf(q, w, sd, f),
         Len(w) <= Len(sd), w = SubSeq(sd, 1, Len(w))
  PROVE  /\ Len(w) + 1 <= Len(sd)
         /\ q[1].data = sd[Len(w) + 1]
         /\ w \o <<q[1].data>> = SubSeq(sd, 1, Len(w) + 1)
         /\ DataMapOf(Tail(q), w \o <<q[1].data>>, sd,
                      [j \in 1..(Len(sd) - Len(w) - 1) |-> f[j + 1] - 1])
  <1> DEFINE P == Len(sd) - Len(w)
             w2 == w \o <<q[1].data>>
             g == [j \in 1..(P - 1) |-> f[j + 1] - 1]
             t == Tail(q)
  <1>0. Len(t) = Len(q) - 1 /\ \A i \in 1..Len(t) : t[i] = q[i + 1]
    OBVIOUS
  <1>1. PICK j0 \in 1..P : f[j0] = 1
    BY DEF DataMapOf
  <1>2. f[1] = 1 /\ 1 <= P
    <2>1. 1 \in 1..P
      BY <1>1
    <2>2. ~(1 < j0)
      BY <1>1, <2>1 DEF DataMapOf
    <2>3. QED
      BY <1>1, <2>1, <2>2
  <1>3. q[1].data = sd[Len(w) + 1] /\ q[1].data \in Chunks
    <2>1. q[f[1]].data = sd[Len(w) + 1]
      BY <1>2 DEF DataMapOf
    <2>2. QED
      BY <2>1, <1>2
  <1>4. w2 = SubSeq(sd, 1, Len(w) + 1)
    BY <1>2, <1>3
  <1>5. Len(w2) = Len(w) + 1 /\ Len(sd) - Len(w2) = P - 1
    BY <1>3
  <1>6. ASSUME NEW j \in 1..(P - 1)
        PROVE  f[j + 1] \in 2..Len(q) /\ t[g[j]] = q[f[j + 1]]
    <2>0. j + 1 \in 1..P /\ 1 \in 1..P /\ 1 < j + 1
      BY <1>2
    <2>1. f[j + 1] \in 1..Len(q) /\ f[1] < f[j + 1]
      <3>1. f \in [1..P -> 1..Len(q)]
        BY DEF DataMapOf
      <3>2. \A a, b \in 1..P : a < b => f[a] < f[b]
        BY DEF DataMapOf
      <3>3. QED
        BY <2>0, <3>1, <3>2
    <2>2. QED
      BY <2>1, <1>0, <1>2
  <1>7. g \in [1..(P - 1) -> 1..Len(t)]
    <2>1. \A j \in 1..(P - 1) : g[j] \in 1..Len(t)
      BY <1>0, <1>6
    <2>2. QED
      BY <2>1
  <1>8. ASSUME NEW j \in 1..(P - 1), NEW k \in 1..(P - 1), j < k
        PROVE  g[j] < g[k]
    <2>1. f[j + 1] < f[k + 1]
      BY <1>8 DEF DataMapOf
    <2>2. QED
      BY <2>1, <1>6
  <1>9. ASSUME NEW i \in 1..Len(t), t[i].type = "Data"
        PROVE  \E j \in 1..(P - 1) : g[j] = i
    <2>1. i + 1 \in 1..Len(q) /\ q[i + 1].type = "Data"
      BY <1>0, <1>9
    <2>2. PICK j \in 1..P : f[j] = i + 1
      BY <2>1 DEF DataMapOf
    <2>3. j # 1 /\ j - 1 \in 1..(P - 1)
      BY <2>2, <1>2
    <2>4. g[j - 1] = f[(j - 1) + 1] - 1
      BY <2>3
    <2>5. (j - 1) + 1 = j /\ f[j] - 1 = i
      BY <2>2
    <2>6. g[j - 1] = i
      BY <2>4, <2>5
    <2>7. QED
      BY <2>3, <2>6, Zenon
  <1>10. ASSUME NEW j \in 1..(P - 1)
         PROVE  t[g[j]].type = "Data" /\ t[g[j]].data = sd[Len(w2) + j]
    <2>1. q[f[j + 1]].type = "Data" /\ q[f[j + 1]].data = sd[Len(w) + (j + 1)]
      BY DEF DataMapOf
    <2>2. QED
      BY <2>1, <1>5, <1>6
  <1>11. DataMapOf(t, w2, sd, g)
    BY <1>5, <1>7, <1>8, <1>9, <1>10 DEF DataMapOf
  <1>12. QED
    BY <1>2, <1>3, <1>4, <1>11

(* What DataMapOf says of one owed chunk, of two, and of one message.     *)
LEMMA DMAt ==
  ASSUME NEW q, NEW w, NEW sd, NEW f, DataMapOf(q, w, sd, f),
         NEW j \in 1..(Len(sd) - Len(w))
  PROVE  /\ f[j] \in 1..Len(q)
         /\ q[f[j]].type = "Data" /\ q[f[j]].data = sd[Len(w) + j]
  BY DEF DataMapOf

LEMMA DMOrder ==
  ASSUME NEW q, NEW w, NEW sd, NEW f, DataMapOf(q, w, sd, f),
         NEW j \in 1..(Len(sd) - Len(w)), NEW k \in 1..(Len(sd) - Len(w)), j < k
  PROVE  f[j] < f[k]
  BY DEF DataMapOf

LEMMA DMOnto ==
  ASSUME NEW q, NEW w, NEW sd, NEW f, DataMapOf(q, w, sd, f),
         NEW i \in 1..Len(q), q[i].type = "Data"
  PROVE  \E j \in 1..(Len(sd) - Len(w)) : f[j] = i
  BY DEF DataMapOf

(* Appending a message other than Data to the channel keeps every owed    *)
(* chunk where it is.                                                      *)
LEMMA AppendOther ==
  ASSUME NEW q \in Seq(Msgs), NEW w \in Seq(Chunks), NEW sd \in Seq(Chunks),
         NEW f, NEW m \in Msgs, m.type # "Data", DataMapOf(q, w, sd, f)
  PROVE  DataMapOf(Append(q, m), w, sd, f)
  <1> DEFINE P == Len(sd) - Len(w)
             a == Append(q, m)
  <1>0. Len(a) = Len(q) + 1 /\ \A i \in 1..Len(q) : a[i] = q[i]
        /\ a[Len(q) + 1] = m
    OBVIOUS
  <1>1. ASSUME NEW j \in 1..P
        PROVE  f[j] \in 1..Len(a) /\ a[f[j]].type = "Data"
               /\ a[f[j]].data = sd[Len(w) + j]
    <2>1. j \in 1..(Len(sd) - Len(w))
      BY DEF P
    <2>2. f[j] \in 1..Len(q) /\ q[f[j]].type = "Data"
          /\ q[f[j]].data = sd[Len(w) + j]
      BY <2>1, DMAt
    <2>3. a[f[j]] = q[f[j]] /\ f[j] \in 1..Len(a)
      BY <1>0, <2>2
    <2>4. QED
      BY <2>2, <2>3
  <1>2. f \in [1..P -> 1..Len(a)]
    <2>1. f \in [1..P -> 1..Len(q)]
      BY DEF DataMapOf
    <2>2. QED
      BY <2>1, <1>1
  <1>3. ASSUME NEW i \in 1..Len(a), a[i].type = "Data"
        PROVE  \E j \in 1..P : f[j] = i
    <2>1. i \in 1..Len(q) /\ q[i].type = "Data"
      BY <1>0, <1>3
    <2>2. QED
      BY <2>1, DMOnto
  <1>4. \A j, k \in 1..P : j < k => f[j] < f[k]
    BY DMOrder
  <1>5. QED
    BY <1>1, <1>2, <1>3, <1>4 DEF DataMapOf

(* The command printing a chunk: it is owed last, at the new end of the   *)
(* channel.                                                                *)
LEMMA AppendData ==
  ASSUME NEW q \in Seq(Msgs), NEW w \in Seq(Chunks), NEW sd \in Seq(Chunks),
         NEW f, NEW d \in Chunks, NEW m \in Msgs, m.type = "Data", m.data = d,
         Len(w) <= Len(sd), DataMapOf(q, w, sd, f)
  PROVE  DataMapOf(Append(q, m), w, Append(sd, d),
                   [j \in 1..(Len(sd) - Len(w) + 1) |->
                      IF j <= Len(sd) - Len(w) THEN f[j] ELSE Len(q) + 1])
  <1> DEFINE P == Len(sd) - Len(w)
             a == Append(q, m)
             sa == Append(sd, d)
             g == [j \in 1..(P + 1) |-> IF j <= P THEN f[j] ELSE Len(q) + 1]
  <1>0. /\ P \in Nat
        /\ Len(a) = Len(q) + 1 /\ \A i \in 1..Len(q) : a[i] = q[i]
        /\ a[Len(q) + 1] = m
        /\ Len(sa) = Len(sd) + 1 /\ \A i \in 1..Len(sd) : sa[i] = sd[i]
        /\ sa[Len(sd) + 1] = d
        /\ Len(sa) - Len(w) = P + 1
    OBVIOUS
  <1>1. ASSUME NEW j \in 1..(P + 1)
        PROVE  /\ j <= P => /\ g[j] = f[j] /\ f[j] \in 1..Len(q)
                            /\ a[f[j]] = q[f[j]] /\ sa[Len(w) + j] = sd[Len(w) + j]
               /\ j = P + 1 => g[j] = Len(q) + 1
    <2>1. CASE j <= P
      <3>1. j \in 1..P
        BY <2>1
      <3>2. f[j] \in 1..Len(q)
        BY <3>1, DMAt
      <3>3. Len(w) + j \in 1..Len(sd)
        BY <3>1
      <3>4. QED
        BY <2>1, <3>2, <3>3, <1>0
    <2>2. CASE j = P + 1
      BY <2>2, <1>0
    <2>3. QED
      BY <2>1, <2>2
  <1>2. g \in [1..(P + 1) -> 1..Len(a)]
    BY <1>0, <1>1
  <1>3. ASSUME NEW j \in 1..(P + 1), NEW k \in 1..(P + 1), j < k
        PROVE  g[j] < g[k]
    <2>1. j \in 1..P /\ j <= P
      BY <1>3
    <2>2. CASE k <= P
      <3>1. f[j] < f[k]
        BY <1>3, <2>1, <2>2, DMOrder
      <3>2. QED
        BY <3>1, <1>1, <2>1, <2>2
    <2>3. CASE k = P + 1
      BY <1>1, <2>1, <2>3
    <2>4. QED
      BY <2>2, <2>3, <1>3, SMTT(20)
  <1>4. ASSUME NEW i \in 1..Len(a), a[i].type = "Data"
        PROVE  \E j \in 1..(P + 1) : g[j] = i
    <2>1. CASE i = Len(q) + 1
      <3>0. P + 1 \in 1..(P + 1)
        BY <1>0
      <3>1. g[P + 1] = i
        BY <1>0, <1>1, <2>1
      <3>2. QED
        BY <3>0, <3>1, Zenon
    <2>2. CASE i \in 1..Len(q)
      <3>1. q[i].type = "Data"
        BY <1>0, <1>4, <2>2
      <3>2. PICK j \in 1..P : f[j] = i
        BY <2>2, <3>1, DMOnto
      <3>3. g[j] = i
        BY <3>2, <1>1
      <3>4. QED
        BY <3>3
    <2>3. QED
      BY <1>0, <2>1, <2>2
  <1>5. ASSUME NEW j \in 1..(P + 1)
        PROVE  a[g[j]].type = "Data" /\ a[g[j]].data = sa[Len(w) + j]
    <2>0. j <= P \/ j = P + 1
      BY <1>0
    <2>1. CASE j <= P
      <3>1. j \in 1..P
        BY <2>1
      <3>2. q[f[j]].type = "Data" /\ q[f[j]].data = sd[Len(w) + j]
        BY <3>1, DMAt
      <3>3. QED
        BY <3>2, <1>1, <2>1
    <2>2. CASE j = P + 1
      <3>1. g[j] = Len(q) + 1 /\ sa[Len(w) + j] = d
        BY <1>0, <1>1, <2>2
      <3>2. QED
        BY <3>1, <1>0
    <2>3. QED
      BY <2>0, <2>1, <2>2, Zenon
  <1>6. QED
    BY <1>0, <1>2, <1>3, <1>4, <1>5 DEF DataMapOf

(* An empty channel owes nothing: a prefix of the sent data that is as   *)
(* long as it is the whole of it.                                          *)
LEMMA EmptyChanOwesNothing ==
  ASSUME NEW w \in Seq(Chunks), NEW sd \in Seq(Chunks), NEW f,
         DataMapOf(<<>>, w, sd, f), Len(w) <= Len(sd),
         w = SubSeq(sd, 1, Len(w))
  PROVE  w = sd
  <1>1. Len(sd) - Len(w) = 0
    <2>1. f \in [1..(Len(sd) - Len(w)) -> 1..0]
      BY DEF DataMapOf
    <2>2. ~(1 \in 1..(Len(sd) - Len(w)))
      BY <2>1
    <2>3. QED
      BY <2>2
  <1>2. QED
    BY <1>1

(* Every step, or stutter, of the session preserves DataTracked.          *)
LEMMA DataStep == OInv /\ [Next]_vars => DataTracked'
  <1> SUFFICES ASSUME Inv, DataTracked, [Next]_vars PROVE DataTracked'
    BY DEF OInv
  <1> USE SessionAssumption DEF Inv, TypeOK, DataTracked
  <1>1. CASE New
    BY <1>1 DEF New, RemoteVars, WaitData, OkComplete, StartClean
  <1>2. CASE CallStart
    <2>1. CASE /\ alive
               /\ client' = "waiting" /\ code' = NoCode /\ written' = <<>>
               /\ remote' = "running" /\ chan' = <<>> /\ sentData' = <<>>
               /\ sentExit' = NoCode
               /\ UNCHANGED results
      <3>1. DataMapOf(<<>>, <<>>, <<>>, [j \in 1..0 |-> 1])
        BY DEF DataMapOf
      <3>2. Len(written') <= Len(sentData')
            /\ written' = SubSeq(sentData', 1, Len(written'))
        BY <2>1
      <3>3. \E f \in [1..(Len(sentData') - Len(written')) -> 1..Len(chan')] :
               DataMapOf(chan', written', sentData', f)
        <4>1. [j \in 1..0 |-> 1] \in [1..(Len(sentData') - Len(written')) -> 1..Len(chan')]
          BY <2>1
        <4>2. DataMapOf(chan', written', sentData', [j \in 1..0 |-> 1])
          BY <2>1, <3>1
        <4>3. QED
          BY <4>1, <4>2
      <3>4. WaitData'
        BY <3>2, <3>3 DEF WaitData
      <3>5. QED
        BY <2>1, <3>4 DEF OkComplete, StartClean
    <2>2. CASE /\ results' = Append(results, "Err")
               /\ UNCHANGED <<client, code, written, RemoteVars>>
      BY <1>2, <2>2 DEF CallStart, WaitData, OkComplete, StartClean, Last
    <2>3. QED
      BY <1>2, <2>1, <2>2 DEF CallStart
  <1>3. CASE Receive
    <2> DEFINE m == Head(chan)
    <2>1. chan \in Seq(Msgs) /\ chan # <<>> /\ client = "waiting"
      BY <1>3 DEF Receive
    <2>2. PICK f \in [1..(Len(sentData) - Len(written)) -> 1..Len(chan)] :
                 DataMapOf(chan, written, sentData, f)
      BY <2>1 DEF WaitData
    <2>3. m = chan[1]
      BY <2>1
    <2>4. CASE /\ m.type = "Data"
               /\ written' = written \o <<m.data>> /\ chan' = Tail(chan)
               /\ UNCHANGED <<client, code, results, remote>>
               /\ UNCHANGED <<calls, alive, sentData, sentExit>>
      <3>1. /\ Len(written) <= Len(sentData)
            /\ written = SubSeq(sentData, 1, Len(written))
        BY <2>1 DEF WaitData
      <3> DEFINE g == [j \in 1..(Len(sentData) - Len(written) - 1) |-> f[j + 1] - 1]
      <3>2. /\ Len(written) + 1 <= Len(sentData)
            /\ written \o <<chan[1].data>> = SubSeq(sentData, 1, Len(written) + 1)
            /\ DataMapOf(Tail(chan), written \o <<chan[1].data>>, sentData,
                         [j \in 1..(Len(sentData) - Len(written) - 1) |-> f[j + 1] - 1])
        <4>1. chan[1].type = "Data" /\ written \in Seq(Chunks)
              /\ sentData \in Seq(Chunks)
          BY <2>3, <2>4
        <4>2. chan \in Seq(Msgs) /\ chan # <<>>
              /\ DataMapOf(chan, written, sentData, f)
          BY <2>1, <2>2
        <4>3. QED
          BY ONLY <3>1, <4>1, <4>2, DropData, Zenon
      <3>7. written' = written \o <<chan[1].data>> /\ chan' = Tail(chan)
            /\ sentData' = sentData
        BY <2>3, <2>4
      <3>3. Len(written') = Len(written) + 1
        BY <3>2, <3>7
      <3>4. g \in [1..(Len(sentData') - Len(written')) -> 1..Len(chan')]
        BY <3>2, <3>3, <3>7 DEF DataMapOf
      <3>5. WaitData'
        BY <3>2, <3>3, <3>4, <3>7, <2>4 DEF WaitData
      <3>6. QED
        BY <2>1, <2>4, <3>5 DEF OkComplete, StartClean
    <2>5. CASE /\ m.type = "Data"
               /\ client' = "ready" /\ results' = Append(results, "Err")
               /\ remote' = "idle" /\ chan' = <<>>
               /\ UNCHANGED <<code, written>>
               /\ UNCHANGED <<calls, alive, sentData, sentExit>>
      BY <2>5 DEF WaitData, OkComplete, StartClean, Last
    <2>6. CASE /\ m.type # "Data"
               /\ chan' = Tail(chan)
               /\ UNCHANGED <<client, written, results, sentData, sentExit>>
      <3> DEFINE g == [j \in 1..(Len(sentData) - Len(written)) |-> f[j] - 1]
      <3>1. DataMapOf(chan', written', sentData', g)
        BY <2>1, <2>2, <2>3, <2>6, DropOther
      <3>2. g \in [1..(Len(sentData') - Len(written')) -> 1..Len(chan')]
        BY <3>1 DEF DataMapOf
      <3>3. WaitData'
        BY <2>1, <2>6, <3>1, <3>2 DEF WaitData
      <3>4. QED
        BY <2>1, <2>6, <3>3 DEF OkComplete, StartClean
    <2>7. QED
      BY <1>3, <2>4, <2>5, <2>6 DEF Receive
  <1>4. CASE ChannelEnd
    <2>1. client = "waiting" /\ chan = <<>>
      BY <1>4 DEF ChannelEnd
    <2>2. written = sentData
      <3>1. PICK f \in [1..(Len(sentData) - Len(written)) -> 1..Len(chan)] :
                   DataMapOf(chan, written, sentData, f)
        BY <2>1 DEF WaitData
      <3>2. QED
        BY <2>1, <3>1, EmptyChanOwesNothing DEF WaitData
    <2>3. code \in {NoCode, sentExit}
      BY <2>1 DEF ExitTracked
    <2>4. CASE code # NoCode
      <3>1. client' = "ready" /\ results' = Append(results, code)
            /\ UNCHANGED <<written, sentData, sentExit>>
        BY <1>4, <2>4 DEF ChannelEnd
      <3>2. Last(results') = sentExit
        BY <2>3, <2>4, <3>1 DEF Last
      <3>3. QED
        BY <2>2, <3>1, <3>2 DEF WaitData, OkComplete, StartClean
    <2>5. CASE code = NoCode
      BY <1>4, <2>5 DEF ChannelEnd, WaitData, OkComplete, StartClean
    <2>6. QED
      BY <2>4, <2>5
  <1>5. CASE Close
    BY <1>5 DEF Close, RemoteVars, WaitData, OkComplete, StartClean
  <1>6. CASE SendData
    <2>1. client = "waiting"
      BY <1>6 DEF SendData, ClientRemote
    <2>2. PICK d \in Chunks :
            /\ chan' = Append(chan, [type |-> "Data", data |-> d])
            /\ sentData' = Append(sentData, d)
      BY <1>6 DEF SendData
    <2>3. PICK f \in [1..(Len(sentData) - Len(written)) -> 1..Len(chan)] :
                 DataMapOf(chan, written, sentData, f)
      BY <2>1 DEF WaitData
    <2>4. /\ Len(written) <= Len(sentData)
          /\ written = SubSeq(sentData, 1, Len(written))
      BY <2>1 DEF WaitData
    <2> DEFINE m == [type |-> "Data", data |-> d]
               g == [j \in 1..(Len(sentData) - Len(written) + 1) |->
                       IF j <= Len(sentData) - Len(written) THEN f[j]
                       ELSE Len(chan) + 1]
    <2>5. m \in Msgs /\ m.type = "Data" /\ m.data = d
      BY DEF Msgs
    <2>6. DataMapOf(chan', written, sentData', g)
      BY <2>2, <2>3, <2>4, <2>5, AppendData
    <2>7. /\ Len(written) <= Len(sentData')
          /\ written = SubSeq(sentData', 1, Len(written))
          /\ Len(sentData') - Len(written) = Len(sentData) - Len(written) + 1
      BY <2>2, <2>4
    <2>8. g \in [1..(Len(sentData') - Len(written)) -> 1..Len(chan')]
      BY <2>6 DEF DataMapOf
    <2>9. UNCHANGED <<client, written, results>>
      BY <1>6 DEF SendData
    <2>10. WaitData'
      BY <2>1, <2>6, <2>7, <2>8, <2>9 DEF WaitData
    <2>11. QED
      BY <2>1, <2>9, <2>10 DEF OkComplete, StartClean
  <1>7. CASE Exit
    <2>1. client = "waiting" /\ UNCHANGED <<client, written, sentData, results>>
      BY <1>7 DEF Exit, ClientRemote
    <2>2. PICK m \in Msgs : m.type # "Data" /\ chan' = Append(chan, m)
      BY <1>7 DEF Exit, Msgs
    <2>3. PICK f \in [1..(Len(sentData) - Len(written)) -> 1..Len(chan)] :
                 DataMapOf(chan, written, sentData, f)
      BY <2>1 DEF WaitData
    <2>4. DataMapOf(chan', written', sentData', f)
      BY <2>1, <2>2, <2>3, AppendOther
    <2>5. f \in [1..(Len(sentData') - Len(written')) -> 1..Len(chan')]
      BY <2>4 DEF DataMapOf
    <2>6. QED
      BY <2>1, <2>4, <2>5 DEF WaitData, OkComplete, StartClean
  <1>8. CASE CloseChannel
    BY <1>8 DEF CloseChannel, WaitData, OkComplete, StartClean
  <1>9. CASE InactivityTimeout
    BY <1>9 DEF InactivityTimeout, WaitData, OkComplete, StartClean
  <1>10. CASE UNCHANGED vars
    BY <1>10 DEF vars, WaitData, OkComplete, StartClean
  <1>11. QED
    BY <1>1, <1>2, <1>3, <1>4, <1>5, <1>6, <1>7, <1>8, <1>9, <1>10
       DEF Next, Client

(* The initial states satisfy the strengthened invariant.                  *)
LEMMA OInvInit == Init => OInv
  <1> SUFFICES ASSUME Init PROVE OInv
    OBVIOUS
  <1>1. Inv
    BY InitInv
  <1>2. DataTracked
    BY DEF Init, DataTracked, WaitData, OkComplete, StartClean
  <1>3. QED
    BY <1>1, <1>2 DEF OInv

(* A call that returns Ok returns the exit status the remote command     *)
(* sent, and by then the read loop of ssh_session_exec has written every *)
(* chunk of output, in order, including what came after the status.       *)
THEOREM CallResultFaithfulHolds == Spec => []CallResultFaithful
  <1>1. OInv /\ [Next]_vars => OInv'
    BY InvStep, DataStep DEF OInv
  <1>2. OInv => CallResultFaithful
    BY DEF OInv, DataTracked, WaitData, OkComplete, CallResultFaithful,
           IsPrefix
  <1>3. QED
    BY <1>1, <1>2, OInvInit, PTL DEF Spec

=============================================================================
