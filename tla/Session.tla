------------------------------- MODULE Session -------------------------------
(***************************************************************************)
(* The life of the connections of one component: IpcEnv::from_env          *)
(* (src/env.rs), the handshake in Connection::connect and the end in       *)
(* Connection's Drop (src/connection.rs), and who holds a connection       *)
(* (src/client.rs): clients, event streams, and the tasks they leave.      *)
(*                                                                         *)
(* The nucleus gives a component a new token each time it starts it, and   *)
(* honours no other; the environment of a live process does not change.    *)
(***************************************************************************)
EXTENDS Integers

CONSTANTS
  Conn,         \* the calls of Client::connect_from_env of a process
  MaxStarts,    \* how often the component is started
  MaxClients,   \* clones of a client at a time
  MaxStreams    \* event streams opened over a connection, or being opened

ASSUME SessionAssumption ==
  /\ MaxStarts \in Nat
  /\ MaxClients \in Nat \ {0}
  /\ MaxStreams \in Nat

VARIABLES
  up,        \* is the nucleus running?
  issued,    \* the last token it has issued
  honoured,  \* the token it accepts now
  env,       \* the environment of the process
  phase,     \* where a connection is, and if connect failed, how
  token,     \* the token it has read from the environment
  reply,     \* what the nucleus has answered and connect not read
  far,       \* the nucleus' end of the socket
  task,      \* the read task
  full,      \* is there no room for a frame in the socket to the nucleus?
  shut,      \* has a write failed, and shut the write half down?
  acked,     \* calls of subscribe that have their acknowledgement
  clients, streams, closers,   \* those that hold the connection
  opened, told                 \* streams opened, terminations written

nucleusVars == <<up, issued, honoured>>
writeVars == <<full, shut>>
holderVars == <<acked, clients, streams, closers, opened, told>>
vars == <<nucleusVars, env, phase, token, reply, far, task, writeVars,
          holderVars>>

Unset == -1   \* no such variable
Empty == 0    \* the empty string

Failure == {"NotUnderGreengrass", "Io", "Handshake", "Frame"}

Connecting == {"connecting", "sending", "waiting"}

(* An answer to Connect: a ConnectAck with its flag, another message, one  *)
(* that RpcMessage::parse rejects, one that the frame decoder rejects.     *)
Reply == {"accepted", "rejected", "other", "unparsable", "undecodable"}

TypeOK ==
  /\ up \in BOOLEAN
  /\ issued \in 0 .. MaxStarts
  /\ honoured \in {Unset} \cup 1 .. issued
  /\ env \in [socket : BOOLEAN, token : Unset .. issued]
  /\ phase \in [Conn -> {"idle", "up", "cancelled"} \cup Connecting \cup Failure]
  /\ token \in [Conn -> Unset .. issued]
  /\ reply \in [Conn -> {"none"} \cup Reply]
  /\ far \in [Conn -> {"none", "open", "closed"}]
  /\ task \in [Conn -> {"none", "running", "exited", "aborting", "aborted"}]
  /\ full \in [Conn -> BOOLEAN]
  /\ shut \in [Conn -> BOOLEAN]
  /\ acked \in [Conn -> 0 .. MaxStreams]
  /\ clients \in [Conn -> 0 .. MaxClients]
  /\ streams \in [Conn -> 0 .. MaxStreams]
  /\ closers \in [Conn -> 0 .. MaxStreams]
  /\ opened \in [Conn -> 0 .. MaxStreams]
  /\ told \in [Conn -> 0 .. MaxStreams]
  /\ \A c \in Conn : streams[c] + closers[c] <= opened[c]
                     /\ told[c] <= opened[c] - streams[c] - closers[c]
                     /\ acked[c] + opened[c] <= MaxStreams

Fresh(v) == [c \in Conn |-> v]

(* A process that the nucleus did not start has what its user gave it.     *)
Init ==
  /\ up = TRUE /\ issued = 0 /\ honoured = Unset
  /\ env \in [socket : BOOLEAN, token : {Unset, Empty}]
  /\ phase = Fresh("idle") /\ token = Fresh(Unset)
  /\ reply = Fresh("none") /\ far = Fresh("none") /\ task = Fresh("none")
  /\ full = Fresh(FALSE) /\ shut = Fresh(FALSE) /\ acked = Fresh(0)
  /\ clients = Fresh(0) /\ streams = Fresh(0) /\ closers = Fresh(0)
  /\ opened = Fresh(0) /\ told = Fresh(0)

(* Who holds the Arc of the connection.  A stream that is dropped clones   *)
(* the Arc for its close task before its own is dropped.                   *)
Holders_ClientsOnly(c) == clients[c]
Holders_NoClosers(c) == clients[c] + streams[c]
Holders(c) == clients[c] + streams[c] + closers[c]

(* The socket closes when both halves are dropped: with the future of      *)
(* connect, or with the connection and its read task.                      *)
NearOpen(c) ==
  \/ phase[c] \in {"sending", "waiting"}
  \/ phase[c] = "up" /\ (Holders(c) > 0 \/ task[c] \in {"running", "aborting"})

-----------------------------------------------------------------------------
(* connect                                                                 *)

(* IpcEnv::from_env.                                                       *)
FromEnv(c) ==
  /\ phase[c] = "idle"
  /\ \/ /\ env.socket /\ env.token \notin {Unset, Empty}
        /\ token' = [token EXCEPT ![c] = env.token]
        /\ phase' = [phase EXCEPT ![c] = "connecting"]
     \/ /\ ~env.socket \/ env.token \in {Unset, Empty}
        /\ phase' = [phase EXCEPT ![c] = "NotUnderGreengrass"]
        /\ UNCHANGED token
  /\ UNCHANGED <<nucleusVars, env, reply, far, task, writeVars, holderVars>>

(* UnixStream::connect: it needs a nucleus that listens.                   *)
ConnectSocket(c) ==
  /\ phase[c] = "connecting"
  /\ \/ /\ up
        /\ phase' = [phase EXCEPT ![c] = "sending"]
        /\ far' = [far EXCEPT ![c] = "open"]
     \/ /\ ~up
        /\ phase' = [phase EXCEPT ![c] = "Io"]
        /\ UNCHANGED far
  /\ UNCHANGED <<nucleusVars, env, token, reply, task, writeVars, holderVars>>

SendConnect(c) ==
  /\ phase[c] = "sending"
  /\ phase' = [phase EXCEPT ![c] = IF far[c] = "open" THEN "waiting" ELSE "Io"]
  /\ UNCHANGED <<nucleusVars, env, token, reply, far, task, writeVars,
                 holderVars>>

(* next_frame and the checks of what it returns.                           *)
IsAccepted_AnyAck(r) == r \in {"accepted", "rejected"}
IsAccepted(r) == r = "accepted"

ReadAck(c) ==
  /\ phase[c] = "waiting"
  /\ IsAccepted(reply[c])
  /\ phase' = [phase EXCEPT ![c] = "up"]
  /\ task' = [task EXCEPT ![c] = "running"]
  /\ clients' = [clients EXCEPT ![c] = 1]
  /\ reply' = [reply EXCEPT ![c] = "none"]
  /\ UNCHANGED <<nucleusVars, env, token, far, writeVars, acked, streams,
                 closers, opened, told>>

(* Why connect fails: the answer, the end of file, or a reset when the     *)
(* nucleus closed its end with the Connect unread.                         *)
Refusal_NoEof(c) ==
  CASE reply[c] \in {"rejected", "other"} -> {"Handshake"}
    [] reply[c] \in {"unparsable", "undecodable"} -> {"Frame"}
    [] OTHER -> {}

Refusal(c) ==
  CASE reply[c] \in {"rejected", "other"} -> {"Handshake"}
    [] reply[c] \in {"unparsable", "undecodable"} -> {"Frame"}
    [] reply[c] = "none" /\ far[c] = "closed" -> {"Handshake", "Io"}
    [] OTHER -> {}

ConnectFails(c) ==
  /\ phase[c] = "waiting"
  /\ ~IsAccepted(reply[c])
  /\ \E e \in Refusal(c) : phase' = [phase EXCEPT ![c] = e]
  /\ reply' = [reply EXCEPT ![c] = "none"]
  /\ UNCHANGED <<nucleusVars, env, token, far, task, writeVars, holderVars>>

(* The caller drops the future of connect at an await; it has no timeout.  *)
CancelConnect(c) ==
  /\ phase[c] \in Connecting
  /\ phase' = [phase EXCEPT ![c] = "cancelled"]
  /\ reply' = [reply EXCEPT ![c] = "none"]
  /\ UNCHANGED <<nucleusVars, env, token, far, task, writeVars, holderVars>>

-----------------------------------------------------------------------------
(* The holders of a connection                                             *)

(* When the last one goes, Connection's Drop aborts the read task.         *)
LastDrop_Detached(c) == task' = task

LastDrop(c) ==
  task' = IF phase[c] = "up" /\ Holders(c)' = 0 /\ task[c] = "running"
          THEN [task EXCEPT ![c] = "aborting"]
          ELSE task

CloneClient(c) ==
  /\ clients[c] \in 1 .. MaxClients - 1
  /\ clients' = [clients EXCEPT ![c] = @ + 1]
  /\ UNCHANGED <<nucleusVars, env, phase, token, reply, far, task, writeVars,
                 acked, streams, closers, opened, told>>

(* A client that subscribes is borrowed until subscribe returns.           *)
DropClient(c) ==
  /\ clients[c] > 0
  /\ clients[c] = 1 => acked[c] = 0
  /\ clients' = [clients EXCEPT ![c] = @ - 1]
  /\ UNCHANGED <<acked, streams, closers, opened, told>>
  /\ LastDrop(c)
  /\ UNCHANGED <<nucleusVars, env, phase, token, reply, far, writeVars>>

(* A call of subscribe has activated its stream and been acknowledged.     *)
Acknowledge(c) ==
  /\ clients[c] > 0
  /\ task[c] = "running" /\ far[c] = "open" /\ ~shut[c]
  /\ acked[c] + opened[c] < MaxStreams
  /\ acked' = [acked EXCEPT ![c] = @ + 1]
  /\ UNCHANGED <<nucleusVars, env, phase, token, reply, far, task, writeVars,
                 clients, streams, closers, opened, told>>

(* It returns an EventStream, whatever has become of the read loop and of  *)
(* the nucleus since: the acknowledgement is in its channel.               *)
OpenStream(c) ==
  /\ acked[c] > 0
  /\ acked' = [acked EXCEPT ![c] = @ - 1]
  /\ streams' = [streams EXCEPT ![c] = @ + 1]
  /\ opened' = [opened EXCEPT ![c] = @ + 1]
  /\ UNCHANGED <<nucleusVars, env, phase, token, reply, far, task, writeVars,
                 clients, closers, told>>

(* Or its caller drops the future instead: nobody will close the stream.   *)
CancelSubscribe(c) ==
  /\ acked[c] > 0
  /\ acked' = [acked EXCEPT ![c] = @ - 1]
  /\ UNCHANGED <<nucleusVars, env, phase, token, reply, far, task, writeVars,
                 clients, streams, closers, opened, told>>

(* EventStream's Drop spawns the close task, once,                         *)
DropStream_StillOpen(c) ==
  /\ streams[c] > 0
  /\ closers' = [closers EXCEPT ![c] = @ + 1]
  /\ UNCHANGED <<nucleusVars, env, phase, token, reply, far, task, writeVars,
                 acked, clients, streams, opened, told>>

DropStream(c) ==
  /\ streams[c] > 0
  /\ streams' = [streams EXCEPT ![c] = @ - 1]
  /\ closers' = [closers EXCEPT ![c] = @ + 1]
  /\ UNCHANGED <<acked, clients, opened, told>>
  /\ LastDrop(c)
  /\ UNCHANGED <<nucleusVars, env, phase, token, reply, far, writeVars>>

(* which holds its Arc while it waits for the lock and for room in the     *)
(* socket, writes the termination, and drops the Arc.                      *)
CloseStream(c) ==
  /\ closers[c] > 0
  /\ far[c] = "open" /\ ~shut[c] /\ ~full[c]
  /\ closers' = [closers EXCEPT ![c] = @ - 1]
  /\ told' = [told EXCEPT ![c] = @ + 1]
  /\ UNCHANGED <<acked, clients, streams, opened>>
  /\ LastDrop(c)
  /\ UNCHANGED <<nucleusVars, env, phase, token, reply, far, writeVars>>

(* Its write may fail, and the failure is ignored, but for what every      *)
(* write_message does of it: shut the write half down.                     *)
CloseFails(c) ==
  /\ closers[c] > 0
  /\ closers' = [closers EXCEPT ![c] = @ - 1]
  /\ shut' = [shut EXCEPT ![c] = TRUE]
  /\ UNCHANGED <<acked, clients, streams, opened, told>>
  /\ LastDrop(c)
  /\ UNCHANGED <<nucleusVars, env, phase, token, reply, far, full>>

(* Another write of the connection, a call's or the read loop's, fills the *)
(* socket; or a call's fails.                                              *)
OtherWrite(c) ==
  /\ \/ /\ clients[c] > 0 \/ task[c] = "running"
        /\ far[c] = "open" /\ ~shut[c] /\ ~full[c]
        /\ full' = [full EXCEPT ![c] = TRUE]
        /\ UNCHANGED shut
     \/ /\ clients[c] > 0 /\ ~shut[c]
        /\ shut' = [shut EXCEPT ![c] = TRUE]
        /\ UNCHANGED full
  /\ UNCHANGED <<nucleusVars, env, phase, token, reply, far, task, holderVars>>

(* The read loop ends: at the end of file, or on what the nucleus sends.   *)
(* What it has not dispatched is lost, acknowledgements too.               *)
ReadLoopEnds(c) ==
  /\ task[c] = "running"
  /\ task' = [task EXCEPT ![c] = "exited"]
  /\ \E n \in 0 .. acked[c] : acked' = [acked EXCEPT ![c] = n]
  /\ UNCHANGED <<nucleusVars, env, phase, token, reply, far, writeVars,
                 clients, streams, closers, opened, told>>

(* The runtime drops the future of an aborted task.                        *)
TaskAborted(c) ==
  /\ task[c] = "aborting"
  /\ task' = [task EXCEPT ![c] = "aborted"]
  /\ UNCHANGED <<nucleusVars, env, phase, token, reply, far, writeVars,
                 holderVars>>

-----------------------------------------------------------------------------
(* The nucleus                                                             *)

(* It reads the Connect, accepts the token that it honours and no other,   *)
(* or answers something else.                                              *)
Answer(c) ==
  /\ phase[c] = "waiting" /\ far[c] = "open" /\ reply[c] = "none"
  /\ \E r \in Reply :
       /\ r = "accepted" => token[c] = honoured
       /\ r = "rejected" => token[c] # honoured
       /\ reply' = [reply EXCEPT ![c] = r]
  /\ UNCHANGED <<nucleusVars, env, phase, token, far, task, writeVars,
                 holderVars>>

(* It reads on, and makes room in the socket.                              *)
Read(c) ==
  /\ far[c] = "open" /\ full[c]
  /\ full' = [full EXCEPT ![c] = FALSE]
  /\ UNCHANGED <<nucleusVars, env, phase, token, reply, far, task, shut,
                 holderVars>>

(* It closes its end, after ours or before.  What it has not read is lost. *)
HangUp(c) ==
  /\ far[c] = "open"
  /\ far' = [far EXCEPT ![c] = "closed"]
  /\ full' = [full EXCEPT ![c] = FALSE]
  /\ UNCHANGED <<nucleusVars, env, phase, token, reply, task, shut,
                 holderVars>>

(* It dies and, some time, boots: the tokens it issued are worth nothing.  *)
Crash ==
  /\ up
  /\ up' = FALSE
  /\ honoured' = Unset
  /\ far' = [c \in Conn |-> IF far[c] = "open" THEN "closed" ELSE far[c]]
  /\ full' = Fresh(FALSE)
  /\ UNCHANGED <<issued, env, phase, token, reply, task, shut, holderVars>>

Boot ==
  /\ ~up
  /\ up' = TRUE
  /\ UNCHANGED <<issued, honoured, env, phase, token, reply, far, task,
                 writeVars, holderVars>>

(* It starts the component: a new process, in place of the old one; or     *)
(* beside it, when the old one is none that this nucleus knows, because it *)
(* has been restarted since, or never started it (README.md:98).  The old  *)
(* process, which this module is about then, has the environment it had.   *)
Restart ==
  /\ env' = [socket |-> TRUE, token |-> issued + 1]
  /\ phase' = Fresh("idle") /\ token' = Fresh(Unset)
  /\ reply' = Fresh("none") /\ far' = Fresh("none") /\ task' = Fresh("none")
  /\ full' = Fresh(FALSE) /\ shut' = Fresh(FALSE) /\ acked' = Fresh(0)
  /\ clients' = Fresh(0) /\ streams' = Fresh(0) /\ closers' = Fresh(0)
  /\ opened' = Fresh(0) /\ told' = Fresh(0)

Orphaned ==
  /\ honoured = Unset
  /\ UNCHANGED <<env, phase, token, reply, far, task, writeVars, holderVars>>

StartComponent ==
  /\ up
  /\ issued < MaxStarts
  /\ issued' = issued + 1
  /\ honoured' = issued + 1
  /\ Restart \/ Orphaned
  /\ UNCHANGED up

-----------------------------------------------------------------------------
ConnectStep(c) ==
  FromEnv(c) \/ ConnectSocket(c) \/ SendConnect(c) \/ ReadAck(c) \/ ConnectFails(c)

HolderStep(c) ==
  \/ CloneClient(c) \/ DropClient(c)
  \/ Acknowledge(c) \/ OpenStream(c) \/ CancelSubscribe(c)
  \/ DropStream(c) \/ CloseStream(c) \/ CloseFails(c)

Next ==
  \/ \E c \in Conn :
       \/ ConnectStep(c) \/ CancelConnect(c) \/ HolderStep(c)
       \/ OtherWrite(c) \/ ReadLoopEnds(c) \/ TaskAborted(c)
       \/ Answer(c) \/ Read(c) \/ HangUp(c)
  \/ Crash \/ Boot \/ StartComponent

(* The runtime polls a connect that was begun and runs its tasks.  Nobody  *)
(* owes a call, and nobody owes a drop.  The nucleus answers a Connect,    *)
(* goes on reading what it is sent, and closes its end of a socket whose   *)
(* other end is closed.  A close task waits its turn at a lock that is fair*)
(* to its waiters: it writes if there is room again and again.  A write    *)
(* that fails is owed only when there is nothing left to write to.         *)
Fairness ==
  \A c \in Conn :
    /\ WF_vars(phase[c] # "idle" /\ ConnectStep(c))
    /\ WF_vars(TaskAborted(c))
    /\ SF_vars(CloseStream(c))
    /\ WF_vars((shut[c] \/ far[c] # "open") /\ CloseFails(c))
    /\ WF_vars(Answer(c))
    /\ WF_vars(Read(c))
    /\ WF_vars(~NearOpen(c) /\ HangUp(c))

Spec == Init /\ [][Next]_vars

FairSpec == Spec /\ Fairness

-----------------------------------------------------------------------------
(* A connection that both ends have open is one of the process that the    *)
(* nucleus started last: after the nucleus has come back, a process it did *)
(* not start gets no connection, however often it tries.                   *)
LiveMeansCurrent ==
  \A c \in Conn :
    phase[c] = "up" /\ far[c] = "open" => token[c] = honoured /\ env.token = honoured

(* The read task is aborted only when nobody holds the connection: an event*)
(* stream outlives the clients, and a close task the streams.              *)
AbortedMeansUnheld ==
  \A c \in Conn : task[c] \in {"aborting", "aborted"} =>
    clients[c] = 0 /\ streams[c] = 0 /\ closers[c] = 0

(* When the socket closes at our end, the nucleus, if it is there, has been*)
(* told of every stream that was opened over it, unless a write has failed.*)
ToldBeforeClosed ==
  \A c \in Conn :
    phase[c] = "up" /\ ~NearOpen(c) /\ far[c] = "open" /\ ~shut[c] =>
      told[c] = opened[c]

(* A connection that nobody holds is closed, at both ends; if the nucleus  *)
(* reads on, that is, for a close task that finds the socket full holds the*)
(* connection as long as it is.                                            *)
SocketIsReleased ==
  \A c \in Conn :
    phase[c] = "up" /\ clients[c] + streams[c] = 0 ~> far[c] # "open"

(* connect returns, if the nucleus answers or dies.                        *)
ConnectReturns == \A c \in Conn : phase[c] \in Connecting ~> phase[c] \notin Connecting

=============================================================================
