---------------------------- MODULE SessionProofs ----------------------------
(***************************************************************************)
(* Theorems about Session, for any number of connections, starts of the    *)
(* component, clones and streams.                                          *)
(***************************************************************************)
EXTENDS Session, TLAPS

(***************************************************************************)
(* The invariant.  Whoever connects has the token of the environment; a    *)
(* connection that is up, or that has been accepted, with the nucleus still*)
(* there, has the token that is honoured.  Until a connection is up, nobody*)
(* holds it; a subscribe that has its acknowledgement borrows a client; and*)
(* unless a write failed, a stream is held, being closed, or told of.      *)
(***************************************************************************)
Tokens ==
  \A c \in Conn :
    /\ phase[c] \in Connecting \cup {"up"} => token[c] = env.token /\ token[c] # Unset
    /\ phase[c] \in {"idle", "connecting"} => far[c] # "open" /\ reply[c] = "none"
    /\ reply[c] = "accepted" => phase[c] = "waiting"
    /\ far[c] = "open" /\ (phase[c] = "up" \/ reply[c] = "accepted") =>
         token[c] = honoured

Counted(c) ==
  /\ acked[c] \in Nat /\ clients[c] \in Nat /\ streams[c] \in Nat
  /\ closers[c] \in Nat /\ opened[c] \in Nat /\ told[c] \in Nat
  /\ phase[c] # "up" =>
       /\ acked[c] = 0 /\ clients[c] = 0 /\ streams[c] = 0 /\ closers[c] = 0
       /\ opened[c] = 0 /\ told[c] = 0
  /\ acked[c] > 0 => clients[c] > 0
  /\ task[c] \in {"aborting", "aborted"} => Holders(c) = 0
  /\ far[c] = "open" /\ ~shut[c] => told[c] + streams[c] + closers[c] = opened[c]

Functions ==
  /\ phase = [c \in Conn |-> phase[c]]
  /\ token = [c \in Conn |-> token[c]]
  /\ reply = [c \in Conn |-> reply[c]]
  /\ far = [c \in Conn |-> far[c]]
  /\ task = [c \in Conn |-> task[c]]
  /\ full = [c \in Conn |-> full[c]]
  /\ shut = [c \in Conn |-> shut[c]]
  /\ acked = [c \in Conn |-> acked[c]]
  /\ clients = [c \in Conn |-> clients[c]]
  /\ streams = [c \in Conn |-> streams[c]]
  /\ closers = [c \in Conn |-> closers[c]]
  /\ opened = [c \in Conn |-> opened[c]]
  /\ told = [c \in Conn |-> told[c]]

SessionInv == Functions /\ Tokens /\ \A c \in Conn : Counted(c)

LEMMA SessionInit == ASSUME Init PROVE SessionInv
BY DEF Init, SessionInv, Functions, Tokens, Counted, Fresh, Unset, Connecting,
       Holders

-----------------------------------------------------------------------------
(* Steps that leave a connection alone.                                    *)
Same(c) ==
  /\ phase'[c] = phase[c] /\ far'[c] = far[c] /\ task'[c] = task[c]
  /\ shut'[c] = shut[c] /\ acked'[c] = acked[c]
  /\ clients'[c] = clients[c] /\ streams'[c] = streams[c]
  /\ closers'[c] = closers[c] /\ opened'[c] = opened[c] /\ told'[c] = told[c]

LEMMA CountedSame ==
  ASSUME NEW c \in Conn, Counted(c), Same(c)
  PROVE  Counted(c)'
BY DEF Counted, Same, Holders

(* The steps of connect.                                                   *)
LEMMA ConnectKeeps ==
  ASSUME SessionInv, NEW c \in Conn, ConnectStep(c) \/ CancelConnect(c)
  PROVE  SessionInv'
<1> Functions /\ Tokens /\ \A d \in Conn : Counted(d)
  BY DEF SessionInv
<1> USE DEF nucleusVars, writeVars, holderVars
<1>1. CASE FromEnv(c)
  <2>1. Functions' /\ Tokens'
    BY <1>1 DEF FromEnv, Functions, Tokens, Connecting
  <2>2. \A d \in Conn : Counted(d)'
    BY <1>1 DEF FromEnv, Functions, Counted, Holders
  <2> QED
    BY <2>1, <2>2 DEF SessionInv
<1>2. CASE ConnectSocket(c)
  <2>1. Functions' /\ Tokens'
    BY <1>2 DEF ConnectSocket, Functions, Tokens, Connecting
  <2>2. \A d \in Conn : Counted(d)'
    BY <1>2 DEF ConnectSocket, Functions, Counted, Holders
  <2> QED
    BY <2>1, <2>2 DEF SessionInv
<1>3. CASE SendConnect(c)
  <2>1. Functions' /\ Tokens'
    BY <1>3 DEF SendConnect, Functions, Tokens, Connecting
  <2>2. \A d \in Conn : Counted(d)'
    BY <1>3 DEF SendConnect, Functions, Counted, Holders
  <2> QED
    BY <2>1, <2>2 DEF SessionInv
<1>4. CASE ReadAck(c)
  <2>1. Functions' /\ Tokens'
    BY <1>4 DEF ReadAck, Functions, Tokens, Connecting, IsAccepted
  <2>2. \A d \in Conn : Counted(d)'
    BY <1>4 DEF ReadAck, Functions, Counted, Holders
  <2> QED
    BY <2>1, <2>2 DEF SessionInv
<1>5. CASE ConnectFails(c) \/ CancelConnect(c)
  <2>1. PICK p \in Failure \cup {"cancelled"} : phase' = [phase EXCEPT ![c] = p]
    <3>1. Refusal(c) \subseteq Failure
      BY DEF Refusal, Failure
    <3> QED
      BY <1>5, <3>1 DEF ConnectFails, CancelConnect
  <2>2. /\ UNCHANGED <<nucleusVars, env, token, far, task, writeVars, holderVars>>
        /\ reply' = [reply EXCEPT ![c] = "none"]
        /\ phase[c] # "up"
    BY <1>5 DEF ConnectFails, CancelConnect, Connecting
  <2>3. Functions' /\ Tokens'
    BY <2>1, <2>2 DEF Functions, Tokens, Connecting, Failure
  <2>4. \A d \in Conn : Counted(d)'
    BY <2>1, <2>2 DEF Functions, Counted, Holders, Failure
  <2> QED
    BY <2>3, <2>4 DEF SessionInv
<1> QED
  BY <1>1, <1>2, <1>3, <1>4, <1>5 DEF ConnectStep

-----------------------------------------------------------------------------
(* The steps of the holders.  They leave the tokens alone.                 *)
LEMMA TokensSame ==
  ASSUME SessionInv, UNCHANGED <<nucleusVars, env, phase, token, reply, far>>
  PROVE  Tokens'
BY DEF SessionInv, Tokens, nucleusVars

(* A last drop turns only a connection that nobody holds.                  *)
LEMMA LastDropUnheld ==
  ASSUME SessionInv, NEW c \in Conn, LastDrop(c)
  PROVE  /\ task' = [d \in Conn |-> task'[d]]
         /\ \A d \in Conn : d # c => task'[d] = task[d]
         /\ task'[c] \in {"aborting", "aborted"} =>
              task[c] \in {"aborting", "aborted"} \/ Holders(c)' = 0
BY DEF SessionInv, Functions, LastDrop

(* The steps of the connection c that change who holds it, or what its     *)
(* write half is, and of no other.                                         *)
LEMMA HolderKeeps ==
  ASSUME SessionInv, NEW c \in Conn, HolderStep(c)
  PROVE  SessionInv'
<1> Functions /\ Tokens /\ \A d \in Conn : Counted(d)
  BY DEF SessionInv
<1>1. CASE CloneClient(c) \/ Acknowledge(c) \/ OpenStream(c) \/ CancelSubscribe(c)
  <2>1. /\ UNCHANGED <<nucleusVars, env, phase, token, reply, far, task, writeVars>>
        /\ Functions' /\ \A d \in Conn : d # c => Same(d)
    BY <1>1 DEF CloneClient, Acknowledge, OpenStream, CancelSubscribe, Functions, Same,
       writeVars
  <2>2. CASE CloneClient(c) \/ Acknowledge(c)
    BY <1>1, <2>1, <2>2, CountedSame, TokensSame
    DEF CloneClient, Acknowledge, Functions, Counted, Holders, SessionInv, writeVars
  <2>3. CASE OpenStream(c) \/ CancelSubscribe(c)
    <3>1. clients[c] > 0 /\ task[c] \notin {"aborting", "aborted"}
      BY <2>3 DEF OpenStream, CancelSubscribe, Counted, Holders
    <3>2. Counted(c)'
      BY <2>1, <2>3, <3>1
      DEF OpenStream, CancelSubscribe, Functions, Counted, Holders, writeVars
    <3> QED
      BY <2>1, <3>2, CountedSame, TokensSame DEF SessionInv
  <2> QED
    BY <1>1, <2>2, <2>3
<1>2. CASE DropClient(c) \/ DropStream(c) \/ CloseStream(c) \/ CloseFails(c)
  <2>1. LastDrop(c) /\ UNCHANGED <<nucleusVars, env, phase, token, reply, far, full>>
    BY <1>2 DEF DropClient, DropStream, CloseStream, CloseFails, writeVars
  <2>2. Functions' /\ \A d \in Conn : d # c => Same(d)
    BY <1>2, <2>1, LastDropUnheld
    DEF DropClient, DropStream, CloseStream, CloseFails, writeVars, Functions, Same
  <2>3. task'[c] \in {"aborting", "aborted"} =>
          task[c] \in {"aborting", "aborted"} \/ Holders(c)' = 0
    BY <2>1, LastDropUnheld
  <2>4. Counted(c)'
    <3>1. CASE DropClient(c)
      BY <2>3, <3>1 DEF DropClient, Functions, Counted, Holders, writeVars
    <3>2. CASE DropStream(c)
      BY <2>3, <3>2 DEF DropStream, Functions, Counted, Holders, writeVars
    <3>3. CASE CloseStream(c)
      <4>1. /\ closers[c] > 0 /\ closers'[c] = closers[c] - 1 /\ told'[c] = told[c] + 1
            /\ UNCHANGED <<phase, far, shut, acked, clients, streams, opened>>
        BY <3>3 DEF CloseStream, Functions, writeVars
      <4> QED
        BY <2>3, <4>1 DEF Counted, Holders
    <3>4. CASE CloseFails(c)
      BY <2>3, <3>4 DEF CloseFails, Functions, Counted, Holders
    <3> QED
      BY <1>2, <3>1, <3>2, <3>3, <3>4
  <2> QED
    BY <2>1, <2>2, <2>4, CountedSame, TokensSame DEF SessionInv
<1> QED
  BY <1>1, <1>2 DEF HolderStep

-----------------------------------------------------------------------------
(* The other writes, and the steps of the read task and of the nucleus.    *)
LEMMA OthersKeep ==
  ASSUME SessionInv, NEW c \in Conn,
         \/ OtherWrite(c) \/ ReadLoopEnds(c) \/ TaskAborted(c)
         \/ Answer(c) \/ Read(c) \/ HangUp(c)
  PROVE  SessionInv'
<1> Functions /\ Tokens /\ \A d \in Conn : Counted(d)
  BY DEF SessionInv
<1> USE DEF writeVars, holderVars
<1>1. CASE OtherWrite(c) \/ Read(c)
  <2>1. Tokens' /\ Functions'
    BY <1>1, TokensSame DEF OtherWrite, Read, Functions
  <2>2. \A d \in Conn : Counted(d)'
    BY <1>1 DEF OtherWrite, Read, Functions, Counted, Holders
  <2> QED
    BY <2>1, <2>2 DEF SessionInv
<1>2. CASE ReadLoopEnds(c) \/ TaskAborted(c)
  <2>1. Tokens' /\ Functions'
    BY <1>2, TokensSame DEF ReadLoopEnds, TaskAborted, Functions
  <2>2. \A d \in Conn : Counted(d)'
    BY <1>2 DEF ReadLoopEnds, TaskAborted, Functions, Counted, Holders
  <2> QED
    BY <2>1, <2>2 DEF SessionInv
<1>3. CASE Answer(c)
  <2>1. Tokens' /\ Functions'
    BY <1>3 DEF Answer, Functions, Tokens, nucleusVars, Connecting
  <2>2. \A d \in Conn : Counted(d)'
    BY <1>3 DEF Answer, Functions, Counted, Holders
  <2> QED
    BY <2>1, <2>2 DEF SessionInv
<1>4. CASE HangUp(c)
  <2>1. Tokens' /\ Functions'
    BY <1>4 DEF HangUp, Functions, Tokens, nucleusVars, Connecting
  <2>2. \A d \in Conn : Counted(d)'
    BY <1>4 DEF HangUp, Functions, Counted, Holders
  <2> QED
    BY <2>1, <2>2 DEF SessionInv
<1> QED
  BY <1>1, <1>2, <1>3, <1>4

(* The nucleus that starts the component beside an orphan honours nothing  *)
(* the orphan has: no connection of it has both ends open.                 *)
LEMMA NucleusKeeps ==
  ASSUME SessionInv, Crash \/ Boot \/ StartComponent \/ UNCHANGED vars
  PROVE  SessionInv'
<1> Functions /\ Tokens /\ \A d \in Conn : Counted(d)
  BY DEF SessionInv
<1> USE DEF writeVars, holderVars
<1>1. CASE Crash
  <2>1. Tokens' /\ Functions'
    BY <1>1 DEF Crash, Functions, Tokens, Fresh
  <2>2. \A d \in Conn : Counted(d)'
    BY <1>1 DEF Crash, Counted, Holders
  <2> QED
    BY <2>1, <2>2 DEF SessionInv
<1>2. CASE Boot \/ UNCHANGED vars
  <2>1. UNCHANGED <<honoured, env, phase, token, reply, far, task, writeVars,
                    holderVars>>
    BY <1>2 DEF Boot, vars, nucleusVars
  <2>2. Tokens' /\ Functions'
    BY <2>1 DEF Tokens, Functions
  <2>3. \A d \in Conn : Counted(d)'
    BY <2>1, CountedSame DEF Same
  <2> QED
    BY <2>2, <2>3 DEF SessionInv
<1>3. CASE StartComponent /\ Restart
  BY <1>3 DEF Restart, SessionInv, Functions, Tokens, Counted, Fresh, Unset, Connecting,
              Holders
<1>4. CASE StartComponent /\ Orphaned
  <2>1. UNCHANGED <<env, phase, token, reply, far, task, writeVars, holderVars>>
        /\ honoured = Unset
    BY <1>4 DEF Orphaned
  <2>2. Functions'
    BY <2>1 DEF Functions
  <2>3. \A d \in Conn : far[d] = "open" => phase[d] # "up" /\ reply[d] # "accepted"
    BY <2>1 DEF Tokens, Connecting
  <2>4. Tokens'
    BY <2>1, <2>3 DEF Tokens
  <2>5. \A d \in Conn : Counted(d)'
    BY <2>1, CountedSame DEF Same
  <2> QED
    BY <2>2, <2>4, <2>5 DEF SessionInv
<1> QED
  BY <1>1, <1>2, <1>3, <1>4 DEF StartComponent

LEMMA SessionStep == ASSUME SessionInv, [Next]_vars PROVE SessionInv'
BY ConnectKeeps, HolderKeeps, OthersKeep, NucleusKeeps DEF Next

-----------------------------------------------------------------------------
(* A connection with both ends open is of the process started last, though *)
(* older ones may still be there.                                          *)
THEOREM LiveIsCurrent == Spec => []LiveMeansCurrent
<1>1. SessionInv /\ [Next]_vars => SessionInv'
  BY SessionStep
<1>2. SessionInv => LiveMeansCurrent
  BY DEF SessionInv, Tokens, LiveMeansCurrent, Connecting
<1> QED
  BY <1>1, <1>2, SessionInit, PTL DEF Spec

(* The read task is aborted only when nobody holds the connection.         *)
THEOREM AbortNeedsNoHolder == Spec => []AbortedMeansUnheld
<1>1. SessionInv /\ [Next]_vars => SessionInv'
  BY SessionStep
<1>2. SessionInv => AbortedMeansUnheld
  BY DEF SessionInv, Counted, Holders, AbortedMeansUnheld
<1> QED
  BY <1>1, <1>2, SessionInit, PTL DEF Spec

(* Unless a write has failed, no socket closes at our end before the       *)
(* nucleus, if it is there, is told of every stream: not with a close task *)
(* behind the lock, and not with one that waits for room in the socket.    *)
THEOREM CloseIsAnnounced == Spec => []ToldBeforeClosed
<1>1. SessionInv /\ [Next]_vars => SessionInv'
  BY SessionStep
<1>2. SessionInv => ToldBeforeClosed
  BY DEF SessionInv, Counted, Holders, NearOpen, ToldBeforeClosed
<1> QED
  BY <1>1, <1>2, SessionInit, PTL DEF Spec

-----------------------------------------------------------------------------
(***************************************************************************)
(* The types, in three parts.  That the counts stay within their bounds is *)
(* told by the one sum: every stream opened is held, being closed, or told *)
(* of at most once.                                                        *)
(***************************************************************************)
Issue ==
  /\ up \in BOOLEAN
  /\ issued \in 0 .. MaxStarts
  /\ honoured \in {Unset} \cup 1 .. issued
  /\ env \in [socket : BOOLEAN, token : Unset .. issued]
  /\ token \in [Conn -> Unset .. issued]

Stages ==
  /\ phase \in [Conn -> {"idle", "up", "cancelled"} \cup Connecting \cup Failure]
  /\ reply \in [Conn -> {"none"} \cup Reply]
  /\ far \in [Conn -> {"none", "open", "closed"}]
  /\ task \in [Conn -> {"none", "running", "exited", "aborting", "aborted"}]
  /\ full \in [Conn -> BOOLEAN]
  /\ shut \in [Conn -> BOOLEAN]

Counts ==
  /\ acked \in [Conn -> 0 .. MaxStreams]
  /\ clients \in [Conn -> 0 .. MaxClients]
  /\ streams \in [Conn -> 0 .. MaxStreams]
  /\ closers \in [Conn -> 0 .. MaxStreams]
  /\ opened \in [Conn -> 0 .. MaxStreams]
  /\ told \in [Conn -> 0 .. MaxStreams]
  /\ \A c \in Conn : streams[c] + closers[c] <= opened[c]
                     /\ told[c] <= opened[c] - streams[c] - closers[c]
                     /\ acked[c] + opened[c] <= MaxStreams

LEMMA TypeParts == TypeOK <=> Issue /\ Stages /\ Counts
BY DEF TypeOK, Issue, Stages, Counts

LEMMA TypeInit == ASSUME Init PROVE TypeOK
<1>1. Issue
  BY SessionAssumption DEF Init, Issue, Fresh, Unset, Empty
<1>2. Stages
  BY DEF Init, Stages, Fresh
<1>3. Counts
  BY SessionAssumption DEF Init, Counts, Fresh
<1> QED
  BY <1>1, <1>2, <1>3, TypeParts

(* What a last drop makes of the read task is one of its states.           *)
LEMMA LastDropType ==
  ASSUME Stages, NEW c \in Conn, LastDrop(c)
  PROVE  task' \in [Conn -> {"none", "running", "exited", "aborting", "aborted"}]
BY DEF Stages, LastDrop

LEMMA IssueStep == ASSUME Issue, [Next]_vars PROVE Issue'
<1> USE SessionAssumption DEF Issue, nucleusVars
<1>1. CASE \E c \in Conn : FromEnv(c)
  <2>1. PICK c \in Conn : FromEnv(c)
    BY <1>1
  <2> QED
    BY <2>1 DEF FromEnv
<1>2. CASE Crash \/ Boot
  BY <1>2 DEF Crash, Boot
<1>3. CASE StartComponent
  <2>1. CASE Restart
    BY <1>3, <2>1 DEF StartComponent, Restart, Fresh, Unset
  <2>2. CASE Orphaned
    BY <1>3, <2>2 DEF StartComponent, Orphaned, Unset
  <2> QED
    BY <1>3, <2>1, <2>2 DEF StartComponent
<1>4. CASE UNCHANGED <<nucleusVars, env, token>>
  BY <1>4
<1> QED
  BY <1>1, <1>2, <1>3, <1>4
  DEF Next, vars, ConnectStep, ConnectSocket, SendConnect, ReadAck, ConnectFails,
      CancelConnect, HolderStep, CloneClient, DropClient, Acknowledge, OpenStream,
      CancelSubscribe, DropStream, CloseStream, CloseFails, OtherWrite, ReadLoopEnds,
      TaskAborted, Answer, Read, HangUp

LEMMA StagesStep == ASSUME Stages, [Next]_vars PROVE Stages'
<1> USE DEF writeVars
<1>1. ASSUME NEW c \in Conn, ConnectStep(c) \/ CancelConnect(c) PROVE Stages'
  <2>1. Refusal(c) \subseteq Failure
    BY DEF Refusal, Failure
  <2> QED
    BY <1>1, <2>1 DEF Stages, ConnectStep, FromEnv, ConnectSocket, SendConnect, ReadAck,
       ConnectFails, CancelConnect, Connecting, Failure
<1>2. ASSUME NEW c \in Conn, HolderStep(c) PROVE Stages'
  <2>1. CASE CloneClient(c) \/ Acknowledge(c) \/ OpenStream(c) \/ CancelSubscribe(c)
    BY <2>1 DEF Stages, CloneClient, Acknowledge, OpenStream, CancelSubscribe
  <2>2. CASE DropClient(c) \/ DropStream(c) \/ CloseStream(c) \/ CloseFails(c)
    <3>1. LastDrop(c) /\ UNCHANGED <<phase, reply, far, full>>
      BY <2>2 DEF DropClient, DropStream, CloseStream, CloseFails
    <3>2. shut' \in [Conn -> BOOLEAN]
      BY <2>2 DEF DropClient, DropStream, CloseStream, CloseFails, Stages
    <3> QED
      BY <3>1, <3>2, LastDropType DEF Stages
  <2> QED
    BY <1>2, <2>1, <2>2 DEF HolderStep
<1>3. ASSUME NEW c \in Conn,
             \/ OtherWrite(c) \/ ReadLoopEnds(c) \/ TaskAborted(c)
             \/ Answer(c) \/ Read(c) \/ HangUp(c)
      PROVE  Stages'
  BY <1>3 DEF Stages, OtherWrite, ReadLoopEnds, TaskAborted, Answer, Read, HangUp
<1>4. CASE Crash \/ Boot \/ UNCHANGED vars
  BY <1>4 DEF Stages, Crash, Boot, Fresh, vars
<1>5. CASE StartComponent
  <2>1. CASE Restart
    BY <2>1 DEF Restart, Stages, Fresh
  <2>2. CASE Orphaned
    BY <2>2 DEF Orphaned, Stages
  <2> QED
    BY <1>5, <2>1, <2>2 DEF StartComponent
<1> QED
  BY <1>1, <1>2, <1>3, <1>4, <1>5 DEF Next

LEMMA CountsStep == ASSUME Counts, [Next]_vars PROVE Counts'
<1> USE SessionAssumption
<1>1. CASE \E c \in Conn : ReadAck(c)
  <2>1. PICK c \in Conn : ReadAck(c)
    BY <1>1
  <2> QED
    BY <2>1 DEF ReadAck, Counts
<1>2. ASSUME NEW c \in Conn, HolderStep(c) PROVE Counts'
  <2>1. CASE CloneClient(c)
    BY <2>1 DEF CloneClient, Counts
  <2>2. CASE DropClient(c)
    BY <2>2 DEF DropClient, Counts
  <2>3. CASE Acknowledge(c) \/ CancelSubscribe(c)
    BY <2>3 DEF Acknowledge, CancelSubscribe, Counts
  <2>4. CASE OpenStream(c)
    BY <2>4 DEF OpenStream, Counts
  <2>5. CASE DropStream(c)
    BY <2>5 DEF DropStream, Counts
  <2>6. CASE CloseStream(c) \/ CloseFails(c)
    BY <2>6 DEF CloseStream, CloseFails, Counts
  <2> QED
    BY <1>2, <2>1, <2>2, <2>3, <2>4, <2>5, <2>6 DEF HolderStep
<1>3. CASE \E c \in Conn : ReadLoopEnds(c)
  BY <1>3 DEF ReadLoopEnds, Counts
<1>4. CASE StartComponent /\ Restart
  BY <1>4 DEF Restart, Fresh, Counts
<1>5. CASE UNCHANGED holderVars
  BY <1>5 DEF holderVars, Counts
<1> QED
  BY <1>1, <1>2, <1>3, <1>4, <1>5
  DEF Next, vars, ConnectStep, FromEnv, ConnectSocket, SendConnect, ConnectFails,
      CancelConnect, OtherWrite, TaskAborted, Answer, Read, HangUp, Crash, Boot,
      StartComponent, Orphaned

LEMMA TypeStep == ASSUME TypeOK, [Next]_vars PROVE TypeOK'
<1>1. Issue' /\ Stages' /\ Counts'
  BY TypeParts, IssueStep, StagesStep, CountsStep
<1> QED
  BY <1>1 DEF TypeOK, Issue, Stages, Counts

(* Every state of the connections of a process is well typed: no count     *)
(* leaves its bounds, and no stream is closed or told of twice.            *)
THEOREM SessionTyped == Spec => []TypeOK
<1>1. TypeOK /\ [Next]_vars => TypeOK'
  BY TypeStep
<1> QED
  BY <1>1, TypeInit, PTL DEF Spec

-----------------------------------------------------------------------------
(***************************************************************************)
(* Nothing stands still: what SocketIsReleased and ConnectReturns need     *)
(* beyond the fairness of the tasks.                                       *)
(***************************************************************************)

(* A connection that nobody holds has no read task that would go on: its   *)
(* socket is closed at our end, or is as soon as the runtime has dropped   *)
(* the future of the task.                                                 *)
UnheldIsReleased ==
  \A c \in Conn :
    phase[c] = "up" /\ Holders(c) = 0 => ~NearOpen(c) \/ task[c] = "aborting"

(* A connect that waits for its answer has it, or has the end of the       *)
(* socket, or the nucleus can answer.                                      *)
ConnectCanReturn ==
  \A c \in Conn :
    phase[c] = "waiting" =>
      \/ IsAccepted(reply[c]) \/ Refusal(c) # {}
      \/ far[c] = "open" /\ reply[c] = "none"

Held(c) ==
  /\ phase[c] \in {"sending", "waiting"} => far[c] # "none"
  /\ phase[c] = "up" => task[c] # "none"
  /\ phase[c] = "up" /\ task[c] = "running" => Holders(c) > 0

HeldInv == TypeOK /\ \A c \in Conn : Held(c)

LEMMA HeldHolder ==
  ASSUME HeldInv, NEW c \in Conn, HolderStep(c)
  PROVE  \A d \in Conn : Held(d)'
<1> USE DEF HeldInv
<1>1. CASE CloneClient(c) \/ Acknowledge(c) \/ OpenStream(c) \/ CancelSubscribe(c)
  BY <1>1 DEF CloneClient, Acknowledge, OpenStream, CancelSubscribe, Held, Holders, TypeOK
<1>2. CASE DropClient(c) \/ DropStream(c) \/ CloseStream(c) \/ CloseFails(c)
  <2>1. /\ UNCHANGED <<phase, far>> /\ LastDrop(c)
        /\ \A d \in Conn : d # c => Holders(d)' = Holders(d)
        /\ Holders(c)' \in Nat
    BY <1>2 DEF DropClient, DropStream, CloseStream, CloseFails, Holders, TypeOK
  <2>2. \A d \in Conn : d # c => Held(d)'
    BY <2>1 DEF LastDrop, Held, TypeOK
  <2>3. Held(c)'
    BY <2>1 DEF LastDrop, Held, TypeOK
  <2> QED
    BY <2>2, <2>3
<1> QED
  BY <1>1, <1>2 DEF HolderStep

LEMMA HeldStep == ASSUME HeldInv, [Next]_vars PROVE \A c \in Conn : Held(c)'
<1> USE DEF HeldInv
<1>1. ASSUME NEW c \in Conn, ConnectStep(c) \/ CancelConnect(c)
      PROVE  \A d \in Conn : Held(d)'
  <2>1. Refusal(c) \subseteq Failure
    BY DEF Refusal, Failure
  <2>2. CASE ReadAck(c)
    BY <2>2 DEF ReadAck, Held, Holders, TypeOK
  <2>3. CASE FromEnv(c) \/ ConnectSocket(c) \/ SendConnect(c) \/ ConnectFails(c)
             \/ CancelConnect(c)
    <3>1. UNCHANGED <<task, holderVars>>
      BY <2>3 DEF FromEnv, ConnectSocket, SendConnect, ConnectFails, CancelConnect
    <3>2. \A d \in Conn : phase'[d] \in {"sending", "waiting"} => far'[d] # "none"
      BY <2>1, <2>3
      DEF FromEnv, ConnectSocket, SendConnect, ConnectFails, CancelConnect, Held, TypeOK,
          Failure
    <3>3. \A d \in Conn : phase'[d] = "up" => phase[d] = "up"
      BY <2>1, <2>3
      DEF FromEnv, ConnectSocket, SendConnect, ConnectFails, CancelConnect, TypeOK, Failure
    <3> QED
      BY <3>1, <3>2, <3>3 DEF Held, Holders, holderVars
  <2> QED
    BY <1>1, <2>2, <2>3 DEF ConnectStep
<1>2. ASSUME NEW c \in Conn,
             \/ OtherWrite(c) \/ ReadLoopEnds(c) \/ TaskAborted(c)
             \/ Answer(c) \/ Read(c) \/ HangUp(c)
      PROVE  \A d \in Conn : Held(d)'
  BY <1>2 DEF OtherWrite, ReadLoopEnds, TaskAborted, Answer, Read, HangUp, Held, Holders,
     holderVars, TypeOK
<1>3. CASE Crash \/ Boot \/ UNCHANGED vars
  BY <1>3 DEF Crash, Boot, vars, Held, Holders, holderVars, TypeOK
<1>4. CASE StartComponent /\ Restart
  BY <1>4 DEF Restart, Fresh, Held
<1>5. CASE StartComponent /\ Orphaned
  BY <1>5 DEF Orphaned, Held, Holders, holderVars
<1> QED
  BY <1>1, <1>2, <1>3, <1>4, <1>5, HeldHolder DEF Next, StartComponent

(* No read task and no socket is leaked, and no connect is left without an *)
(* answer that could come, for any number of connections and holders.      *)
THEOREM NothingIsLeaked == Spec => [](UnheldIsReleased /\ ConnectCanReturn)
<1>1. Init => HeldInv
  BY TypeInit DEF HeldInv, Held, Init, Fresh
<1>2. HeldInv /\ [Next]_vars => HeldInv'
  BY TypeStep, HeldStep DEF HeldInv
<1>3. ASSUME HeldInv PROVE UnheldIsReleased
  BY <1>3 DEF HeldInv, Held, UnheldIsReleased, NearOpen, TypeOK
<1>4. ASSUME HeldInv PROVE ConnectCanReturn
  <2> SUFFICES ASSUME NEW c \in Conn, phase[c] = "waiting"
               PROVE  \/ IsAccepted(reply[c]) \/ Refusal(c) # {}
                      \/ far[c] = "open" /\ reply[c] = "none"
    BY DEF ConnectCanReturn
  <2>1. reply[c] \in {"none"} \cup Reply /\ far[c] \in {"open", "closed"}
    BY <1>4 DEF HeldInv, Held, TypeOK
  <2>2. reply[c] = "none" \/ IsAccepted(reply[c]) \/ Refusal(c) # {}
    BY <2>1 DEF Reply, Refusal, IsAccepted
  <2>3. reply[c] = "none" /\ far[c] = "closed" => Refusal(c) # {}
    BY DEF Refusal
  <2> QED
    BY <2>1, <2>2, <2>3
<1> QED
  BY <1>1, <1>2, <1>3, <1>4, PTL DEF Spec

=============================================================================
