--------------------------- MODULE AudioDaemonProofs ---------------------------
(***************************************************************************)
(* Proofs about AudioDaemon, for any iac processes, other control clients, *)
(* requests and bounds: every variable keeps its type, the one lock of the *)
(* daemon is held by the thread that is where it holds it, and by no       *)
(* other, and whoever a thread waits for is not a thread of the daemon.    *)
(***************************************************************************)
EXTENDS AudioDaemon, SequenceTheorems, TLAPS

USE ControlAssumption, DaemonAssumption

\* Who holds audio_buffer_lock, and where.
LockHeld ==
    /\ lock \in {Nobody, "player"} \cup Iacs
    /\ ppc \in {"wait", "send"}
    /\ rpc \in [Iacs -> {"none", "frame", "write", "over"}]
    /\ (lock = "player") = (ppc = "send")
    /\ \A c \in Iacs : (lock = c) = (rpc[c] = "write")

IacTypes ==
    /\ ipc \in [Iacs -> {"start", "control", "answer", "connect", "stream", "over"}]
    /\ records \in [Iacs -> BOOLEAN]
    /\ chunks \in [Iacs -> 0 .. MaxChunks]

SocketTypes ==
    /\ queued \in Seq(Iacs) /\ arriving \in Seq(Iacs)
    /\ sent \in [Iacs -> 0 .. SockBuf]

OutputTypes ==
    /\ opc \in {"accept", "read", "publish", "release"}
    /\ slot \in BOOLEAN
    /\ played \in 0 .. DevBuf
    /\ active_client_sock \in Iacs \cup {None}
    /\ opc # "accept" => active_client_sock \in Iacs

InputTypes ==
    /\ npc \in {"accept", "register"}
    /\ nsock \in Iacs \cup {None}
    /\ npc = "register" => nsock \in Iacs
    /\ client_list \in Seq(Iacs)
    /\ current \in [Iacs -> Nat]
    /\ \A c \in Iacs : rpc[c] = "write" => current[c] >= 1

\* What the control server may be asked, and so what a variable may be set to.
Requests ==
    request \in [Callers -> {None, Play, Record} \cup Asked]

\* A connection gets its record thread when the input server registers it, and is
\* registered once: so the thread that is started is not one that holds the lock.
Before == {"start", "control", "answer", "connect"}

NewOnes ==
    /\ \A c \in Iacs : ipc[c] \in Before => rpc[c] = "none"
    /\ \A i \in DOMAIN arriving :
           /\ rpc[arriving[i]] = "none" /\ ipc[arriving[i]] \in {"stream", "over"}
           /\ npc = "register" => arriving[i] # nsock
    /\ \A i, j \in DOMAIN arriving : arriving[i] = arriving[j] => i = j
    /\ npc = "register" => rpc[nsock] = "none" /\ ipc[nsock] \in {"stream", "over"}

\* A process is in the queue of the control server or in service once, and has
\* not been answered then.
ControlLine ==
    /\ IsInjective(waiting)
    /\ \A p \in ToSet(waiting) : link[p] \in {"open", "gone"} /\ p # csock
    /\ csock # None => link[csock] \in {"open", "gone"}

\* Recorders and players have connected, and are not mixed up.
Recorders(S) == \A c \in S : records[c] /\ ipc[c] \in {"stream", "over"}
Players(S)   == \A c \in S : ~records[c] /\ ipc[c] \in {"stream", "over"}

DataLines ==
    /\ Players(ToSet(queued))
    /\ opc # "accept" => Players({active_client_sock})
    /\ Recorders(ToSet(arriving) \cup ToSet(client_list))
    /\ npc = "register" => Recorders({nsock})

\* The inductive invariant.
DaemonInv ==
    /\ ControlTypeOK /\ Requests
    /\ LockHeld /\ IacTypes /\ SocketTypes /\ OutputTypes /\ InputTypes
    /\ NewOnes /\ ControlLine /\ DataLines

-------------------------------------------------------------------------------
LEMMA DaemonInvInit == Init => DaemonInv
<1> SUFFICES ASSUME Init PROVE DaemonInv
  OBVIOUS
<1> USE DEF Init, ControlInit
<1>1. ControlTypeOK
  BY DEF ControlTypeOK, Variables
<1>2. LockHeld
  BY DEF LockHeld, Nobody, Callers
<1>3. Requests /\ IacTypes
  BY DEF Requests, IacTypes
<1>4. SocketTypes
  <2>1. [c \in Iacs |-> 0] \in [Iacs -> 0 .. SockBuf]
    OBVIOUS
  <2> QED
    BY <2>1 DEF SocketTypes
<1>7. OutputTypes
  <2>1. slot \in BOOLEAN
    BY Zenon
  <2>2. 0 \in 0 .. DevBuf
    OBVIOUS
  <2> QED
    BY <2>1, <2>2 DEF OutputTypes
<1>5. InputTypes
  BY DEF InputTypes
<1>6. NewOnes
  BY DEF NewOnes
<1>8. ControlLine
  BY DEF ControlLine, IsInjective, ToSet
<1>9. DataLines
  BY DEF DataLines, Players, Recorders, ToSet
<1> QED
  BY <1>1, <1>2, <1>3, <1>4, <1>5, <1>6, <1>7, <1>8, <1>9 DEF DaemonInv

LEMMA ControlTypesKept == DaemonInv /\ [Next]_vars => ControlTypeOK'
<1> SUFFICES ASSUME DaemonInv, [Next]_vars PROVE ControlTypeOK'
  OBVIOUS
<1> USE DEF DaemonInv, ControlTypeOK, Requests, IacTypes
<1>1. CASE ControlAccept
  BY <1>1 DEF ControlAccept, ControlGoes, Callers
<1>2. CASE ControlEnds
  BY <1>2 DEF ControlEnds, Answer, Callers
<1>3. CASE ControlQueued
  BY <1>3 DEF ControlQueued, Answer, Received, Callers
<1>4. CASE ControlUnknown
  BY <1>4 DEF ControlUnknown, Answer, Received, Callers
<1>5. CASE ControlGet
  BY <1>5 DEF ControlGet, Answer, Received, Named, Callers
<1>6. CASE ControlSet
  <2>1. csock \in Callers /\ request[csock] # None /\ request[csock].type = "SET"
    BY <1>6 DEF ControlSet, Received
  <2>2. request[csock] \in Asked
    <3>1. request[csock] # Play /\ request[csock] # Record
      BY <2>1 DEF Play, Record
    <3>2. request[csock] \in {None, Play, Record} \cup Asked
      BY <2>1
    <3> QED
      BY <2>1, <3>1, <3>2
  <2>3. \A x \in IF request[csock].to = None THEN Leftovers ELSE {request[csock].to} :
            x \in Int
    BY <2>1, <2>2
  <2>4. value' \in [Variables -> Int]
    BY <1>6, <2>3 DEF ControlSet
  <2>5. /\ cpc' = "accept" /\ csock' = None /\ waiting' = waiting
        /\ link' = [link EXCEPT ![csock] = IF @ = "open" THEN "answered" ELSE @]
    <3>1. PICK reason : Answer(reason)
      BY <1>6 DEF ControlSet
    <3> QED
      BY <3>1 DEF Answer
  <2>6. csock' \in Callers \cup {None} /\ cpc' = "accept" /\ csock' = None
    BY <2>5
  <2>7. link' \in [Callers -> {"none", "open", "answered", "gone"}]
    BY <2>1, <2>5
  <2> QED
    BY <2>4, <2>5, <2>6, <2>7
<1>7. ASSUME NEW c \in Iacs, IacAsks(c) PROVE ControlTypeOK'
  BY <1>7 DEF IacAsks, IacGoes, Connect, sockVars, outputVars, inputVars, Callers
<1>8. ASSUME NEW c \in Iacs, IacAnswered(c) PROVE ControlTypeOK'
  BY <1>8 DEF IacAnswered, IacGoes, HangUp, sockVars, outputVars, inputVars, Callers
<1>9. ASSUME NEW c \in Iacs, IacQuits(c) PROVE ControlTypeOK'
  BY <1>9 DEF IacQuits, HangUp, controlVars, sockVars, outputVars, inputVars,
     Callers
<1>10. ASSUME NEW p \in Askers, AskerStep(p) PROVE ControlTypeOK'
  <2>1. CASE Connect(p, None)
    BY <2>1 DEF Connect, Callers
  <2>2. CASE HangUp(p)
    BY <2>2 DEF HangUp, Callers
  <2>3. ASSUME NEW r \in Asked, Send(p, r) PROVE ControlTypeOK'
    BY <2>3 DEF Send
  <2> QED
    BY <1>10, <2>1, <2>2, <2>3 DEF AskerStep
<1>11. CASE UNCHANGED <<value, cpc, csock, waiting, link>>
  BY <1>11 DEF ControlTypeOK
<1>12. CASE
      \/ OutputTakes \/ OutputReads \/ OutputPublishes \/ OutputEnds \/ OutputReadFails
      \/ OutputReleases \/ PlayerTakes \/ PlayerSends \/ DevicePlays \/ DeviceDrops
      \/ PlayerFails \/ InputDrops \/ InputAccepts \/ InputRegisters \/ UNCHANGED vars
      \/ \E c \in Iacs : \/ ParseArguments(c) \/ IacNotAnswered(c) \/ IacConnectsData(c)
                         \/ IacWrites(c) \/ IacReads(c) \/ IacEnds(c) \/ IacLost(c)
                         \/ RecorderLocks(c) \/ RecorderWrites(c) \/ RecorderUnlinks(c)
                         \/ RecorderWriteFails(c) \/ RecorderUnlocks(c)
                         \/ RecorderEnds(c)
  BY <1>11, <1>12 DEF OutputTakes, OutputGoes, controlVars, iacVars, inputVars,
     OutputReads, OutputPublishes, sockVars, OutputEnds, OutputReadFails, Gone,
     OutputReleases, PlayerTakes, PlayerSends, DevicePlays, DeviceDrops, PlayerFails,
     InputDrops, InputAccepts, outputVars, InputRegisters, ParseArguments, IacGoes,
     IacNotAnswered, IacConnectsData, IacWrites, IacReads, IacEnds, IacLost,
     RecorderLocks, RecorderWrites, At, RecorderUnlinks, RecorderWriteFails,
     RecorderUnlocks, RecorderEnds, vars
<1> QED
  BY <1>1, <1>2, <1>3, <1>4, <1>5, <1>6, <1>7, <1>8, <1>9, <1>10, <1>11, <1>12 DEF
     Next, DaemonStep, Control, ControlStep, Output, Player, Input, Recorder,
     IacStep

LEMMA RequestsKept == DaemonInv /\ [Next]_vars => Requests'
<1> SUFFICES ASSUME DaemonInv, [Next]_vars PROVE Requests'
  OBVIOUS
<1> USE DEF DaemonInv, Requests, ControlTypeOK
<1>1. CASE ControlEnds
  BY <1>1 DEF ControlEnds, Answer, Callers
<1>2. CASE ControlQueued
  BY <1>2 DEF ControlQueued, Answer, Received, Callers
<1>3. CASE ControlUnknown
  BY <1>3 DEF ControlUnknown, Answer, Received, Callers
<1>4. CASE ControlGet
  BY <1>4 DEF ControlGet, Answer, Received, Named, Callers
<1>5. CASE ControlSet
  BY <1>5 DEF ControlSet, Answer, Received, Named, Callers
<1>6. ASSUME NEW c \in Iacs, IacAsks(c) PROVE Requests'
  BY <1>6 DEF IacAsks, IacGoes, Connect, sockVars, outputVars, inputVars, Callers
<1>7. ASSUME NEW p \in Askers, AskerStep(p) PROVE Requests'
  BY <1>7 DEF AskerStep, Connect, HangUp, Send, iacVars, sockVars, outputVars,
     inputVars, Callers
<1>8. CASE UNCHANGED <<request>>
  BY <1>8 DEF Requests
<1>9. CASE
      \/ OutputTakes \/ OutputReads \/ OutputPublishes \/ OutputEnds \/ OutputReadFails
      \/ OutputReleases \/ PlayerTakes \/ PlayerSends \/ DevicePlays \/ DeviceDrops
      \/ PlayerFails \/ InputDrops \/ InputAccepts \/ InputRegisters \/ ControlAccept
      \/ UNCHANGED vars
      \/ \E c \in Iacs : \/ ParseArguments(c) \/ IacNotAnswered(c) \/ IacAnswered(c)
                         \/ IacConnectsData(c) \/ IacWrites(c) \/ IacReads(c)
                         \/ IacEnds(c) \/ IacLost(c) \/ IacQuits(c) \/ RecorderLocks(c)
                         \/ RecorderWrites(c) \/ RecorderUnlinks(c)
                         \/ RecorderWriteFails(c) \/ RecorderUnlocks(c)
                         \/ RecorderEnds(c)
  BY <1>8, <1>9 DEF OutputTakes, OutputGoes, controlVars, iacVars, inputVars,
     OutputReads, OutputPublishes, sockVars, OutputEnds, OutputReadFails, Gone,
     OutputReleases, PlayerTakes, PlayerSends, DevicePlays, DeviceDrops, PlayerFails,
     InputDrops, InputAccepts, outputVars, InputRegisters, ControlAccept, ControlGoes,
     ParseArguments, IacGoes, IacNotAnswered, IacAnswered, HangUp, IacConnectsData,
     IacWrites, IacReads, IacEnds, IacLost, IacQuits, RecorderLocks, RecorderWrites, At,
     RecorderUnlinks, RecorderWriteFails, RecorderUnlocks, RecorderEnds, vars
<1> QED
  BY <1>1, <1>2, <1>3, <1>4, <1>5, <1>6, <1>7, <1>8, <1>9 DEF Next, DaemonStep,
     Control, ControlStep, Output, Player, Input, Recorder, IacStep

LEMMA LockHeldKept == DaemonInv /\ [Next]_vars => LockHeld'
<1> SUFFICES ASSUME DaemonInv, [Next]_vars PROVE LockHeld'
  OBVIOUS
<1>0. LockHeld /\ InputTypes /\ (npc = "register" => rpc[nsock] = "none")
  BY DEF DaemonInv, NewOnes
<1> USE <1>0 DEF LockHeld, InputTypes
<1>1. CASE PlayerTakes
  BY <1>1 DEF PlayerTakes, controlVars, iacVars, sockVars, inputVars, Nobody,
     Callers
<1>2. CASE PlayerSends \/ PlayerFails
  BY <1>2 DEF PlayerSends, PlayerFails, controlVars, iacVars, sockVars, inputVars,
     Nobody, Callers
<1>3. CASE InputRegisters
  BY <1>3 DEF InputRegisters, controlVars, iacVars, sockVars, outputVars, Nobody,
     Callers
<1>4. ASSUME NEW c \in Iacs, RecorderLocks(c) PROVE LockHeld'
  BY <1>4 DEF RecorderLocks, controlVars, iacVars, sockVars, outputVars, Nobody,
     Callers
<1>5. ASSUME NEW c \in Iacs, RecorderUnlocks(c) PROVE LockHeld'
  BY <1>5 DEF RecorderUnlocks, controlVars, iacVars, sockVars, outputVars, Nobody,
     Callers
<1>6. ASSUME NEW c \in Iacs, RecorderEnds(c) PROVE LockHeld'
  BY <1>6 DEF RecorderEnds, controlVars, iacVars, sockVars, outputVars, Nobody,
     Callers
<1>7. CASE UNCHANGED <<lock, ppc, rpc>>
  BY <1>7 DEF LockHeld
<1>8. CASE
      \/ Control \/ OutputTakes \/ OutputReads \/ OutputPublishes \/ OutputEnds
      \/ OutputReadFails \/ OutputReleases \/ DevicePlays \/ DeviceDrops \/ InputDrops
      \/ InputAccepts \/ UNCHANGED vars
      \/ \E c \in Iacs : \/ ParseArguments(c) \/ IacAsks(c) \/ IacNotAnswered(c)
                         \/ IacAnswered(c) \/ IacConnectsData(c) \/ IacWrites(c)
                         \/ IacReads(c) \/ IacEnds(c) \/ IacLost(c) \/ IacQuits(c)
                         \/ RecorderWrites(c) \/ RecorderUnlinks(c)
                         \/ RecorderWriteFails(c)
      \/ \E p \in Askers : AskerStep(p)
  BY <1>7, <1>8 DEF Control, iacVars, sockVars, outputVars, inputVars, OutputTakes,
     OutputGoes, controlVars, OutputReads, OutputPublishes, OutputEnds, OutputReadFails,
     Gone, OutputReleases, DevicePlays, DeviceDrops, InputDrops, InputAccepts,
     ParseArguments, IacGoes, IacAsks, Connect, IacNotAnswered, IacAnswered, HangUp,
     IacConnectsData, IacWrites, IacReads, IacEnds, IacLost, IacQuits, RecorderWrites,
     At, RecorderUnlinks, RecorderWriteFails, AskerStep, Send, vars
<1> QED
  BY <1>1, <1>2, <1>3, <1>4, <1>5, <1>6, <1>7, <1>8 DEF Next, DaemonStep, Output,
     Player, Input, Recorder, IacStep

LEMMA IacTypesKept == DaemonInv /\ [Next]_vars => IacTypes'
<1> SUFFICES ASSUME DaemonInv, [Next]_vars PROVE IacTypes'
  OBVIOUS
<1> USE DEF DaemonInv, IacTypes
<1>1. ASSUME NEW c \in Iacs, ParseArguments(c) PROVE IacTypes'
  BY <1>1 DEF ParseArguments, IacGoes, controlVars, sockVars, outputVars, inputVars
<1>2. ASSUME NEW c \in Iacs, IacAsks(c) PROVE IacTypes'
  BY <1>2 DEF IacAsks, IacGoes, Connect, sockVars, outputVars, inputVars
<1>3. ASSUME NEW c \in Iacs, IacNotAnswered(c) PROVE IacTypes'
  BY <1>3 DEF IacNotAnswered, IacGoes, controlVars, sockVars, outputVars, inputVars
<1>4. ASSUME NEW c \in Iacs, IacAnswered(c) PROVE IacTypes'
  BY <1>4 DEF IacAnswered, IacGoes, HangUp, sockVars, outputVars, inputVars
<1>5. ASSUME NEW c \in Iacs, IacConnectsData(c) PROVE IacTypes'
  BY <1>5 DEF IacConnectsData, IacGoes, controlVars, outputVars, inputVars
<1>6. ASSUME NEW c \in Iacs, IacWrites(c) PROVE IacTypes'
  BY <1>6 DEF IacWrites, IacGoes, controlVars, outputVars, inputVars
<1>7. ASSUME NEW c \in Iacs, IacReads(c) PROVE IacTypes'
  BY <1>7 DEF IacReads, IacGoes, controlVars, outputVars, inputVars
<1>8. ASSUME NEW c \in Iacs, IacEnds(c) \/ IacLost(c) PROVE IacTypes'
  BY <1>8 DEF IacEnds, IacLost, IacGoes, controlVars, sockVars, outputVars, inputVars
<1>9. ASSUME NEW c \in Iacs, IacQuits(c) PROVE IacTypes'
  BY <1>9 DEF IacQuits, HangUp, controlVars, sockVars, outputVars, inputVars
<1>10. CASE UNCHANGED <<ipc, records, chunks>>
  BY <1>10 DEF IacTypes
<1>11. CASE
      \/ Control \/ OutputTakes \/ OutputReads \/ OutputPublishes \/ OutputEnds
      \/ OutputReadFails \/ OutputReleases \/ PlayerTakes \/ PlayerSends \/ DevicePlays
      \/ DeviceDrops \/ PlayerFails \/ InputDrops \/ InputAccepts \/ InputRegisters
      \/ UNCHANGED vars
      \/ \E c \in Iacs : \/ RecorderLocks(c) \/ RecorderWrites(c) \/ RecorderUnlinks(c)
                         \/ RecorderWriteFails(c) \/ RecorderUnlocks(c)
                         \/ RecorderEnds(c)
      \/ \E p \in Askers : AskerStep(p)
  BY <1>10, <1>11 DEF Control, iacVars, sockVars, outputVars, inputVars, OutputTakes,
     OutputGoes, controlVars, OutputReads, OutputPublishes, OutputEnds, OutputReadFails,
     Gone, OutputReleases, PlayerTakes, PlayerSends, DevicePlays, DeviceDrops,
     PlayerFails, InputDrops, InputAccepts, InputRegisters, RecorderLocks,
     RecorderWrites, At, RecorderUnlinks, RecorderWriteFails, RecorderUnlocks,
     RecorderEnds, AskerStep, Connect, HangUp, Send, vars
<1> QED
  BY <1>1, <1>2, <1>3, <1>4, <1>5, <1>6, <1>7, <1>8, <1>9, <1>10, <1>11 DEF Next,
     DaemonStep, Output, Player, Input, Recorder, IacStep

LEMMA SocketTypesKept == DaemonInv /\ [Next]_vars => SocketTypes'
<1> SUFFICES ASSUME DaemonInv, [Next]_vars PROVE SocketTypes'
  OBVIOUS
<1> USE DEF DaemonInv, SocketTypes, OutputTypes, InputTypes
<1>1. CASE OutputTakes
  BY <1>1 DEF OutputTakes, OutputGoes, controlVars, iacVars, inputVars
<1>2. CASE OutputReads
  BY <1>2 DEF OutputReads, OutputGoes, controlVars, iacVars, inputVars
<1>3. CASE InputAccepts
  BY <1>3 DEF InputAccepts, controlVars, iacVars, outputVars
<1>4. ASSUME NEW c \in Iacs, IacConnectsData(c) PROVE SocketTypes'
  <2>1. Append(arriving, c) \in Seq(Iacs) /\ Append(queued, c) \in Seq(Iacs)
    OBVIOUS
  <2>2. 1 \in 0 .. SockBuf
    OBVIOUS
  <2>3. [sent EXCEPT ![c] = 1] \in [Iacs -> 0 .. SockBuf]
    BY <2>2
  <2> QED
    BY <1>4, <2>1, <2>3 DEF IacConnectsData
<1>5. ASSUME NEW c \in Iacs, IacWrites(c) PROVE SocketTypes'
  BY <1>5 DEF IacWrites, IacGoes, controlVars, outputVars, inputVars
<1>6. ASSUME NEW c \in Iacs, IacReads(c) PROVE SocketTypes'
  BY <1>6 DEF IacReads, IacGoes, controlVars, outputVars, inputVars
<1>7. ASSUME NEW c \in Iacs, RecorderWrites(c) PROVE SocketTypes'
  <2>1. At(c) \in Iacs
    BY <1>7 DEF RecorderWrites, At
  <2>2. sent[At(c)] \in 0 .. SockBuf - 1
    BY <1>7, <2>1 DEF RecorderWrites
  <2>3. sent[At(c)] + 1 \in 0 .. SockBuf
    BY <2>2
  <2>4. [sent EXCEPT ![At(c)] = @ + 1] \in [Iacs -> 0 .. SockBuf]
    BY <2>3
  <2> QED
    BY <1>7, <2>4 DEF RecorderWrites
<1>8. CASE UNCHANGED <<queued, arriving, sent>>
  BY <1>8 DEF SocketTypes
<1>9. CASE
      \/ Control \/ OutputPublishes \/ OutputEnds \/ OutputReadFails \/ OutputReleases
      \/ PlayerTakes \/ PlayerSends \/ DevicePlays \/ DeviceDrops \/ PlayerFails
      \/ InputDrops \/ InputRegisters \/ UNCHANGED vars
      \/ \E c \in Iacs : \/ ParseArguments(c) \/ IacAsks(c) \/ IacNotAnswered(c)
                         \/ IacAnswered(c) \/ IacEnds(c) \/ IacLost(c) \/ IacQuits(c)
                         \/ RecorderLocks(c) \/ RecorderUnlinks(c)
                         \/ RecorderWriteFails(c) \/ RecorderUnlocks(c)
                         \/ RecorderEnds(c)
      \/ \E p \in Askers : AskerStep(p)
  BY <1>8, <1>9 DEF Control, iacVars, sockVars, outputVars, inputVars, OutputPublishes,
     OutputGoes, controlVars, OutputEnds, OutputReadFails, Gone, OutputReleases,
     PlayerTakes, PlayerSends, DevicePlays, DeviceDrops, PlayerFails, InputDrops,
     InputRegisters, ParseArguments, IacGoes, IacAsks, Connect, IacNotAnswered,
     IacAnswered, HangUp, IacEnds, IacLost, IacQuits, RecorderLocks, RecorderUnlinks,
     RecorderWriteFails, At, RecorderUnlocks, RecorderEnds, AskerStep, Send, vars
<1> QED
  BY <1>1, <1>2, <1>3, <1>4, <1>5, <1>6, <1>7, <1>8, <1>9 DEF Next, DaemonStep,
     Output, Player, Input, Recorder, IacStep

LEMMA OutputTypesKept == DaemonInv /\ [Next]_vars => OutputTypes'
<1> SUFFICES ASSUME DaemonInv, [Next]_vars PROVE OutputTypes'
  OBVIOUS
<1> USE DEF DaemonInv, OutputTypes, SocketTypes
<1>1. CASE OutputTakes
  <2>1. Head(queued) \in Iacs
    BY <1>1 DEF OutputTakes
  <2> QED
    BY <1>1, <2>1 DEF OutputTakes, OutputGoes
<1>2. CASE OutputReads
  BY <1>2 DEF OutputReads, OutputGoes, controlVars, iacVars, inputVars
<1>3. CASE OutputPublishes
  BY <1>3 DEF OutputPublishes, OutputGoes, controlVars, iacVars, sockVars, inputVars
<1>4. CASE OutputEnds \/ OutputReadFails
  BY <1>4 DEF OutputEnds, OutputReadFails, OutputGoes, Gone, controlVars, iacVars,
     sockVars, inputVars
<1>5. CASE OutputReleases
  BY <1>5 DEF OutputReleases, OutputGoes, controlVars, iacVars, sockVars, inputVars
<1>6. CASE PlayerSends
  <2>1. played' \in 0 .. DevBuf
    BY <1>6 DEF PlayerSends
  <2>2. UNCHANGED <<opc, active_client_sock>> /\ slot' = FALSE
    BY <1>6 DEF PlayerSends
  <2> QED
    BY <2>1, <2>2
<1>7. CASE DevicePlays \/ DeviceDrops
  <2>1. played' \in 0 .. DevBuf
    BY <1>7 DEF DevicePlays, DeviceDrops
  <2> QED
    BY <1>7, <2>1 DEF DevicePlays, DeviceDrops
<1>8. CASE UNCHANGED <<opc, slot, played, active_client_sock>>
  BY <1>8 DEF OutputTypes
<1>9. CASE
      \/ Control \/ PlayerTakes \/ PlayerFails \/ InputDrops \/ InputAccepts
      \/ InputRegisters \/ UNCHANGED vars
      \/ \E c \in Iacs : \/ ParseArguments(c) \/ IacAsks(c) \/ IacNotAnswered(c)
                         \/ IacAnswered(c) \/ IacConnectsData(c) \/ IacWrites(c)
                         \/ IacReads(c) \/ IacEnds(c) \/ IacLost(c) \/ IacQuits(c)
                         \/ RecorderLocks(c) \/ RecorderWrites(c) \/ RecorderUnlinks(c)
                         \/ RecorderWriteFails(c) \/ RecorderUnlocks(c)
                         \/ RecorderEnds(c)
      \/ \E p \in Askers : AskerStep(p)
  BY <1>8, <1>9 DEF Control, iacVars, sockVars, outputVars, inputVars, PlayerTakes,
     controlVars, InputAccepts, PlayerFails, InputDrops, InputRegisters, ParseArguments,
     IacGoes, IacAsks, Connect, IacNotAnswered, IacAnswered, HangUp, IacConnectsData,
     IacWrites, IacReads, IacEnds, IacLost, IacQuits, RecorderLocks, RecorderWrites, At,
     Gone, RecorderUnlinks, RecorderWriteFails, RecorderUnlocks, RecorderEnds,
     AskerStep, Send, vars
<1> QED
  BY <1>1, <1>2, <1>3, <1>4, <1>5, <1>6, <1>7, <1>8, <1>9 DEF Next, DaemonStep,
     Output, Player, Input, Recorder, IacStep

LEMMA InputTypesKept == DaemonInv /\ [Next]_vars => InputTypes'
<1> SUFFICES ASSUME DaemonInv, [Next]_vars PROVE InputTypes'
  OBVIOUS
<1> USE DEF DaemonInv, InputTypes, SocketTypes, LockHeld
<1>1. CASE InputAccepts
  BY <1>1 DEF InputAccepts, controlVars, iacVars, outputVars
<1>2. CASE InputRegisters
  BY <1>2 DEF InputRegisters, controlVars, iacVars, sockVars, outputVars
<1>10. CASE InputDrops
  BY <1>10 DEF InputDrops, controlVars, iacVars, sockVars, outputVars
<1>3. ASSUME NEW c \in Iacs, RecorderLocks(c) PROVE InputTypes'
  BY <1>3 DEF RecorderLocks, controlVars, iacVars, sockVars, outputVars
<1>4. ASSUME NEW c \in Iacs, RecorderWrites(c) PROVE InputTypes'
  <2>1. InputTypes /\ rpc[c] = "write"
    BY <1>4 DEF RecorderWrites
  <2> HIDE DEF DaemonInv
  <2>2. /\ current' = [current EXCEPT ![c] = @ + 1]
        /\ UNCHANGED <<npc, nsock, client_list, rpc>>
    BY <1>4 DEF RecorderWrites
  <2> QED
    BY <2>1, <2>2
<1>5. ASSUME NEW c \in Iacs, RecorderUnlinks(c) \/ RecorderWriteFails(c) PROVE InputTypes'
  <2>1. current[c] \in 1 .. Len(client_list)
    BY <1>5 DEF RecorderUnlinks, RecorderWriteFails
  <2>2. /\ SubSeq(client_list, 1, current[c] - 1) \in Seq(Iacs)
        /\ SubSeq(client_list, current[c] + 1, Len(client_list)) \in Seq(Iacs)
    <3>1. \A i \in 1 .. Len(client_list) : client_list[i] \in Iacs
      OBVIOUS
    <3>2. Len(client_list) \in Nat
      OBVIOUS
    <3>3. SubSeq(client_list, 1, current[c] - 1) \in Seq(Iacs)
      <4>1. \A i \in 1 .. current[c] - 1 : client_list[i] \in Iacs
        BY <2>1, <3>1, <3>2
      <4> QED
        BY <2>1, <3>2, <4>1, SubSeqProperties
    <3>4. SubSeq(client_list, current[c] + 1, Len(client_list)) \in Seq(Iacs)
      <4>1. \A i \in current[c] + 1 .. Len(client_list) : client_list[i] \in Iacs
        BY <2>1, <3>1, <3>2
      <4> QED
        BY <2>1, <3>2, <4>1, SubSeqProperties
    <3> QED
      BY <3>3, <3>4
  <2>3. RemoveAt(client_list, current[c]) \in Seq(Iacs)
    BY <2>2 DEF RemoveAt
  <2> QED
    BY <1>5, <2>3 DEF RecorderUnlinks, RecorderWriteFails
<1>6. ASSUME NEW c \in Iacs, RecorderUnlocks(c) PROVE InputTypes'
  BY <1>6 DEF RecorderUnlocks, controlVars, iacVars, sockVars, outputVars
<1>7. ASSUME NEW c \in Iacs, RecorderEnds(c) PROVE InputTypes'
  BY <1>7 DEF RecorderEnds, controlVars, iacVars, sockVars, outputVars
<1>8. CASE UNCHANGED <<npc, nsock, client_list, rpc, current>>
  BY <1>8 DEF InputTypes
<1>9. CASE
      \/ Control \/ OutputTakes \/ OutputReads \/ OutputPublishes \/ OutputEnds
      \/ OutputReadFails \/ OutputReleases \/ PlayerTakes \/ PlayerSends \/ DevicePlays
      \/ DeviceDrops \/ PlayerFails \/ UNCHANGED vars
      \/ \E c \in Iacs : \/ ParseArguments(c) \/ IacAsks(c) \/ IacNotAnswered(c)
                         \/ IacAnswered(c) \/ IacConnectsData(c) \/ IacWrites(c)
                         \/ IacReads(c) \/ IacEnds(c) \/ IacLost(c) \/ IacQuits(c)
      \/ \E p \in Askers : AskerStep(p)
  BY <1>8, <1>9 DEF Control, iacVars, sockVars, outputVars, inputVars, OutputTakes,
     OutputGoes, controlVars, OutputReads, OutputPublishes, OutputEnds, OutputReadFails,
     Gone, OutputReleases, PlayerTakes, PlayerSends, DevicePlays, DeviceDrops,
     PlayerFails, ParseArguments, IacGoes, IacAsks, Connect, IacNotAnswered,
     IacAnswered, HangUp, IacConnectsData, IacWrites, IacReads, IacEnds, IacLost,
     IacQuits, AskerStep, Send, vars
<1> QED
  BY <1>1, <1>2, <1>3, <1>4, <1>5, <1>6, <1>7, <1>8, <1>9, <1>10 DEF Next, DaemonStep,
     Output, Player, Input, Recorder, IacStep

\* No iac goes back to where it has no data connection yet.
MovesOn ==
    \A c \in Iacs :
        /\ ipc'[c] \in Before => ipc[c] \in Before
        /\ ipc[c] \in {"stream", "over"} => ipc'[c] \in {"stream", "over"}

\* What is not at the head stays in the queue when the head is taken.
LEMMA Shifted == \A n \in Nat : \A i \in 1 .. n - 1 : i + 1 \in 1 .. n /\ i + 1 # 1
  OBVIOUS

LEMMA IacMovesOn ==
    ASSUME NewOnes, SocketTypes, InputTypes, MovesOn,
           UNCHANGED <<arriving, rpc, npc, nsock>>
    PROVE  NewOnes'
<1>1. \A i \in DOMAIN arriving : arriving[i] \in Iacs
  BY DEF SocketTypes
<1> QED
  BY <1>1 DEF NewOnes, MovesOn, InputTypes

\* Nor does a record thread that has been started.
LEMMA RecorderMovesOn ==
    ASSUME NewOnes, SocketTypes, InputTypes, UNCHANGED <<ipc, arriving, npc, nsock>>,
           \A c \in Iacs : rpc[c] = "none" => rpc'[c] = "none"
    PROVE  NewOnes'
<1>1. \A i \in DOMAIN arriving : arriving[i] \in Iacs
  BY DEF SocketTypes
<1>2. npc = "register" => nsock \in Iacs
  BY DEF InputTypes
<1>3. \A c \in Iacs : ipc[c] \in Before => rpc'[c] = "none"
  BY DEF NewOnes
<1> QED
  BY <1>1, <1>2, <1>3 DEF NewOnes

LEMMA NewOnesKept == DaemonInv /\ [Next]_vars => NewOnes'
<1> SUFFICES ASSUME DaemonInv, [Next]_vars PROVE NewOnes'
  OBVIOUS
<1> USE DEF DaemonInv, NewOnes, Before, SocketTypes, LockHeld, IacTypes, InputTypes
<1>1. CASE InputAccepts
  <2>1. /\ npc' = "register" /\ arriving # <<>>
        /\ nsock' = Head(arriving) /\ arriving' = Tail(arriving)
        /\ UNCHANGED <<ipc, rpc>>
    BY <1>1 DEF InputAccepts, iacVars
  <2>2. 1 \in DOMAIN arriving /\ Head(arriving) = arriving[1]
    BY <2>1
  <2>3. \A i \in DOMAIN arriving' : i + 1 \in DOMAIN arriving /\ i + 1 # 1
                                    /\ arriving'[i] = arriving[i + 1]
    <3>1. /\ Len(Tail(arriving)) = Len(arriving) - 1
          /\ \A i \in 1 .. Len(Tail(arriving)) : Tail(arriving)[i] = arriving[i + 1]
          /\ Tail(arriving) \in Seq(Iacs)
      BY <2>1, HeadTailProperties
    <3>2. Len(arriving) \in Nat /\ DOMAIN arriving = 1 .. Len(arriving)
      OBVIOUS
    <3>3. DOMAIN arriving' = 1 .. Len(arriving) - 1
      BY <2>1, <3>1
    <3> SUFFICES ASSUME NEW i \in DOMAIN arriving'
                 PROVE  /\ i + 1 \in DOMAIN arriving /\ i + 1 # 1
                        /\ arriving'[i] = arriving[i + 1]
      OBVIOUS
    <3>4. i \in 1 .. Len(Tail(arriving)) /\ i + 1 \in 1 .. Len(arriving) /\ i + 1 # 1
      <4>1. i \in 1 .. Len(arriving) - 1
        BY <3>3
      <4>2. i + 1 \in 1 .. Len(arriving) /\ i + 1 # 1
        BY <3>2, <4>1, Shifted
      <4> QED
        BY <3>1, <4>1, <4>2
    <3> QED
      BY <2>1, <3>1, <3>2, <3>4
  <2>4. \A i, j \in DOMAIN arriving' : arriving'[i] = arriving'[j] => i = j
    <3> SUFFICES ASSUME NEW i \in DOMAIN arriving', NEW j \in DOMAIN arriving',
                        arriving'[i] = arriving'[j]
                 PROVE  i = j
      OBVIOUS
    <3>1. i + 1 = j + 1
      BY <2>3
    <3>2. i \in Int /\ j \in Int
      BY <2>1
    <3> QED
      BY <3>1, <3>2
  <2> QED
    BY <2>1, <2>2, <2>3, <2>4
<1>2. CASE InputRegisters
  <2>1. /\ npc = "register" /\ npc' = "accept"
        /\ rpc' = [rpc EXCEPT ![nsock] = "frame"]
        /\ UNCHANGED <<ipc, arriving>>
    BY <1>2 DEF InputRegisters, iacVars, sockVars
  <2>2. \A c \in Iacs : c # nsock => rpc'[c] = rpc[c]
    BY <2>1
  <2>3. \A i \in DOMAIN arriving : arriving[i] \in Iacs /\ arriving[i] # nsock
    BY <2>1
  <2> QED
    BY <2>1, <2>2, <2>3
<1>3. ASSUME NEW c \in Iacs, ParseArguments(c) PROVE NewOnes'
  <2>1. MovesOn /\ UNCHANGED <<arriving, rpc, npc, nsock>>
    BY <1>3 DEF ParseArguments, IacGoes, controlVars, sockVars, outputVars, inputVars,
       MovesOn
  <2> QED
    BY <2>1, IacMovesOn
<1>4. ASSUME NEW c \in Iacs, IacAsks(c) PROVE NewOnes'
  <2>1. MovesOn /\ UNCHANGED <<arriving, rpc, npc, nsock>>
    BY <1>4 DEF IacAsks, IacGoes, Connect, sockVars, outputVars, inputVars, MovesOn
  <2> QED
    BY <2>1, IacMovesOn
<1>5. ASSUME NEW c \in Iacs, IacNotAnswered(c) PROVE NewOnes'
  <2>1. MovesOn /\ UNCHANGED <<arriving, rpc, npc, nsock>>
    BY <1>5 DEF IacNotAnswered, IacGoes, controlVars, sockVars, outputVars, inputVars,
       MovesOn
  <2> QED
    BY <2>1, IacMovesOn
<1>6. ASSUME NEW c \in Iacs, IacAnswered(c) PROVE NewOnes'
  <2>1. MovesOn /\ UNCHANGED <<arriving, rpc, npc, nsock>>
    BY <1>6 DEF IacAnswered, IacGoes, HangUp, sockVars, outputVars, inputVars, MovesOn
  <2> QED
    BY <2>1, IacMovesOn
<1>7. ASSUME NEW c \in Iacs, IacConnectsData(c) PROVE NewOnes'
  <2>1. MovesOn /\ ipc[c] = "connect" /\ ipc'[c] = "stream"
    BY <1>7 DEF IacConnectsData, IacGoes, MovesOn
  <2>2. UNCHANGED <<rpc, npc, nsock>>
    BY <1>7 DEF IacConnectsData, inputVars
  <2>3. CASE records[c]
    <3>1. arriving' = Append(arriving, c)
      BY <1>7, <2>3 DEF IacConnectsData
    <3>2. /\ DOMAIN arriving' = 1 .. Len(arriving) + 1
          /\ \A i \in DOMAIN arriving : arriving'[i] = arriving[i] /\ arriving[i] # c
          /\ arriving'[Len(arriving) + 1] = c
      <4>1. /\ Len(Append(arriving, c)) = Len(arriving) + 1
            /\ \A i \in 1 .. Len(arriving) : Append(arriving, c)[i] = arriving[i]
            /\ Append(arriving, c)[Len(arriving) + 1] = c
            /\ Append(arriving, c) \in Seq(Iacs)
        BY AppendProperties
      <4>2. DOMAIN arriving = 1 .. Len(arriving)
        OBVIOUS
      <4>3. DOMAIN arriving' = 1 .. Len(arriving) + 1
        BY <3>1, <4>1
      <4>4. \A i \in DOMAIN arriving : arriving[i] # c
        BY <2>1
      <4> QED
        BY <3>1, <4>1, <4>2, <4>3, <4>4
    <3>3. /\ rpc[c] = "none" /\ ipc'[c] \in {"stream", "over"}
          /\ npc = "register" => c # nsock
      BY <2>1
    <3>4. \A i \in DOMAIN arriving' : i \in DOMAIN arriving \/ i = Len(arriving) + 1
      BY <3>2
    <3>5. \A i \in DOMAIN arriving' :
              /\ rpc'[arriving'[i]] = "none" /\ ipc'[arriving'[i]] \in {"stream", "over"}
              /\ npc' = "register" => arriving'[i] # nsock'
      <4> SUFFICES ASSUME NEW i \in DOMAIN arriving'
                   PROVE  /\ rpc[arriving'[i]] = "none"
                          /\ ipc'[arriving'[i]] \in {"stream", "over"}
                          /\ npc = "register" => arriving'[i] # nsock
        BY <2>2
      <4>1. CASE i \in DOMAIN arriving
        <5>1. arriving'[i] = arriving[i] /\ arriving[i] \in Iacs
          BY <3>2, <4>1
        <5>2. /\ rpc[arriving[i]] = "none" /\ ipc[arriving[i]] \in {"stream", "over"}
              /\ npc = "register" => arriving[i] # nsock
          BY <4>1
        <5>3. ipc'[arriving[i]] \in {"stream", "over"}
          BY <2>1, <5>1, <5>2 DEF MovesOn
        <5> QED
          BY <5>1, <5>2, <5>3
      <4>2. CASE i = Len(arriving) + 1
        <5>1. arriving'[i] = c
          BY <3>2, <4>2
        <5> HIDE DEF DaemonInv, NewOnes, SocketTypes, LockHeld, IacTypes, InputTypes
        <5> QED
          BY <3>3, <5>1
      <4> QED
        BY <3>4, <4>1, <4>2
    <3>6. \A i \in DOMAIN arriving : arriving'[i] = arriving[i] /\ arriving[i] # c
      BY <3>2
    <3>7. \A i, j \in DOMAIN arriving' : arriving'[i] = arriving'[j] => i = j
      <4> SUFFICES ASSUME NEW i \in DOMAIN arriving', NEW j \in DOMAIN arriving',
                          arriving'[i] = arriving'[j]
                   PROVE  i = j
        OBVIOUS
      <4>1. CASE i \in DOMAIN arriving /\ j \in DOMAIN arriving
        BY <3>6, <4>1
      <4>2. CASE i = Len(arriving) + 1 \/ j = Len(arriving) + 1
        <5>1. arriving'[Len(arriving) + 1] = c
          BY <3>2
        <5> QED
          BY <3>4, <3>6, <4>2, <5>1
      <4> QED
        BY <3>4, <4>1, <4>2
    <3> QED
      BY <2>1, <2>2, <3>5, <3>7 DEF MovesOn
  <2>4. CASE ~records[c]
    BY <1>7, <2>1, <2>2, <2>4, IacMovesOn DEF IacConnectsData
  <2> QED
    BY <2>3, <2>4
<1>8. ASSUME NEW c \in Iacs, IacWrites(c) PROVE NewOnes'
  <2>1. MovesOn /\ UNCHANGED <<arriving, rpc, npc, nsock>>
    BY <1>8 DEF IacWrites, IacGoes, controlVars, outputVars, inputVars, MovesOn
  <2> QED
    BY <2>1, IacMovesOn
<1>9. ASSUME NEW c \in Iacs, IacReads(c) PROVE NewOnes'
  <2>1. MovesOn /\ UNCHANGED <<arriving, rpc, npc, nsock>>
    BY <1>9 DEF IacReads, IacGoes, controlVars, outputVars, inputVars, MovesOn
  <2> QED
    BY <2>1, IacMovesOn
<1>10. ASSUME NEW c \in Iacs, IacEnds(c) \/ IacLost(c) PROVE NewOnes'
  <2>1. MovesOn /\ UNCHANGED <<arriving, rpc, npc, nsock>>
    BY <1>10 DEF IacEnds, IacLost, IacGoes, controlVars, sockVars, outputVars,
       inputVars, MovesOn
  <2> QED
    BY <2>1, IacMovesOn
<1>11. ASSUME NEW c \in Iacs, IacQuits(c) PROVE NewOnes'
  <2>1. MovesOn /\ UNCHANGED <<arriving, rpc, npc, nsock>>
    BY <1>11 DEF IacQuits, HangUp, controlVars, sockVars, outputVars, inputVars,
       MovesOn
  <2> QED
    BY <2>1, IacMovesOn
<1>12. ASSUME NEW c \in Iacs, RecorderLocks(c) PROVE NewOnes'
  <2>1. /\ UNCHANGED <<ipc, arriving, npc, nsock>>
        /\ \A x \in Iacs : rpc[x] = "none" => rpc'[x] = "none"
    BY <1>12 DEF RecorderLocks, controlVars, iacVars, sockVars, outputVars
  <2> QED
    BY <2>1, RecorderMovesOn
<1>13. ASSUME NEW c \in Iacs, RecorderUnlocks(c) PROVE NewOnes'
  <2>1. /\ UNCHANGED <<ipc, arriving, npc, nsock>>
        /\ \A x \in Iacs : rpc[x] = "none" => rpc'[x] = "none"
    BY <1>13 DEF RecorderUnlocks, controlVars, iacVars, sockVars, outputVars
  <2> QED
    BY <2>1, RecorderMovesOn
<1>14. ASSUME NEW c \in Iacs, RecorderEnds(c) PROVE NewOnes'
  <2>1. /\ UNCHANGED <<ipc, arriving, npc, nsock>>
        /\ \A x \in Iacs : rpc[x] = "none" => rpc'[x] = "none"
    BY <1>14 DEF RecorderEnds, controlVars, iacVars, sockVars, outputVars
  <2> QED
    BY <2>1, RecorderMovesOn
<1>15. CASE UNCHANGED <<ipc, arriving, rpc, npc, nsock>>
  BY <1>15 DEF NewOnes
<1>16. CASE
      \/ Control \/ OutputTakes \/ OutputReads \/ OutputPublishes \/ OutputEnds
      \/ OutputReadFails \/ OutputReleases \/ PlayerTakes \/ PlayerSends \/ DevicePlays
      \/ DeviceDrops \/ PlayerFails \/ UNCHANGED vars
      \/ \E c \in Iacs : \/ RecorderWrites(c) \/ RecorderUnlinks(c)
                         \/ RecorderWriteFails(c)
      \/ \E p \in Askers : AskerStep(p)
  BY <1>15, <1>16 DEF Control, iacVars, sockVars, outputVars, inputVars, OutputTakes,
     OutputGoes, controlVars, OutputReads, OutputPublishes, OutputEnds, OutputReadFails,
     Gone, OutputReleases, PlayerTakes, PlayerSends, DevicePlays, DeviceDrops,
     PlayerFails, RecorderWrites, At, RecorderUnlinks, RecorderWriteFails, AskerStep,
     Connect, HangUp, Send, vars
<1>17. CASE InputDrops
  BY <1>17 DEF InputDrops, controlVars, iacVars, sockVars, outputVars
<1> QED
  BY <1>1, <1>2, <1>3, <1>4, <1>5, <1>6, <1>7, <1>8, <1>9, <1>10, <1>11, <1>12,
     <1>13, <1>14, <1>15, <1>16, <1>17 DEF Next, DaemonStep, Output, Player, Input,
     Recorder, IacStep

-------------------------------------------------------------------------------
(***************************************************************************)
(* Queues.                                                                 *)
(***************************************************************************)
\* Who joins a queue is in it, once if he was not.
LEMMA Joined ==
  ASSUME NEW S, NEW s \in Seq(S), NEW x \in S
  PROVE  /\ ToSet(Append(s, x)) = ToSet(s) \cup {x}
         /\ IsInjective(s) /\ x \notin ToSet(s) => IsInjective(Append(s, x))
<1>1. /\ Append(s, x) \in Seq(S) /\ DOMAIN Append(s, x) = 1 .. Len(s) + 1
      /\ \A i \in 1 .. Len(s) : Append(s, x)[i] = s[i]
      /\ Append(s, x)[Len(s) + 1] = x
      /\ DOMAIN s = 1 .. Len(s) /\ Len(s) \in Nat
  BY LenProperties
<1>2. ToSet(Append(s, x)) = ToSet(s) \cup {x}
  BY <1>1 DEF ToSet
<1>3. ASSUME IsInjective(s), x \notin ToSet(s) PROVE IsInjective(Append(s, x))
  <2>1. \A i \in 1 .. Len(s) : s[i] # x
    BY <1>1, <1>3 DEF ToSet
  <2> QED
    BY <1>1, <1>3, <2>1 DEF IsInjective
<1> QED
  BY <1>2, <1>3

\* Who is taken from the head was in the queue, and is no more if he was once.
LEMMA Headed ==
  ASSUME NEW S, NEW s \in Seq(S), s # <<>>
  PROVE  /\ Head(s) \in ToSet(s)
         /\ ToSet(Tail(s)) \subseteq ToSet(s)
         /\ IsInjective(s) => IsInjective(Tail(s)) /\ Head(s) \notin ToSet(Tail(s))
<1>1. /\ Len(s) \in Nat /\ Len(s) >= 1 /\ DOMAIN s = 1 .. Len(s) /\ Head(s) = s[1]
      /\ DOMAIN Tail(s) = 1 .. Len(s) - 1
      /\ \A i \in 1 .. Len(s) - 1 : Tail(s)[i] = s[i + 1]
  <2>1. Len(s) \in Nat /\ DOMAIN s = 1 .. Len(s) /\ Len(s) >= 1 /\ Head(s) = s[1]
    BY LenProperties, EmptySeq
  <2>2. /\ Tail(s) \in Seq(S) /\ Len(Tail(s)) = Len(s) - 1
        /\ \A i \in 1 .. Len(Tail(s)) : Tail(s)[i] = s[i + 1]
    BY HeadTailProperties
  <2>3. DOMAIN Tail(s) = 1 .. Len(Tail(s))
    BY <2>2, LenProperties
  <2> QED
    BY <2>1, <2>2, <2>3
<1>2. \A i \in 1 .. Len(s) - 1 : i + 1 \in 1 .. Len(s) /\ i + 1 # 1
  BY <1>1, Shifted
<1>3. Head(s) \in ToSet(s) /\ ToSet(Tail(s)) \subseteq ToSet(s)
  BY <1>1, <1>2 DEF ToSet
<1>4. ASSUME IsInjective(s) PROVE IsInjective(Tail(s)) /\ Head(s) \notin ToSet(Tail(s))
  <2>1. \A i, j \in 1 .. Len(s) - 1 : i + 1 = j + 1 => i = j
    BY <1>1
  <2> QED
    BY <1>1, <1>2, <1>4, <2>1 DEF IsInjective, ToSet
<1> QED
  BY <1>3, <1>4

\* The list grows at the head.
LEMMA Fronted ==
  ASSUME NEW S, NEW s \in Seq(S), NEW x \in S
  PROVE  ToSet(<<x>> \o s) \subseteq ToSet(s) \cup {x}
<1>1. <<x>> \in Seq(S) /\ Len(<<x>>) = 1 /\ <<x>>[1] = x /\ Len(s) \in Nat
      /\ DOMAIN s = 1 .. Len(s)
  BY LenProperties
<1>2. /\ <<x>> \o s \in Seq(S) /\ Len(<<x>> \o s) = Len(<<x>>) + Len(s)
      /\ \A i \in 1 .. Len(<<x>>) + Len(s) :
             (<<x>> \o s)[i] = IF i <= Len(<<x>>) THEN <<x>>[i] ELSE s[i - Len(<<x>>)]
  BY <1>1, ConcatProperties
<1>3. DOMAIN (<<x>> \o s) = 1 .. Len(s) + 1
  BY <1>1, <1>2, LenProperties
<1>4. \A i \in 1 .. Len(s) + 1 :
          (<<x>> \o s)[i] = x \/ (i - 1 \in 1 .. Len(s) /\ (<<x>> \o s)[i] = s[i - 1])
  BY <1>1, <1>2
<1> QED
  BY <1>1, <1>3, <1>4 DEF ToSet

\* Unlinking adds nobody.
LEMMA Unlinked ==
  ASSUME NEW S, NEW s \in Seq(S), NEW i \in 1 .. Len(s)
  PROVE  ToSet(RemoveAt(s, i)) \subseteq ToSet(s)
<1> DEFINE a == SubSeq(s, 1, i - 1)
           b == SubSeq(s, i + 1, Len(s))
<1>1. Len(s) \in Nat /\ DOMAIN s = 1 .. Len(s) /\ \A j \in 1 .. Len(s) : s[j] \in S
  BY LenProperties, ElementOfSeq
<1>2. /\ a \in Seq(S) /\ Len(a) = i - 1
      /\ \A j \in 1 .. i - 1 : a[j] = s[j]
  <2>1. /\ a \in Seq(S) /\ Len(a) = IF 1 <= i - 1 THEN (i - 1) - 1 + 1 ELSE 0
        /\ \A j \in 1 .. (i - 1) - 1 + 1 : a[j] = s[1 + j - 1]
    BY <1>1, SubSeqProperties
  <2> QED
    BY <1>1, <2>1
<1>3. /\ b \in Seq(S) /\ Len(b) = Len(s) - i
      /\ \A j \in 1 .. Len(s) - i : b[j] = s[i + j]
  <2>1. /\ b \in Seq(S) /\ Len(b) = IF i + 1 <= Len(s) THEN Len(s) - (i + 1) + 1 ELSE 0
        /\ \A j \in 1 .. Len(s) - (i + 1) + 1 : b[j] = s[(i + 1) + j - 1]
    BY <1>1, SubSeqProperties
  <2> QED
    BY <1>1, <2>1
<1>8. a \in Seq(S) /\ b \in Seq(S)
  BY <1>2, <1>3
<1> HIDE DEF a, b
<1>4. /\ a \o b \in Seq(S) /\ Len(a \o b) = Len(a) + Len(b)
      /\ \A j \in 1 .. Len(a) + Len(b) :
             (a \o b)[j] = IF j <= Len(a) THEN a[j] ELSE b[j - Len(a)]
  BY <1>8, ConcatProperties
<1>5. DOMAIN (a \o b) = 1 .. Len(a) + Len(b)
  BY <1>4, LenProperties
<1>6. ASSUME NEW j \in 1 .. Len(a) + Len(b)
      PROVE  \E k \in 1 .. Len(s) : (a \o b)[j] = s[k]
  <2>1. CASE j <= i - 1
    <3>1. j \in 1 .. i - 1 /\ j \in 1 .. Len(s) /\ j <= Len(a)
      BY <2>1, <1>1, <1>2, <1>3
    <3> QED
      BY <3>1, <1>4, <1>2
  <2>2. CASE ~(j <= i - 1)
    <3>1. j - (i - 1) \in 1 .. Len(s) - i /\ i + (j - (i - 1)) \in 1 .. Len(s)
      BY <2>2, <1>1, <1>2, <1>3
    <3>2. (a \o b)[j] = b[j - (i - 1)]
      <4>1. ~(j <= Len(a)) /\ Len(a) = i - 1
        BY <2>2, <1>2
      <4>2. (a \o b)[j] = b[j - Len(a)]
        BY <4>1, <1>4
      <4> QED
        BY <4>1, <4>2
    <3>3. b[j - (i - 1)] = s[i + (j - (i - 1))]
      BY <3>1, <1>3
    <3> QED
      BY <3>1, <3>2, <3>3
  <2> QED
    BY <2>1, <2>2
<1>7. ToSet(a \o b) \subseteq ToSet(s)
  BY <1>1, <1>5, <1>6 DEF ToSet
<1> QED
  BY <1>7 DEF RemoveAt, a, b

-------------------------------------------------------------------------------
LEMMA ControlLineKept == DaemonInv /\ [Next]_vars => ControlLine'
<1> SUFFICES ASSUME DaemonInv, [Next]_vars PROVE ControlLine'
  OBVIOUS
<1>0. /\ link \in [Callers -> {"none", "open", "answered", "gone"}]
      /\ waiting \in Seq(Callers)
      /\ csock \in Callers \cup {None} /\ (cpc = "recv") = (csock # None)
      /\ ToSet(waiting) \subseteq Callers /\ None \notin Callers
      /\ Iacs \subseteq Callers /\ Askers \subseteq Callers
  <2>1. /\ link \in [Callers -> {"none", "open", "answered", "gone"}]
        /\ waiting \in Seq(Callers)
        /\ csock \in Callers \cup {None} /\ (cpc = "recv") = (csock # None)
    BY DEF DaemonInv, ControlTypeOK
  <2>2. ToSet(waiting) \subseteq Callers
    BY <2>1 DEF ToSet
  <2> QED
    BY <2>1, <2>2 DEF Callers
<1>1. CASE ControlAccept
  <2>1. /\ cpc = "accept" /\ waiting # <<>> /\ csock' = Head(waiting)
        /\ waiting' = Tail(waiting) /\ link' = link
    BY <1>1 DEF ControlAccept, ControlGoes
  <2>2. /\ Head(waiting) \in ToSet(waiting) /\ ToSet(waiting') \subseteq ToSet(waiting)
        /\ IsInjective(waiting') /\ Head(waiting) \notin ToSet(waiting')
    BY <1>0, <2>1, Headed DEF DaemonInv, ControlLine
  <2> QED
    BY <2>1, <2>2 DEF DaemonInv, ControlLine
<1>2. ASSUME cpc = "recv", NEW with, Answer(with) PROVE ControlLine'
  <2>1. /\ csock' = None /\ waiting' = waiting
        /\ \A p \in Callers : p # csock => link'[p] = link[p]
    BY <1>0, <1>2 DEF Answer
  <2> QED
    BY <1>0, <2>1 DEF DaemonInv, ControlLine
<1>3. ASSUME NEW p \in Callers, NEW r, Connect(p, r) PROVE ControlLine'
  <2>1. /\ link[p] = "none" /\ waiting' = Append(waiting, p) /\ csock' = csock
        /\ link'[p] = "open" /\ \A q \in Callers : q # p => link'[q] = link[q]
    BY <1>0, <1>3 DEF Connect
  <2>2. p \notin ToSet(waiting) /\ p # csock
    BY <1>0, <2>1 DEF DaemonInv, ControlLine
  <2>3. ToSet(waiting') = ToSet(waiting) \cup {p} /\ IsInjective(waiting')
    BY <1>0, <2>1, <2>2, Joined DEF DaemonInv, ControlLine
  <2> QED
    BY <1>0, <2>1, <2>2, <2>3 DEF DaemonInv, ControlLine
<1>4. ASSUME NEW p \in Callers, HangUp(p) PROVE ControlLine'
  <2>1. /\ waiting' = waiting /\ csock' = csock
        /\ link'[p] = "gone" /\ \A q \in Callers : q # p => link'[q] = link[q]
    BY <1>0, <1>4 DEF HangUp
  <2> QED
    BY <1>0, <2>1 DEF DaemonInv, ControlLine
<1>5. CASE UNCHANGED <<waiting, csock, link>>
  BY <1>5 DEF DaemonInv, ControlLine
<1>6. CASE ControlEnds \/ ControlQueued \/ ControlUnknown \/ ControlGet \/ ControlSet
  <2>1. cpc = "recv" /\ \E with : Answer(with)
    BY <1>6 DEF ControlEnds, ControlQueued, ControlUnknown, ControlGet, ControlSet, Received
  <2> QED
    BY <1>2, <2>1
<1>7. ASSUME NEW c \in Iacs, IacAsks(c) \/ IacAnswered(c) \/ IacQuits(c) PROVE ControlLine'
  <2>1. (\E r : Connect(c, r)) \/ HangUp(c) \/ UNCHANGED controlVars
    BY <1>7 DEF IacAsks, IacAnswered, IacQuits
  <2> QED
    BY <1>0, <1>3, <1>4, <1>5, <2>1 DEF controlVars
<1>8. ASSUME NEW p \in Askers, AskerStep(p) PROVE ControlLine'
  <2>1. Connect(p, None) \/ HangUp(p) \/ UNCHANGED <<waiting, csock, link>>
    BY <1>8 DEF AskerStep, Send
  <2> QED
    BY <1>0, <1>3, <1>4, <1>5, <2>1
<1>9. CASE
      \/ Output \/ OutputReadFails \/ Player \/ Input \/ DevicePlays \/ DeviceDrops
      \/ PlayerFails \/ InputDrops \/ UNCHANGED vars
      \/ \E c \in Iacs : \/ ParseArguments(c) \/ IacNotAnswered(c) \/ IacConnectsData(c)
                         \/ IacWrites(c) \/ IacReads(c) \/ IacEnds(c) \/ IacLost(c)
                         \/ Recorder(c) \/ RecorderWriteFails(c) \/ RecorderEnds(c)
  <2>1. UNCHANGED <<waiting, csock, link>>
    BY <1>9 DEF Output, OutputTakes, OutputReads, OutputPublishes, OutputEnds,
       OutputReadFails, OutputReleases, Player, PlayerTakes, PlayerSends, Input,
       InputAccepts, InputRegisters, DevicePlays, DeviceDrops, PlayerFails, InputDrops,
       ParseArguments, IacNotAnswered, IacConnectsData, IacWrites, IacReads, IacEnds,
       IacLost, Recorder, RecorderLocks, RecorderWrites, RecorderUnlinks,
       RecorderWriteFails, RecorderUnlocks, RecorderEnds, controlVars, vars
  <2> QED
    BY <1>5, <2>1
<1> QED
  BY <1>1, <1>6, <1>7, <1>8, <1>9 DEF Next, DaemonStep, Control, ControlStep, IacStep

\* What an iac is, and that it has connected, does not change again.
Fixed ==
    \A c \in Iacs : ipc[c] \in {"stream", "over"} =>
        ipc'[c] \in {"stream", "over"} /\ records'[c] = records[c]

LEMMA IacsFixed == DaemonInv /\ [Next]_vars => Fixed
<1> SUFFICES ASSUME DaemonInv, [Next]_vars PROVE Fixed
  OBVIOUS
<1> USE DEF DaemonInv, IacTypes
<1>1. ASSUME NEW c \in Iacs, ParseArguments(c) PROVE Fixed
  BY <1>1 DEF Fixed, ParseArguments, IacGoes
<1>2. ASSUME NEW c \in Iacs,
             \/ IacAsks(c) \/ IacNotAnswered(c) \/ IacAnswered(c) \/ IacConnectsData(c)
             \/ IacWrites(c) \/ IacReads(c) \/ IacEnds(c) \/ IacLost(c) \/ IacQuits(c)
      PROVE  Fixed
  BY <1>2 DEF Fixed, IacAsks, IacNotAnswered, IacAnswered, IacConnectsData, IacWrites,
     IacReads, IacEnds, IacLost, IacQuits, IacGoes
<1>3. CASE
      \/ Control \/ Output \/ OutputReadFails \/ Player \/ Input \/ DevicePlays
      \/ DeviceDrops \/ PlayerFails \/ InputDrops \/ UNCHANGED vars
      \/ \E c \in Iacs : \/ Recorder(c) \/ RecorderWriteFails(c) \/ RecorderEnds(c)
      \/ \E p \in Askers : AskerStep(p)
  <2>1. UNCHANGED <<ipc, records>>
    BY <1>3 DEF Control, Output, OutputTakes, OutputReads, OutputPublishes, OutputEnds,
       OutputReadFails, OutputReleases, Player, PlayerTakes, PlayerSends, Input,
       InputAccepts, InputRegisters, DevicePlays, DeviceDrops, PlayerFails, InputDrops,
       Recorder, RecorderLocks, RecorderWrites, RecorderUnlinks, RecorderWriteFails,
       RecorderUnlocks, RecorderEnds, AskerStep, iacVars, vars
  <2> QED
    BY <2>1 DEF Fixed
<1> QED
  BY <1>1, <1>2, <1>3 DEF Next, DaemonStep, IacStep

\* Connections move from the queues to where they are served, nowhere else.
Flow ==
    /\ \A c \in ToSet(queued') :
           c \in ToSet(queued) \/ (c \in Iacs /\ ~records'[c] /\ ipc'[c] = "stream")
    /\ opc' # "accept" =>
           \/ opc # "accept" /\ active_client_sock' = active_client_sock
           \/ active_client_sock' \in ToSet(queued)
    /\ \A c \in ToSet(arriving') :
           c \in ToSet(arriving) \/ (c \in Iacs /\ records'[c] /\ ipc'[c] = "stream")
    /\ npc' = "register" =>
           (npc = "register" /\ nsock' = nsock) \/ nsock' \in ToSet(arriving)
    /\ \A c \in ToSet(client_list') :
           c \in ToSet(client_list) \/ (npc = "register" /\ c = nsock)

LEMMA LinesFlow == DaemonInv /\ [Next]_vars => Flow
<1> SUFFICES ASSUME DaemonInv, [Next]_vars PROVE Flow
  OBVIOUS
<1>1. /\ queued \in Seq(Iacs) /\ arriving \in Seq(Iacs) /\ client_list \in Seq(Iacs)
      /\ records \in [Iacs -> BOOLEAN]
      /\ ipc \in [Iacs -> {"start", "control", "answer", "connect", "stream", "over"}]
      /\ current \in [Iacs -> Nat] /\ \A c \in Iacs : rpc[c] = "write" => current[c] >= 1
      /\ npc = "register" => nsock \in Iacs
      /\ opc \in {"accept", "read", "publish", "release"}
  BY DEF DaemonInv, SocketTypes, InputTypes, IacTypes, OutputTypes
<1> HIDE DEF DaemonInv
<1>2. CASE OutputTakes
  BY <1>1, <1>2, Headed
     DEF Flow, OutputTakes, OutputGoes, iacVars, sockVars, inputVars
<1>3. CASE InputAccepts
  BY <1>1, <1>3, Headed DEF Flow, InputAccepts, iacVars, sockVars, outputVars
<1>4. CASE InputRegisters
  BY <1>1, <1>4, Fronted DEF Flow, InputRegisters, iacVars, sockVars, outputVars
<1>5. ASSUME NEW c \in Iacs, IacConnectsData(c) PROVE Flow
  <2>1. /\ records' = records /\ ipc'[c] = "stream"
        /\ UNCHANGED <<opc, active_client_sock, npc, nsock, client_list>>
    BY <1>1, <1>5 DEF IacConnectsData, IacGoes, outputVars, inputVars
  <2>2. CASE records[c]
    <3>1. arriving' = Append(arriving, c) /\ queued' = queued
      BY <1>5, <2>2 DEF IacConnectsData
    <3> QED
      BY <1>1, <2>1, <2>2, <3>1, Joined DEF Flow
  <2>3. CASE ~records[c]
    <3>1. queued' = Append(queued, c) /\ arriving' = arriving
      BY <1>5, <2>3 DEF IacConnectsData
    <3> QED
      BY <1>1, <2>1, <2>3, <3>1, Joined DEF Flow
  <2> QED
    BY <2>2, <2>3
<1>6. ASSUME NEW c \in Iacs, RecorderUnlinks(c) \/ RecorderWriteFails(c) PROVE Flow
  <2>1. /\ UNCHANGED <<queued, arriving, opc, active_client_sock, npc, nsock>>
        /\ rpc[c] = "write" /\ current[c] \leq Len(client_list)
        /\ client_list' = RemoveAt(client_list, current[c])
    BY <1>6 DEF RecorderUnlinks, RecorderWriteFails, sockVars, outputVars
  <2>2. current[c] \in 1 .. Len(client_list)
    BY <1>1, <2>1
  <2>3. ToSet(client_list') \subseteq ToSet(client_list)
    BY <1>1, <2>1, <2>2, Unlinked
  <2> QED
    BY <2>1, <2>3 DEF Flow
<1>7. CASE OutputReads \/ OutputPublishes \/ OutputEnds \/ OutputReadFails \/ OutputReleases
  <2>1. /\ UNCHANGED <<queued, arriving, npc, nsock, client_list>>
        /\ opc # "accept"
        /\ opc' # "accept" => active_client_sock' = active_client_sock
    BY <1>7 DEF OutputReads, OutputPublishes, OutputEnds, OutputReadFails,
       OutputReleases, OutputGoes, sockVars, inputVars
  <2> QED
    BY <2>1 DEF Flow
<1>8. CASE UNCHANGED <<queued, arriving, opc, active_client_sock, npc, nsock, client_list>>
  BY <1>8 DEF Flow
<1>9. CASE
      \/ Control \/ Player \/ DevicePlays \/ DeviceDrops \/ PlayerFails
      \/ UNCHANGED vars
      \/ \E c \in Iacs : \/ ParseArguments(c) \/ IacAsks(c) \/ IacNotAnswered(c)
                         \/ IacAnswered(c) \/ IacWrites(c) \/ IacReads(c) \/ IacEnds(c)
                         \/ IacLost(c) \/ IacQuits(c) \/ RecorderLocks(c)
                         \/ RecorderWrites(c) \/ RecorderUnlocks(c) \/ RecorderEnds(c)
      \/ \E p \in Askers : AskerStep(p)
  <2>1. UNCHANGED <<queued, arriving, opc, active_client_sock, npc, nsock, client_list>>
    BY <1>9 DEF Control, Player, PlayerTakes, PlayerSends, DevicePlays, DeviceDrops,
       PlayerFails, ParseArguments, IacAsks, IacNotAnswered, IacAnswered, IacWrites,
       IacReads, IacEnds, IacLost, IacQuits, RecorderLocks, RecorderWrites,
       RecorderUnlocks, RecorderEnds, AskerStep, vars, sockVars, outputVars, inputVars
  <2> QED
    BY <1>8, <2>1
<1>10. CASE InputDrops
  BY <1>10 DEF Flow, InputDrops, sockVars, outputVars
<1> QED
  BY <1>2, <1>3, <1>4, <1>5, <1>6, <1>7, <1>9, <1>10
     DEF Next, DaemonStep, Output, Player, Input, Recorder, IacStep

LEMMA DataLinesKept == DaemonInv /\ [Next]_vars => DataLines'
<1> SUFFICES ASSUME DaemonInv, [Next]_vars PROVE DataLines'
  OBVIOUS
<1>1. Flow /\ Fixed
  BY LinesFlow, IacsFixed
<1>2. /\ ToSet(queued) \subseteq Iacs /\ ToSet(arriving) \subseteq Iacs
      /\ ToSet(client_list) \subseteq Iacs
      /\ opc # "accept" => active_client_sock \in Iacs
      /\ npc = "register" => nsock \in Iacs
  <2>1. queued \in Seq(Iacs) /\ arriving \in Seq(Iacs) /\ client_list \in Seq(Iacs)
    BY DEF DaemonInv, SocketTypes, InputTypes
  <2>2. /\ ToSet(queued) \subseteq Iacs /\ ToSet(arriving) \subseteq Iacs
        /\ ToSet(client_list) \subseteq Iacs
    BY <2>1 DEF ToSet
  <2> QED
    BY <2>2 DEF DaemonInv, OutputTypes, InputTypes
<1>3. DataLines
  BY DEF DaemonInv
<1>4. Players(ToSet(queued))' /\ (opc' # "accept" => Players({active_client_sock})')
  BY <1>1, <1>2, <1>3 DEF DataLines, Players, Flow, Fixed
<1>5. Recorders(ToSet(arriving) \cup ToSet(client_list))'
  BY <1>1, <1>2, <1>3 DEF DataLines, Recorders, Flow, Fixed
<1>6. npc' = "register" => Recorders({nsock})'
  BY <1>1, <1>2, <1>3 DEF DataLines, Recorders, Flow, Fixed
<1> QED
  BY <1>4, <1>5, <1>6 DEF DataLines


LEMMA DaemonInvStep == DaemonInv /\ [Next]_vars => DaemonInv'
  BY ControlTypesKept, RequestsKept, LockHeldKept, IacTypesKept, SocketTypesKept,
     OutputTypesKept, InputTypesKept, NewOnesKept, ControlLineKept, DataLinesKept
     DEF DaemonInv

LEMMA DaemonInvHolds == Spec => []DaemonInv
  BY DaemonInvInit, DaemonInvStep, PTL DEF Spec

\* Type correctness of the whole daemon: audio_buffer_lock is held by exactly the
\* thread that is in the middle of a frame (output.c:177) or of a walk over the
\* recorders (input.c:155).
THEOREM DaemonTypeCorrect == Spec => []TypeOK
<1>1. DaemonInv => TypeOK
  BY DEF DaemonInv, LockHeld, IacTypes, SocketTypes, OutputTypes, TypeOK
<1> QED
  BY <1>1, DaemonInvHolds, PTL

\* Whoever a thread of the daemon waits for is no other thread of the daemon: the
\* one with the lock goes on, or waits for the AO device or for a recorder that
\* has not read; recv and read wait for a client that is there or has hung up.
THEOREM StuckOnOthersThm == Spec => []StuckOnOthers
<1>1. DaemonInv => StuckOnOthers
  <2> SUFFICES ASSUME DaemonInv PROVE StuckOnOthers
    OBVIOUS
  <2>1. cpc = "recv" => link[csock] \in {"open", "gone"}
    BY DEF DaemonInv, ControlTypeOK, ControlLine
  <2>2. opc # "accept" =>
            /\ ~records[active_client_sock]
            /\ ipc[active_client_sock] \in {"stream", "over"}
    BY DEF DaemonInv, DataLines, Players
  <2>4. ASSUME NEW r \in Iacs, lock = r, ~HolderGoesOn
        PROVE  records[At(r)] /\ sent[At(r)] = SockBuf /\ ipc[At(r)] = "stream"
    <3>1. /\ rpc[r] = "write" /\ current[r] \in Nat /\ current[r] >= 1
          /\ client_list \in Seq(Iacs) /\ sent \in [Iacs -> 0 .. SockBuf]
      BY <2>4 DEF DaemonInv, LockHeld, InputTypes, SocketTypes
    <3>2. ~(current[r] > Len(client_list)) /\ ~Gone(At(r)) /\ ~(sent[At(r)] < SockBuf)
      BY <2>4, <3>1 DEF HolderGoesOn
    <3>3. current[r] \in 1 .. Len(client_list)
      BY <3>1, <3>2
    <3>4. At(r) \in ToSet(client_list) /\ At(r) \in Iacs
      BY <3>1, <3>3 DEF At, ToSet
    <3>5. records[At(r)] /\ ipc[At(r)] \in {"stream", "over"}
      BY <3>4 DEF DaemonInv, DataLines, Recorders
    <3> QED
      BY <3>1, <3>2, <3>4, <3>5 DEF Gone
  <2>5. lock \in {Nobody, "player"} \cup Iacs
    BY DEF DaemonInv, LockHeld
  <2>6. lock # Nobody =>
            \/ HolderGoesOn
            \/ lock = "player" /\ played = DevBuf
            \/ /\ lock \in Iacs /\ records[At(lock)]
               /\ sent[At(lock)] = SockBuf /\ ipc[At(lock)] = "stream"
    <3>1. CASE lock = "player"
      <4>1. (ppc = "send") /\ played \in 0 .. DevBuf
        BY <3>1 DEF DaemonInv, LockHeld, OutputTypes
      <4> QED
        BY <3>1, <4>1 DEF HolderGoesOn
    <3>2. CASE lock \in Iacs
      BY <3>2, <2>4
    <3> QED
      BY <3>1, <3>2, <2>5
  <2> QED
    BY <2>1, <2>2, <2>6 DEF StuckOnOthers
<1> QED
  BY <1>1, DaemonInvHolds, PTL

\* GET answers with what snprintf keeps of the number in its ten bytes
\* (network.c:19): what SET stored if that has at most nine characters, and a
\* shorter number if it has ten or eleven.
THEOREM ShownThm ==
  ASSUME NEW x \in Int, -2147483648 <= x, x <= 2147483647
  PROVE  /\ Shown(x) \in Int /\ -99999999 <= Shown(x) /\ Shown(x) <= 999999999
         /\ Shown(x) = x <=> -99999999 <= x /\ x <= 999999999
<1>1. CASE x > 999999999
  BY <1>1, SMT DEF Shown
<1>2. CASE x < -999999999
  BY <1>2, SMT DEF Shown
<1>3. CASE x >= -999999999 /\ x < -99999999
  BY <1>3, SMT DEF Shown
<1>4. CASE -99999999 <= x /\ x <= 999999999
  BY <1>4, SMT DEF Shown
<1> QED
  BY <1>1, <1>2, <1>3, <1>4, SMT
================================================================================
