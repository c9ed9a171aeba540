--------------------------- MODULE AudioOutputProofs ---------------------------
(***************************************************************************)
(* Proofs about AudioOutput for every set of connections, every length of  *)
(* their streams, every queue and every number of failures.                *)
(***************************************************************************)
EXTENDS AudioOutput, FiniteSetTheorems, SequenceTheorems, TLAPS

-------------------------------------------------------------------------------
(* Type correctness. *)

\* A signal only removes threads from the set of waiters.
LEMMA AfterSignalSubset ==
    ASSUME NEW w, NEW v \in AfterSignal(w)
    PROVE  v \subseteq w
BY DEF AfterSignal

\* What the buffer is given is a frame.
LEMMA FramesMade ==
    /\ Silence \in Frames
    /\ Garbage \in Frames
    /\ \A c \in Clients, n \in Nat : Chunk(c, n) \in Frames
BY DEF Silence, Garbage, Chunk, Frames

\* A part of the state that a step leaves alone keeps its type.
LEMMA UnchangedOK ==
    /\ SharedOK /\ UNCHANGED sharedVars => SharedOK'
    /\ StopOK /\ UNCHANGED stopVars => StopOK'
    /\ ServerOK /\ UNCHANGED serverVars => ServerOK'
    /\ PlayerOK /\ UNCHANGED playerVars => PlayerOK'
    /\ ClientOK /\ UNCHANGED clientVars => ClientOK'
    /\ DeviceOK /\ UNCHANGED deviceVars => DeviceOK'
    /\ ProcOK /\ UNCHANGED procVars => ProcOK'
<1>1. SharedOK /\ UNCHANGED sharedVars => SharedOK'
  BY DEF SharedOK, sharedVars
<1>2. StopOK /\ UNCHANGED stopVars => StopOK'
  BY DEF StopOK, stopVars
<1>3. ServerOK /\ UNCHANGED serverVars => ServerOK'
  BY DEF ServerOK, serverVars
<1>4. PlayerOK /\ UNCHANGED playerVars => PlayerOK'
  BY DEF PlayerOK, playerVars
<1>5. ClientOK /\ UNCHANGED clientVars => ClientOK'
  BY DEF ClientOK, clientVars
<1>6. DeviceOK /\ UNCHANGED deviceVars => DeviceOK'
  BY DEF DeviceOK, deviceVars
<1>7. ProcOK /\ UNCHANGED procVars => ProcOK'
  BY DEF ProcOK, procVars
<1>8. QED
  BY <1>1, <1>2, <1>3, <1>4, <1>5, <1>6, <1>7

LEMMA TypeOKServer ==
    ASSUME TypeOK, ServerNext
    PROVE  TypeOK'
<1> USE DEF TypeOK
<1>1. CASE ServerSetup
  <2>1. ServerOK'
    BY <1>1 DEF ServerSetup, ServerOK, ServerGoes, ServerPCs, Serving, Fail,
       CanFail, serverVars
  <2>2. ProcOK'
    BY <1>1 DEF ServerSetup, ProcOK, ServerGoes, Fail, CanFail, procVars
  <2> QED
    BY <1>1, <2>1, <2>2, UnchangedOK DEF ServerSetup
<1>2. CASE ServerCheck
  <2>1. ServerOK'
    BY <1>2 DEF ServerCheck, ServerOK, ServerGoes, ServerPCs, Serving,
       serverVars
  <2> QED
    BY <1>2, <2>1, UnchangedOK DEF ServerCheck
<1>3. CASE ServerAccept
  <2>1. ServerOK'
    BY <1>3 DEF ServerAccept, ServerOK, ClientOK, ServerGoes, ServerPCs,
       Serving, serverVars
  <2>2. ClientOK'
    BY <1>3 DEF ServerAccept, ClientOK, ServerGoes, clientVars
  <2> QED
    BY <1>3, <2>1, <2>2, UnchangedOK DEF ServerAccept
<1>4. CASE ServerAcceptFails
  <2>1. ServerOK'
    BY <1>4 DEF ServerAcceptFails, ServerOK, ServerGoes, ServerPCs, Serving,
       Fail, CanFail, serverVars
  <2>2. ProcOK'
    BY <1>4 DEF ServerAcceptFails, ProcOK, ServerGoes, Fail, CanFail, procVars
  <2> QED
    BY <1>4, <2>1, <2>2, UnchangedOK DEF ServerAcceptFails
<1>5. CASE ServerLock
  <2>1. SharedOK'
    BY <1>5 DEF ServerLock, SharedOK, Threads, Server, Player, Nobody,
       ServerOK, sharedVars
  <2>2. ServerOK'
    BY <1>5 DEF ServerLock, ServerOK, ServerPCs, Serving, serverVars
  <2> QED
    BY <1>5, <2>1, <2>2, UnchangedOK DEF ServerLock
<1>6. CASE ServerEnable
  <2>1. ServerOK'
    BY <1>6 DEF ServerEnable, ServerOK, ServerGoes, ServerPCs, Serving, Fail,
       CanFail, serverVars
  <2>2. DeviceOK'
    <3>1. /\ enableOK' \in BOOLEAN
          /\ devQueue' = <<>> \/ UNCHANGED devQueue
          /\ UNCHANGED <<device, played>>
      BY <1>6 DEF ServerEnable
    <3>2. devQueue' \in Seq(Frames)
      BY <3>1, EmptySeq DEF DeviceOK
    <3>3. device' \in {"off", "on"} /\ played' \in Seq(Frames)
      BY <3>1 DEF DeviceOK
    <3> QED
      BY <3>1, <3>2, <3>3, Zenon DEF DeviceOK
  <2>3. ProcOK'
    BY <1>6 DEF ServerEnable, ProcOK, ServerGoes, Fail, CanFail, procVars
  <2> QED
    BY <1>6, <2>1, <2>2, <2>3, UnchangedOK DEF ServerEnable
<1>7. CASE ServerClear
  <2>1. SharedOK'
    BY <1>7, FramesMade DEF ServerClear, SharedOK, ServerGoes, Threads, Server,
       Player, Nobody, ServerOK, sharedVars
  <2>2. ServerOK'
    BY <1>7, FramesMade DEF ServerClear, ServerOK, ServerGoes, ServerPCs,
       Serving, serverVars
  <2> QED
    BY <1>7, <2>1, <2>2, UnchangedOK DEF ServerClear
<1>8. CASE ServerRead
  <2>1. ServerOK'
    BY <1>8 DEF ServerRead, ServerOK, ServerGoes, ServerPCs, Serving,
       serverVars
  <2> QED
    BY <1>8, <2>1, UnchangedOK DEF ServerRead
<1>9. CASE ServerReadEnd
  <2>1. ServerOK'
    BY <1>9 DEF ServerReadEnd, ServerOK, ServerGoes, ServerPCs, Serving,
       serverVars
  <2> QED
    BY <1>9, <2>1, UnchangedOK DEF ServerReadEnd
<1>10. CASE ServerCopy
  <2>1. SharedOK'
    <3>1. audio_buffer' \in Frames
      BY <1>10, FramesMade DEF ServerCopy, ServerOK, ServerGoes, Serving,
         ServerPCs
    <3> QED
      BY <1>10, <3>1 DEF ServerCopy, SharedOK, Threads, Server
  <2>2. ServerOK'
    BY <1>10, FramesMade DEF ServerCopy, ServerOK, ServerGoes, ServerPCs,
       Serving, serverVars
  <2> QED
    BY <1>10, <2>1, <2>2, UnchangedOK DEF ServerCopy
<1>11. CASE ServerPublish
  <2>1. SharedOK'
    BY <1>11, AfterSignalSubset DEF ServerPublish, SharedOK, ServerGoes,
       Threads, Server, Player, Nobody, ServerOK, sharedVars
  <2>2. ServerOK'
    BY <1>11, AfterSignalSubset DEF ServerPublish, ServerOK, ServerGoes,
       ServerPCs, Serving, serverVars
  <2> QED
    BY <1>11, <2>1, <2>2, UnchangedOK DEF ServerPublish
<1>12. CASE ServerWipe
  <2>1. SharedOK'
    BY <1>12, FramesMade DEF ServerWipe, SharedOK, ServerGoes, Threads, Server,
       Player, Nobody, ServerOK, sharedVars
  <2>2. ServerOK'
    BY <1>12, FramesMade DEF ServerWipe, ServerOK, ServerGoes, ServerPCs,
       Serving, serverVars
  <2> QED
    BY <1>12, <2>1, <2>2, UnchangedOK DEF ServerWipe
<1>13. CASE ServerEmpty
  <2>1. SharedOK'
    BY <1>13 DEF ServerEmpty, SharedOK, ServerGoes, Threads, Server, Player,
       Nobody, ServerOK, sharedVars
  <2>2. ServerOK'
    BY <1>13 DEF ServerEmpty, ServerOK, ServerGoes, ServerPCs, Serving,
       serverVars
  <2> QED
    BY <1>13, <2>1, <2>2, UnchangedOK DEF ServerEmpty
<1>14. CASE ServerRelease
  <2>1. SharedOK'
    BY <1>14 DEF ServerRelease, SharedOK, ServerGoes, Threads, Server, Player,
       Nobody, ServerOK, sharedVars
  <2>2. ServerOK'
    BY <1>14 DEF ServerRelease, ServerOK, ServerGoes, ServerPCs, Serving,
       serverVars
  <2> QED
    BY <1>14, <2>1, <2>2, UnchangedOK DEF ServerRelease
<1>15. CASE ServerClose
  <2>1. ServerOK'
    BY <1>15 DEF ServerClose, ServerOK, ServerGoes, ServerPCs, Serving,
       serverVars
  <2> QED
    BY <1>15, <2>1, UnchangedOK DEF ServerClose
<1>16. CASE ServerCrashes
  <2>1. ProcOK'
    BY <1>16 DEF ServerCrashes, ProcOK, procVars
  <2> QED
    BY <1>16, <2>1, UnchangedOK DEF ServerCrashes
<1>17. CASE ServerReadFails
  <2>1. ServerOK'
    BY <1>17 DEF ServerReadFails, ServerOK, ServerGoes, ServerPCs, Serving, Fail,
       CanFail, serverVars
  <2>2. ProcOK'
    BY <1>17 DEF ServerReadFails, ProcOK, ServerGoes, Fail, CanFail, procVars
  <2> QED
    BY <1>17, <2>1, <2>2, UnchangedOK DEF ServerReadFails
<1> QED
  BY <1>1, <1>2, <1>3, <1>4, <1>5, <1>6, <1>7, <1>8, <1>9, <1>10, <1>11, <1>12,
     <1>13, <1>14, <1>15, <1>16, <1>17 DEF ServerNext

LEMMA TypeOKPlayer ==
    ASSUME TypeOK, PlayerNext
    PROVE  TypeOK'
<1> USE DEF TypeOK
<1>1. CASE PlayerEnable
  <2>1. PlayerOK'
    BY <1>1 DEF PlayerEnable, PlayerOK, PlayerGoes, PlayerPCs, playerVars
  <2>2. DeviceOK'
    BY <1>1 DEF PlayerEnable, DeviceOK, PlayerGoes, deviceVars
  <2> QED
    BY <1>1, <2>1, <2>2, UnchangedOK DEF PlayerEnable
<1>2. CASE PlayerMalloc
  <2>1. SharedOK'
    BY <1>2, FramesMade DEF PlayerMalloc, SharedOK, PlayerGoes, Threads,
       Server, Player, Nobody, ServerOK, sharedVars
  <2>2. PlayerOK'
    BY <1>2, FramesMade DEF PlayerMalloc, PlayerOK, PlayerGoes, PlayerPCs,
       playerVars
  <2> QED
    BY <1>2, <2>1, <2>2, UnchangedOK DEF PlayerMalloc
<1>3. CASE PlayerInitFails
  <2>1. PlayerOK'
    BY <1>3 DEF PlayerInitFails, PlayerOK, PlayerGoes, PlayerPCs, playerVars
  <2>2. ProcOK'
    BY <1>3 DEF PlayerInitFails, ProcOK, Fail, CanFail, procVars
  <2> QED
    BY <1>3, <2>1, <2>2, UnchangedOK DEF PlayerInitFails
<1>4. CASE PlayerLock
  <2>1. SharedOK'
    BY <1>4 DEF PlayerLock, SharedOK, PlayerGoes, Threads, Server, Player,
       Nobody, ServerOK, sharedVars
  <2>2. PlayerOK'
    BY <1>4 DEF PlayerLock, PlayerOK, PlayerGoes, PlayerPCs, playerVars
  <2> QED
    BY <1>4, <2>1, <2>2, UnchangedOK DEF PlayerLock
<1>5. CASE PlayerCheckEmpty
  <2>1. SharedOK'
    BY <1>5 DEF PlayerCheckEmpty, SharedOK, PlayerGoes, Threads, Server,
       Player, Nobody, ServerOK, sharedVars
  <2>2. PlayerOK'
    BY <1>5 DEF PlayerCheckEmpty, PlayerOK, PlayerGoes, PlayerPCs, playerVars
  <2> QED
    BY <1>5, <2>1, <2>2, UnchangedOK DEF PlayerCheckEmpty
<1>6. CASE PlayerCheckFull
  <2>1. PlayerOK'
    BY <1>6 DEF PlayerCheckFull, PlayerOK, PlayerGoes, PlayerPCs, playerVars
  <2> QED
    BY <1>6, <2>1, UnchangedOK DEF PlayerCheckFull
<1>7. CASE PlayerWait
  <2>1. SharedOK'
    BY <1>7 DEF PlayerWait, SharedOK, PlayerGoes, Threads, Server, Player,
       Nobody, ServerOK, sharedVars
  <2>2. PlayerOK'
    BY <1>7 DEF PlayerWait, PlayerOK, PlayerGoes, PlayerPCs, playerVars
  <2> QED
    BY <1>7, <2>1, <2>2, UnchangedOK DEF PlayerWait
<1>8. CASE PlayerFrame
  <2>1. PlayerOK'
    BY <1>8 DEF PlayerFrame, PlayerOK, SharedOK, PlayerGoes, PlayerPCs, playerVars
  <2> QED
    BY <1>8, <2>1, UnchangedOK DEF PlayerFrame
<1>9. CASE PlayerSend
  <2>1. SharedOK'
    BY <1>9, FramesMade DEF PlayerSend, SharedOK, PlayerGoes, Threads, Server,
       Player, Nobody, ServerOK, sharedVars
  <2>2. PlayerOK'
    BY <1>9, FramesMade DEF PlayerSend, PlayerOK, PlayerGoes, PlayerPCs,
       playerVars
  <2>3. DeviceOK'
    <3> DEFINE frame == IF frmLen = 0 THEN Silence ELSE audio_buffer
    <3>1. frame \in Frames
      BY FramesMade DEF SharedOK
    <3>2. /\ devQueue' = Append(devQueue, frame)
          /\ played' = Append(played, frame)
          /\ UNCHANGED <<device, enableOK>>
      BY <1>9 DEF PlayerSend
    <3> HIDE DEF frame
    <3> QED
      BY <3>1, <3>2 DEF DeviceOK
  <2> QED
    BY <1>9, <2>1, <2>2, <2>3, UnchangedOK DEF PlayerSend
<1>10. CASE PlayerSendFails
  <2>1. SharedOK'
    BY <1>10 DEF PlayerSendFails, SharedOK, PlayerGoes, Threads, Server,
       Player, Nobody, Fail, CanFail, ServerOK, sharedVars
  <2>2. PlayerOK'
    BY <1>10 DEF PlayerSendFails, PlayerOK, PlayerGoes, PlayerPCs, Fail,
       CanFail, playerVars
  <2>3. ProcOK'
    BY <1>10 DEF PlayerSendFails, ProcOK, PlayerGoes, Fail, CanFail, procVars
  <2> QED
    BY <1>10, <2>1, <2>2, <2>3, UnchangedOK DEF PlayerSendFails
<1>11. CASE PlayerDisable
  <2>1. PlayerOK'
    BY <1>11 DEF PlayerDisable, PlayerOK, PlayerGoes, PlayerPCs, playerVars
  <2>2. DeviceOK'
    BY <1>11 DEF PlayerDisable, DeviceOK, PlayerGoes, deviceVars
  <2> QED
    BY <1>11, <2>1, <2>2, UnchangedOK DEF PlayerDisable
<1>12. CASE SpuriousWakeup
  <2>1. SharedOK'
    BY <1>12 DEF SpuriousWakeup, SharedOK, Threads, Server, Player, Nobody,
       ServerOK, sharedVars
  <2> QED
    BY <1>12, <2>1, UnchangedOK DEF SpuriousWakeup
<1>13. CASE PlayerMallocFails
  <2>1. SharedOK'
    BY <1>13 DEF PlayerMallocFails, SharedOK
  <2>2. PlayerOK'
    BY <1>13 DEF PlayerMallocFails, PlayerOK, PlayerGoes, PlayerPCs, playerVars
  <2>3. ProcOK'
    BY <1>13 DEF PlayerMallocFails, ProcOK, Fail, CanFail, procVars
  <2> QED
    BY <1>13, <2>1, <2>2, <2>3, UnchangedOK DEF PlayerMallocFails
<1>14. CASE PlayerExits
  <2>1. ProcOK'
    BY <1>14 DEF PlayerExits, ProcOK, procVars
  <2> QED
    BY <1>14, <2>1, UnchangedOK DEF PlayerExits
<1> QED
  BY <1>1, <1>2, <1>3, <1>4, <1>5, <1>6, <1>7, <1>8, <1>9, <1>10, <1>11, <1>12, <1>13,
     <1>14 DEF PlayerNext

LEMMA TypeOKEnvironment ==
    ASSUME TypeOK, ClientNext \/ DevicePlays
    PROVE  TypeOK'
<1> USE DEF TypeOK
<1>1. ASSUME NEW c \in Clients, Connect(c)
      PROVE  TypeOK'
  <2>1. ClientOK'
    BY <1>1 DEF Connect, ClientOK
  <2> QED
    BY <1>1, <2>1, UnchangedOK DEF Connect
<1>2. ASSUME NEW c \in Clients, Write(c)
      PROVE  TypeOK'
  <2>1. ClientOK'
    BY <1>2 DEF Write, ClientOK
  <2> QED
    BY <1>2, <2>1, UnchangedOK DEF Write
<1>3. ASSUME NEW c \in Clients, Finish(c)
      PROVE  TypeOK'
  <2>1. ClientOK'
    BY <1>3 DEF Finish, ClientOK
  <2> QED
    BY <1>3, <2>1, UnchangedOK DEF Finish
<1>4. CASE DevicePlays
  <2>1. DeviceOK'
    BY <1>4 DEF DevicePlays, DeviceOK
  <2> QED
    BY <1>4, <2>1, UnchangedOK DEF DevicePlays
<1> QED
  BY <1>1, <1>2, <1>3, <1>4 DEF ClientNext

\* TypeOK is inductive.
LEMMA TypeOKStep ==
    ASSUME TypeOK, [Next]_vars
    PROVE  TypeOK'
<1>1. CASE Next
  BY <1>1, TypeOKServer, TypeOKPlayer, TypeOKEnvironment DEF Next
<1>2. CASE UNCHANGED vars
  BY <1>2, UnchangedOK DEF vars, TypeOK
<1> QED
  BY <1>1, <1>2

LEMMA TypeOKInit == Init => TypeOK
<1> SUFFICES ASSUME Init PROVE TypeOK
  OBVIOUS
<1>1. SharedOK /\ StopOK
  BY FramesMade DEF Init, SharedOK, StopOK, Nobody
<1>2. ServerOK /\ PlayerOK
  BY DEF Init, ServerOK, PlayerOK, ServerPCs, Serving, PlayerPCs
<1>3. ClientOK /\ DeviceOK /\ ProcOK
  BY DEF Init, ClientOK, DeviceOK, ProcOK
<1> QED
  BY <1>1, <1>2, <1>3 DEF TypeOK

\* Every variable of the playback path stays in its type.
THEOREM TypeCorrect == Spec => []TypeOK
BY TypeOKInit, TypeOKStep, PTL DEF Spec

-------------------------------------------------------------------------------
(* Who holds the lock, the output and the slot at each point of the code. *)

LEMMA ControlServer ==
    ASSUME TypeOK, ControlInv, proc = "running", ServerNext
    PROVE  ControlInv'
<1> USE DEF ControlInv, LockOwned, OutputOwned, Sleepers, ServerNeverWaits,
         NoLostWakeup, SlotFilled, Holding, Server, Player, Nobody, Threads, TypeOK,
         SharedOK
<1>1. CASE ServerSetup
  BY <1>1 DEF ServerSetup, ServerGoes, Fail, CanFail, sharedVars, stopVars,
     playerVars, clientVars, deviceVars
<1>2. CASE ServerCheck
  BY <1>2 DEF ServerCheck, ServerGoes, sharedVars, stopVars, playerVars,
     clientVars, deviceVars, procVars
<1>3. CASE ServerAccept
  BY <1>3 DEF ServerAccept, ServerGoes, sharedVars, stopVars, playerVars,
     deviceVars, procVars
<1>4. CASE ServerAcceptFails
  BY <1>4 DEF ServerAcceptFails, ServerGoes, Fail, CanFail, sharedVars,
     stopVars, playerVars, clientVars, deviceVars
<1>5. CASE ServerLock
  BY <1>5 DEF ServerLock, stopVars, playerVars, clientVars, deviceVars,
     procVars
<1>6. CASE ServerEnable
  BY <1>6 DEF ServerEnable, ServerGoes, Fail, CanFail, sharedVars, stopVars,
     playerVars, clientVars
<1>7. CASE ServerClear
  BY <1>7 DEF ServerClear, ServerGoes, stopVars, playerVars, clientVars,
     deviceVars, procVars
<1>8. CASE ServerRead
  BY <1>8 DEF ServerRead, ServerGoes, sharedVars, stopVars, playerVars,
     clientVars, deviceVars, procVars
<1>9. CASE ServerReadEnd
  BY <1>9 DEF ServerReadEnd, ServerGoes, sharedVars, stopVars, playerVars,
     clientVars, deviceVars, procVars
<1>10. CASE ServerCopy
  BY <1>10 DEF ServerCopy, ServerGoes, stopVars, playerVars, clientVars,
     deviceVars, procVars
<1>11. CASE ServerPublish
  BY <1>11, AfterSignalSubset DEF ServerPublish, ServerGoes, stopVars,
     playerVars, clientVars, deviceVars, procVars, AfterSignal
<1>12. CASE ServerWipe
  BY <1>12 DEF ServerWipe, ServerGoes, stopVars, playerVars, clientVars,
     deviceVars, procVars
<1>13. CASE ServerEmpty
  BY <1>13 DEF ServerEmpty, ServerGoes, stopVars, playerVars, clientVars,
     deviceVars, procVars
<1>14. CASE ServerRelease
  BY <1>14 DEF ServerRelease, ServerGoes, stopVars, playerVars, clientVars,
     deviceVars, procVars
<1>15. CASE ServerClose
  BY <1>15 DEF ServerClose, ServerGoes, sharedVars, stopVars, playerVars,
     clientVars, deviceVars, procVars
<1>16. CASE ServerCrashes
  BY <1>16 DEF ServerCrashes, sharedVars, stopVars, serverVars, playerVars,
     clientVars, deviceVars
<1>17. CASE ServerReadFails
  BY <1>17 DEF ServerReadFails, ServerGoes, Fail, CanFail, sharedVars, stopVars,
     playerVars, clientVars, deviceVars
<1> QED
  BY <1>1, <1>2, <1>3, <1>4, <1>5, <1>6, <1>7, <1>8, <1>9, <1>10, <1>11, <1>12,
     <1>13, <1>14, <1>15, <1>16, <1>17 DEF ServerNext

LEMMA ControlPlayer ==
    ASSUME TypeOK, ControlInv, proc = "running", PlayerNext
    PROVE  ControlInv'
<1> USE DEF ControlInv, LockOwned, OutputOwned, Sleepers, ServerNeverWaits,
         NoLostWakeup, SlotFilled, Holding, Server, Player, Nobody, Threads, TypeOK,
         SharedOK
<1>1. CASE PlayerEnable
  BY <1>1 DEF PlayerEnable, PlayerGoes, sharedVars, stopVars, serverVars,
     clientVars, procVars
<1>2. CASE PlayerMalloc
  BY <1>2 DEF PlayerMalloc, PlayerGoes, stopVars, serverVars, clientVars,
     deviceVars, procVars
<1>3. CASE PlayerInitFails
  BY <1>3 DEF PlayerInitFails, PlayerGoes, Fail, CanFail, sharedVars, stopVars,
     serverVars, clientVars, deviceVars
<1>4. CASE PlayerLock
  BY <1>4 DEF PlayerLock, PlayerGoes, stopVars, serverVars, clientVars,
     deviceVars, procVars
<1>5. CASE PlayerCheckEmpty
  BY <1>5 DEF PlayerCheckEmpty, PlayerGoes, stopVars, serverVars, clientVars,
     deviceVars, procVars
<1>6. CASE PlayerCheckFull
  BY <1>6 DEF PlayerCheckFull, PlayerGoes, sharedVars, stopVars, serverVars,
     clientVars, deviceVars, procVars
<1>7. CASE PlayerWait
  BY <1>7 DEF PlayerWait, PlayerGoes, stopVars, serverVars, clientVars,
     deviceVars, procVars
<1>8. CASE PlayerFrame
  BY <1>8 DEF PlayerFrame, PlayerGoes, sharedVars, stopVars, serverVars,
     clientVars, deviceVars, procVars
<1>9. CASE PlayerSend
  BY <1>9 DEF PlayerSend, PlayerGoes, stopVars, serverVars, clientVars,
     procVars
<1>10. CASE PlayerSendFails
  BY <1>10 DEF PlayerSendFails, PlayerGoes, Fail, CanFail, stopVars,
     serverVars, clientVars, deviceVars
<1>11. CASE PlayerDisable
  BY <1>11 DEF PlayerDisable, PlayerGoes, sharedVars, stopVars, serverVars,
     clientVars, procVars
<1>12. CASE SpuriousWakeup
  BY <1>12 DEF SpuriousWakeup, stopVars, serverVars, playerVars, clientVars,
     deviceVars, procVars
<1>13. CASE PlayerMallocFails
  BY <1>13 DEF PlayerMallocFails, PlayerGoes, Fail, CanFail, stopVars,
     serverVars, clientVars, deviceVars
<1>14. CASE PlayerExits
  BY <1>14 DEF PlayerExits, sharedVars, stopVars, serverVars, playerVars,
     clientVars, deviceVars
<1> QED
  BY <1>1, <1>2, <1>3, <1>4, <1>5, <1>6, <1>7, <1>8, <1>9, <1>10, <1>11, <1>12, <1>13,
     <1>14 DEF PlayerNext

LEMMA ControlEnvironment ==
    ASSUME TypeOK, ControlInv, proc = "running", ClientNext \/ DevicePlays
    PROVE  ControlInv'
<1> USE DEF ControlInv, LockOwned, OutputOwned, Sleepers, ServerNeverWaits,
         NoLostWakeup, SlotFilled, Holding, Server, Player, Nobody, Threads, TypeOK,
         SharedOK
<1>1. ASSUME NEW c \in Clients, Connect(c)
      PROVE  ControlInv'
  BY <1>1 DEF Connect, sharedVars, stopVars, serverVars, playerVars,
     deviceVars, procVars
<1>2. ASSUME NEW c \in Clients, Write(c)
      PROVE  ControlInv'
  BY <1>2 DEF Write, sharedVars, stopVars, serverVars, playerVars, deviceVars,
     procVars
<1>3. ASSUME NEW c \in Clients, Finish(c)
      PROVE  ControlInv'
  BY <1>3 DEF Finish, sharedVars, stopVars, serverVars, playerVars, deviceVars,
     procVars
<1>4. CASE DevicePlays
  BY <1>4 DEF DevicePlays, sharedVars, stopVars, serverVars, playerVars,
     clientVars, procVars
<1> QED
  BY <1>1, <1>2, <1>3, <1>4 DEF ClientNext

-------------------------------------------------------------------------------
(* What the buffer holds, and what has been played. *)

\* Every entry of the history is a frame.
LEMMA PlayedFrame ==
    ASSUME TypeOK, NEW i \in DOMAIN played
    PROVE  played[i] \in Frames
BY DEF TypeOK, DeviceOK

LEMMA DataServer ==
    ASSUME IInv, ServerNext
    PROVE  DataInv'
<1> USE NoClientAssumption DEF IInv, ControlInv, LockOwned, OutputOwned, SlotFilled, Holding,
         DataInv, ReadsBounded, BufferHolds, PlayedWasRead, ToSend, SlotFresh,
         Server, Player, Nobody, TypeOK, SharedOK, ServerOK, DeviceOK,
         ClientOK, Serving, ServerPCs, Frames, Chunk, Silence, Garbage
<1>1. CASE ServerSetup
  BY <1>1 DEF ServerSetup, ServerGoes, Fail, CanFail, sharedVars, stopVars,
     playerVars, clientVars, deviceVars
<1>2. CASE ServerCheck
  BY <1>2 DEF ServerCheck, ServerGoes, sharedVars, stopVars, playerVars,
     clientVars, deviceVars, procVars
<1>3. CASE ServerAccept
  BY <1>3 DEF ServerAccept, ServerGoes, sharedVars, stopVars, playerVars,
     deviceVars, procVars
<1>4. CASE ServerAcceptFails
  BY <1>4 DEF ServerAcceptFails, ServerGoes, Fail, CanFail, sharedVars,
     stopVars, playerVars, clientVars, deviceVars
<1>5. CASE ServerLock
  BY <1>5 DEF ServerLock, stopVars, playerVars, clientVars, deviceVars,
     procVars
<1>6. CASE ServerEnable
  BY <1>6 DEF ServerEnable, ServerGoes, Fail, CanFail, sharedVars, stopVars,
     playerVars, clientVars
<1>7. CASE ServerClear
  BY <1>7 DEF ServerClear, ServerGoes, stopVars, playerVars, clientVars,
     deviceVars, procVars
<1>8. CASE ServerRead
  <2>1. /\ spc = "read"
        /\ spc' = "copy"
        /\ client_sock \in Clients
        /\ reads[client_sock] \in Nat
        /\ written[client_sock] \in Nat
        /\ reads[client_sock] < written[client_sock]
        /\ reads' = [reads EXCEPT ![client_sock] = reads[client_sock] + 1]
        /\ UNCHANGED <<client_sock, written, audio_buffer, audio_buffer_size,
                       ppc, played>>
    BY <1>8 DEF ServerRead, ServerGoes, sharedVars, playerVars, clientVars,
       deviceVars
  <2>2. /\ reads'[client_sock] = reads[client_sock] + 1
        /\ \A c \in Clients : c # client_sock => reads'[c] = reads[c]
    BY <2>1
  <2>3. ReadsBounded'
    BY <2>1, <2>2, BoundsAssumption
  <2>4. BufferHolds'
    BY <2>1, <2>2
  <2>5. PlayedWasRead'
    <3> SUFFICES ASSUME NEW i \in DOMAIN played, played[i].src # NoClient
                 PROVE  /\ played[i].n <= reads'[played[i].src]
                        /\ played[i].src = client_sock =>
                               played[i].n < reads'[client_sock]
      BY <2>1
    <3>1. played[i] \in Frames
      BY PlayedFrame
    <3>2. /\ played[i].src \in Clients
          /\ played[i].n \in Nat
          /\ reads[played[i].src] \in Nat
          /\ played[i].n <= reads[played[i].src]
      BY <3>1
    <3> QED
      BY <2>1, <2>2, <3>2
  <2>6. SlotFresh'
    BY <2>1
  <2> QED
    BY <2>3, <2>4, <2>5, <2>6
<1>9. CASE ServerReadEnd
  BY <1>9 DEF ServerReadEnd, ServerGoes, sharedVars, stopVars, playerVars,
     clientVars, deviceVars, procVars
<1>10. CASE ServerCopy
  BY <1>10 DEF ServerCopy, ServerGoes, stopVars, playerVars, clientVars,
     deviceVars, procVars
<1>11. CASE ServerPublish
  BY <1>11, AfterSignalSubset DEF ServerPublish, ServerGoes, stopVars,
     playerVars, clientVars, deviceVars, procVars, AfterSignal
<1>12. CASE ServerWipe
  BY <1>12 DEF ServerWipe, ServerGoes, stopVars, playerVars, clientVars,
     deviceVars, procVars
<1>13. CASE ServerEmpty
  BY <1>13 DEF ServerEmpty, ServerGoes, stopVars, playerVars, clientVars,
     deviceVars, procVars
<1>14. CASE ServerRelease
  BY <1>14 DEF ServerRelease, ServerGoes, stopVars, playerVars, clientVars,
     deviceVars, procVars
<1>15. CASE ServerClose
  BY <1>15 DEF ServerClose, ServerGoes, sharedVars, stopVars, playerVars,
     clientVars, deviceVars, procVars
<1>16. CASE ServerCrashes
  BY <1>16 DEF ServerCrashes, sharedVars, stopVars, serverVars, playerVars,
     clientVars, deviceVars
<1>17. CASE ServerReadFails
  BY <1>17 DEF ServerReadFails, ServerGoes, Fail, CanFail, sharedVars, stopVars,
     playerVars, clientVars, deviceVars
<1> QED
  BY <1>1, <1>2, <1>3, <1>4, <1>5, <1>6, <1>7, <1>8, <1>9, <1>10, <1>11, <1>12,
     <1>13, <1>14, <1>15, <1>16, <1>17 DEF ServerNext

LEMMA DataPlayer ==
    ASSUME IInv, PlayerNext
    PROVE  DataInv'
<1> USE NoClientAssumption DEF IInv, ControlInv, LockOwned, OutputOwned, SlotFilled, Holding,
         DataInv, ReadsBounded, BufferHolds, PlayedWasRead, ToSend, SlotFresh,
         Server, Player, Nobody, TypeOK, SharedOK, ServerOK, DeviceOK,
         ClientOK, Serving, ServerPCs, Frames, Chunk, Silence, Garbage
<1>1. CASE PlayerEnable
  BY <1>1 DEF PlayerEnable, PlayerGoes, sharedVars, stopVars, serverVars,
     clientVars, procVars
<1>2. CASE PlayerMalloc
  BY <1>2 DEF PlayerMalloc, PlayerGoes, stopVars, serverVars, clientVars,
     deviceVars, procVars
<1>3. CASE PlayerInitFails
  BY <1>3 DEF PlayerInitFails, PlayerGoes, Fail, CanFail, sharedVars, stopVars,
     serverVars, clientVars, deviceVars
<1>4. CASE PlayerLock
  BY <1>4 DEF PlayerLock, PlayerGoes, stopVars, serverVars, clientVars,
     deviceVars, procVars
<1>5. CASE PlayerCheckEmpty
  BY <1>5 DEF PlayerCheckEmpty, PlayerGoes, stopVars, serverVars, clientVars,
     deviceVars, procVars
<1>6. CASE PlayerCheckFull
  BY <1>6 DEF PlayerCheckFull, PlayerGoes, sharedVars, stopVars, serverVars,
     clientVars, deviceVars, procVars
<1>7. CASE PlayerWait
  BY <1>7 DEF PlayerWait, PlayerGoes, stopVars, serverVars, clientVars,
     deviceVars, procVars
<1>8. CASE PlayerFrame
  BY <1>8 DEF PlayerFrame, PlayerGoes, sharedVars, stopVars, serverVars,
     clientVars, deviceVars, procVars
<1>9. CASE PlayerSend
  BY <1>9 DEF PlayerSend, PlayerGoes, stopVars, serverVars, clientVars,
     procVars
<1>10. CASE PlayerSendFails
  BY <1>10 DEF PlayerSendFails, PlayerGoes, Fail, CanFail, stopVars,
     serverVars, clientVars, deviceVars
<1>11. CASE PlayerDisable
  BY <1>11 DEF PlayerDisable, PlayerGoes, sharedVars, stopVars, serverVars,
     clientVars, procVars
<1>12. CASE SpuriousWakeup
  BY <1>12 DEF SpuriousWakeup, stopVars, serverVars, playerVars, clientVars,
     deviceVars, procVars
<1>13. CASE PlayerMallocFails
  BY <1>13 DEF PlayerMallocFails, PlayerGoes, Fail, CanFail, stopVars,
     serverVars, clientVars, deviceVars
<1>14. CASE PlayerExits
  BY <1>14 DEF PlayerExits, sharedVars, stopVars, serverVars, playerVars,
     clientVars, deviceVars
<1> QED
  BY <1>1, <1>2, <1>3, <1>4, <1>5, <1>6, <1>7, <1>8, <1>9, <1>10, <1>11, <1>12, <1>13,
     <1>14 DEF PlayerNext

LEMMA DataEnvironment ==
    ASSUME IInv, ClientNext \/ DevicePlays
    PROVE  DataInv'
<1> USE NoClientAssumption DEF IInv, ControlInv, LockOwned, OutputOwned, SlotFilled, Holding,
         DataInv, ReadsBounded, BufferHolds, PlayedWasRead, ToSend, SlotFresh,
         Server, Player, Nobody, TypeOK, SharedOK, ServerOK, DeviceOK,
         ClientOK, Serving, ServerPCs, Frames, Chunk, Silence, Garbage
<1>1. ASSUME NEW c \in Clients, Connect(c)
      PROVE  DataInv'
  BY <1>1 DEF Connect, sharedVars, stopVars, serverVars, playerVars,
     deviceVars, procVars
<1>2. ASSUME NEW c \in Clients, Write(c)
      PROVE  DataInv'
  <2>1. /\ written[c] \in Nat /\ written[c] < MaxWrites
        /\ written' = [written EXCEPT ![c] = written[c] + 1]
        /\ UNCHANGED <<spc, client_sock, reads, audio_buffer,
                       audio_buffer_size, ppc, played>>
    BY <1>2 DEF Write, sharedVars, serverVars, playerVars, deviceVars
  <2>2. \A d \in Clients : /\ written[d] \in Nat
                            /\ written'[d] = IF d = c THEN written[c] + 1
                                                     ELSE written[d]
    BY <2>1
  <2>3. ReadsBounded'
    BY <2>1, <2>2, BoundsAssumption
  <2> QED
    BY <2>1, <2>3
<1>3. ASSUME NEW c \in Clients, Finish(c)
      PROVE  DataInv'
  BY <1>3 DEF Finish, sharedVars, stopVars, serverVars, playerVars, deviceVars,
     procVars
<1>4. CASE DevicePlays
  BY <1>4 DEF DevicePlays, sharedVars, stopVars, serverVars, playerVars,
     clientVars, procVars
<1> QED
  BY <1>1, <1>2, <1>3, <1>4 DEF ClientNext

-------------------------------------------------------------------------------
(* The inductive invariant. *)

LEMMA IInvInit == Init => IInv
<1> SUFFICES ASSUME Init PROVE IInv
  OBVIOUS
<1>1. TypeOK
  BY TypeOKInit
<1>2. ControlInv
  BY DEF Init, ControlInv, LockOwned, OutputOwned, Sleepers, ServerNeverWaits,
     NoLostWakeup, SlotFilled, Holding,
     Server, Player, Nobody
<1>3. DataInv
  BY BoundsAssumption
     DEF Init, DataInv, ReadsBounded, BufferHolds, PlayedWasRead, SlotFresh,
         ToSend, Garbage, Chunk
<1> QED
  BY <1>1, <1>2, <1>3 DEF IInv

LEMMA IInvStep == IInv /\ [Next]_vars => IInv'
<1> SUFFICES ASSUME IInv, [Next]_vars PROVE IInv'
  OBVIOUS
<1>1. TypeOK'
  BY TypeOKStep DEF IInv
<1>2. CASE Next
  <2>1. ControlInv'
    BY <1>2, ControlServer, ControlPlayer, ControlEnvironment DEF Next, IInv
  <2>2. DataInv'
    BY <1>2, DataServer, DataPlayer, DataEnvironment DEF Next
  <2> QED
    BY <1>1, <2>1, <2>2 DEF IInv
<1>3. CASE UNCHANGED vars
  <2>1. ControlInv'
    BY <1>3 DEF IInv, ControlInv, LockOwned, OutputOwned, Sleepers,
       ServerNeverWaits, NoLostWakeup, SlotFilled, vars, sharedVars, serverVars, playerVars,
       deviceVars, procVars
  <2>2. DataInv'
    BY <1>3 DEF IInv, DataInv, ReadsBounded, BufferHolds, PlayedWasRead,
       SlotFresh, ToSend, vars, sharedVars, serverVars, playerVars,
       clientVars, deviceVars
  <2> QED
    BY <1>1, <2>1, <2>2 DEF IInv
<1> QED
  BY <1>2, <1>3

LEMMA IInvHolds == Spec => []IInv
BY IInvInit, IInvStep, PTL DEF Spec

\* What is allocated when, and what has failed before: the server crashes
\* before the first malloc, or while a player that could not initialize exits.
LEMMA StartInvServer ==
    ASSUME IInv, StartInv, proc = "running", ServerNext
    PROVE  StartInv'
<1> USE DEF StartInv, NotAllocatedYet, FailuresBehind, CrashOnlyWithoutBuffer
<1>0. faults \in Nat
  BY DEF IInv, TypeOK, ProcOK
<1>1. CASE ServerClear
  BY <1>1 DEF ServerClear, ServerGoes, playerVars, deviceVars, procVars
<1>2. CASE ServerCrashes
  BY <1>2 DEF ServerCrashes, sharedVars, serverVars, playerVars, deviceVars
<1>3. CASE ~ServerClear /\ ~ServerCrashes
  <2>1. /\ UNCHANGED <<allocated, proc, ppc, played, device>>
        /\ faults' \in {faults, faults + 1}
    BY <1>3 DEF ServerNext, ServerSetup, ServerCheck, ServerAccept,
       ServerAcceptFails, ServerLock, ServerEnable, ServerRead, ServerReadEnd,
       ServerReadFails, ServerCopy, ServerPublish, ServerWipe, ServerEmpty,
       ServerRelease, ServerClose, Fail, sharedVars, playerVars, deviceVars,
       procVars
  <2>2. \/ spc \in {"read", "copy", "publish", "wipe", "empty", "release"}
        \/ spc' \notin {"read", "copy", "publish", "wipe", "empty", "release"}
    BY <1>3 DEF ServerNext, ServerGoes, ServerSetup, ServerCheck, ServerAccept,
       ServerAcceptFails, ServerLock, ServerEnable, ServerRead, ServerReadEnd,
       ServerReadFails, ServerCopy, ServerPublish, ServerWipe, ServerEmpty,
       ServerRelease, ServerClose
  <2> QED
    BY <1>0, <2>1, <2>2
<1> QED
  BY <1>1, <1>2, <1>3

LEMMA StartInvPlayer ==
    ASSUME IInv, StartInv, proc = "running", PlayerNext
    PROVE  StartInv'
<1> USE DEF StartInv, NotAllocatedYet, FailuresBehind, CrashOnlyWithoutBuffer
<1>0. faults \in Nat
  BY DEF IInv, TypeOK, ProcOK
<1>1. CASE PlayerEnable
  BY <1>0, <1>1 DEF PlayerEnable, PlayerGoes, sharedVars, serverVars, procVars
<1>2. CASE PlayerMalloc
  BY <1>0, <1>2 DEF PlayerMalloc, PlayerGoes, serverVars, deviceVars, procVars
<1>3. CASE PlayerInitFails
  BY <1>0, <1>3 DEF PlayerInitFails, PlayerGoes, Fail, sharedVars, serverVars,
     deviceVars
<1>4. CASE PlayerMallocFails
  BY <1>0, <1>4 DEF PlayerMallocFails, PlayerGoes, Fail, serverVars, deviceVars
<1>5. CASE PlayerExits
  BY <1>0, <1>5 DEF PlayerExits, sharedVars, serverVars, playerVars, deviceVars
<1>6. CASE PlayerSend
  BY <1>0, <1>6 DEF PlayerSend, PlayerGoes, serverVars, procVars
<1>7. CASE PlayerSendFails
  BY <1>0, <1>7 DEF PlayerSendFails, PlayerGoes, Fail, serverVars, deviceVars
<1>8. CASE PlayerDisable
  BY <1>0, <1>8 DEF PlayerDisable, PlayerGoes, sharedVars, serverVars, procVars
<1>9. CASE PlayerLock \/ PlayerCheckEmpty \/ PlayerCheckFull \/ PlayerWait
           \/ PlayerFrame \/ SpuriousWakeup
  <2>1. /\ UNCHANGED <<allocated, spc, played, device, proc, faults>>
        /\ \/ ppc' = ppc
           \/ {ppc, ppc'} \cap {"init", "malloc", "disable", "exit"} = {}
    BY <1>9 DEF PlayerLock, PlayerCheckEmpty, PlayerCheckFull, PlayerWait,
       PlayerFrame, SpuriousWakeup, PlayerGoes, sharedVars, serverVars,
       playerVars, deviceVars, procVars
  <2> QED
    BY <1>0, <2>1
<1> QED
  BY <1>1, <1>2, <1>3, <1>4, <1>5, <1>6, <1>7, <1>8, <1>9 DEF PlayerNext

LEMMA StartInvStep == IInv /\ StartInv /\ [Next]_vars => StartInv'
<1> SUFFICES ASSUME IInv, StartInv, [Next]_vars PROVE StartInv'
  OBVIOUS
<1>1. CASE ClientNext \/ DevicePlays \/ UNCHANGED vars
  BY <1>1 DEF StartInv, NotAllocatedYet, FailuresBehind, CrashOnlyWithoutBuffer,
     ClientNext, Connect, Write, Finish, DevicePlays, vars,
     sharedVars, serverVars, playerVars, deviceVars, procVars
<1> QED
  BY <1>1, StartInvServer, StartInvPlayer DEF Next

LEMMA StartInvHolds == Spec => []StartInv
<1>1. Init => StartInv
  BY DEF Init, StartInv, NotAllocatedYet, FailuresBehind, CrashOnlyWithoutBuffer
<1> QED
  BY <1>1, StartInvStep, IInvHolds, PTL DEF Spec

-------------------------------------------------------------------------------
(* Theorems. *)

\* The server thread never enters the wait of output_server.c:71.
THEOREM ServerNeverWaitsThm == Spec => []ServerNeverWaits
<1>1. IInv => ServerNeverWaits
  BY DEF IInv, ControlInv, Sleepers
<1> QED
  BY <1>1, IInvHolds, PTL

\* The player is never left asleep on a full buffer.
THEOREM NoLostWakeupThm == Spec => []NoLostWakeup
<1>1. IInv => NoLostWakeup
  BY DEF IInv, ControlInv, Sleepers
<1> QED
  BY <1>1, IInvHolds, PTL

\* The only NULL dereferences are that of a client served during start-up, and
\* that of one served while a player that could not initialize exits: after two
\* failures at least, once anything has been played.
THEOREM CrashOnlyWithoutBufferThm == Spec => []CrashOnlyWithoutBuffer
<1>1. StartInv => CrashOnlyWithoutBuffer
  BY DEF StartInv
<1> QED
  BY <1>1, StartInvHolds, PTL

-------------------------------------------------------------------------------
(* Filler: when it is sent.                                                *)

Sending == ppc \in {"frame", "send"}

\* A set size never comes with silence, except between the two writes of the
\* end of a connection; a frame under way that is or becomes silence, or has no
\* size, is one such write's doing.
SilenceInRaces ==
    /\ audio_buffer_size # 0 \/ spc = "publish" =>
           audio_buffer # Silence \/ spc = "empty"
    /\ Sending /\ audio_buffer = Silence => spc \in {"empty", "release"}
    /\ ppc = "frame" /\ audio_buffer_size = 0 => spc = "release"
    /\ ppc = "send" /\ frmLen = 0 => spc = "release"

DeviceOn == ppc # "init" /\ ppc # "exit" => device = "on"

\* A failed send has been or will be followed by a new buffer of garbage, which
\* is going to be sent unless the server overwrites it first.
GarbageDue ==
    \/ allocated /\ ppc \in {"disable", "init", "malloc"}
    \/ audio_buffer = Garbage /\ ToSend

\* Each garbage frame, heard or due, has a failure of its own.
FailureCounted ==
    GarbageHeard(played) + (IF GarbageDue THEN 1 ELSE 0) <= faults

RaceInv == StartInv /\ SilenceInRaces /\ DeviceOn /\ FailureCounted

LEMMA SilenceServer ==
    ASSUME IInv, RaceInv, ServerNext
    PROVE  SilenceInRaces' /\ DeviceOn'
<1> USE NoClientAssumption DEF IInv, ControlInv, LockOwned, OutputOwned,
         SlotFilled, Holding, DataInv, BufferHolds, Server, Player, Nobody,
         TypeOK, SharedOK, ServerOK, PlayerOK, DeviceOK, Serving, ServerPCs,
         Frames, Chunk, Silence, Garbage, RaceInv, SilenceInRaces, DeviceOn,
         Sending
<1>1. CASE ServerSetup
  BY <1>1 DEF ServerSetup, ServerGoes, Fail, CanFail, sharedVars, stopVars,
     playerVars, clientVars, deviceVars
<1>2. CASE ServerCheck
  BY <1>2 DEF ServerCheck, ServerGoes, sharedVars, stopVars, playerVars,
     clientVars, deviceVars, procVars
<1>3. CASE ServerAccept
  BY <1>3 DEF ServerAccept, ServerGoes, sharedVars, stopVars, playerVars,
     deviceVars, procVars
<1>4. CASE ServerAcceptFails
  BY <1>4 DEF ServerAcceptFails, ServerGoes, Fail, CanFail, sharedVars,
     stopVars, playerVars, clientVars, deviceVars
<1>5. CASE ServerLock
  BY <1>5 DEF ServerLock, stopVars, playerVars, clientVars, deviceVars,
     procVars
<1>6. CASE ServerEnable
  BY <1>6 DEF ServerEnable, ServerGoes, Fail, CanFail, sharedVars, stopVars,
     playerVars, clientVars
<1>7. CASE ServerClear
  BY <1>7 DEF ServerClear, ServerGoes, stopVars, playerVars, clientVars,
     deviceVars, procVars
<1>8. CASE ServerRead
  BY <1>8 DEF ServerRead, ServerGoes, sharedVars, stopVars, playerVars,
     clientVars, deviceVars, procVars
<1>9. CASE ServerReadEnd
  BY <1>9 DEF ServerReadEnd, ServerGoes, sharedVars, stopVars, playerVars,
     clientVars, deviceVars, procVars
<1>10. CASE ServerCopy
  BY <1>10 DEF ServerCopy, ServerGoes, stopVars, playerVars, clientVars,
     deviceVars, procVars
<1>11. CASE ServerPublish
  BY <1>11 DEF ServerPublish, ServerGoes, stopVars, playerVars, clientVars,
     deviceVars, procVars
<1>12. CASE ServerWipe
  BY <1>12 DEF ServerWipe, ServerGoes, stopVars, playerVars, clientVars,
     deviceVars, procVars
<1>13. CASE ServerEmpty
  BY <1>13 DEF ServerEmpty, ServerGoes, stopVars, playerVars, clientVars,
     deviceVars, procVars
<1>14. CASE ServerRelease
  BY <1>14 DEF ServerRelease, ServerGoes, stopVars, playerVars, clientVars,
     deviceVars, procVars
<1>15. CASE ServerClose
  BY <1>15 DEF ServerClose, ServerGoes, sharedVars, stopVars, playerVars,
     clientVars, deviceVars, procVars
<1>16. CASE ServerCrashes
  BY <1>16 DEF ServerCrashes, sharedVars, stopVars, serverVars, playerVars,
     clientVars, deviceVars
<1>17. CASE ServerReadFails
  BY <1>17 DEF ServerReadFails, ServerGoes, Fail, CanFail, sharedVars, stopVars,
     playerVars, clientVars, deviceVars
<1> QED
  BY <1>1, <1>2, <1>3, <1>4, <1>5, <1>6, <1>7, <1>8, <1>9, <1>10, <1>11,
     <1>12, <1>13, <1>14, <1>15, <1>16, <1>17 DEF ServerNext

LEMMA SilencePlayer ==
    ASSUME IInv, RaceInv, PlayerNext
    PROVE  SilenceInRaces' /\ DeviceOn'
<1> USE NoClientAssumption DEF IInv, ControlInv, LockOwned, OutputOwned,
         SlotFilled, Holding, DataInv, BufferHolds, Server, Player, Nobody,
         TypeOK, SharedOK, ServerOK, PlayerOK, DeviceOK, Serving, ServerPCs,
         Frames, Chunk, Silence, Garbage, RaceInv, SilenceInRaces, DeviceOn,
         Sending
<1>1. CASE PlayerEnable
  BY <1>1 DEF PlayerEnable, PlayerGoes, sharedVars, stopVars, serverVars,
     clientVars, procVars
<1>2. CASE PlayerMalloc
  BY <1>2 DEF PlayerMalloc, PlayerGoes, stopVars, serverVars, clientVars,
     deviceVars, procVars
<1>3. CASE PlayerInitFails
  BY <1>3 DEF PlayerInitFails, PlayerGoes, Fail, CanFail, sharedVars, stopVars,
     serverVars, clientVars, deviceVars
<1>4. CASE PlayerLock
  BY <1>4 DEF PlayerLock, PlayerGoes, stopVars, serverVars, clientVars,
     deviceVars, procVars
<1>5. CASE PlayerCheckEmpty
  BY <1>5 DEF PlayerCheckEmpty, PlayerGoes, stopVars, serverVars,
     clientVars, deviceVars, procVars
<1>6. CASE PlayerCheckFull
  BY <1>6 DEF PlayerCheckFull, PlayerGoes, sharedVars, stopVars, serverVars,
     clientVars, deviceVars, procVars
<1>7. CASE PlayerWait
  BY <1>7 DEF PlayerWait, PlayerGoes, stopVars, serverVars, clientVars,
     deviceVars, procVars
<1>8. CASE PlayerFrame
  BY <1>8 DEF PlayerFrame, PlayerGoes, sharedVars, stopVars, serverVars,
     clientVars, deviceVars, procVars
<1>9. CASE PlayerSend
  BY <1>9 DEF PlayerSend, PlayerGoes, stopVars, serverVars, clientVars,
     procVars
<1>10. CASE PlayerSendFails
  BY <1>10 DEF PlayerSendFails, PlayerGoes, Fail, CanFail, stopVars,
     serverVars, clientVars, deviceVars
<1>11. CASE PlayerDisable
  BY <1>11 DEF PlayerDisable, PlayerGoes, sharedVars, stopVars, serverVars,
     clientVars, procVars
<1>12. CASE SpuriousWakeup
  BY <1>12 DEF SpuriousWakeup, stopVars, serverVars, playerVars, clientVars,
     deviceVars, procVars
<1>13. CASE PlayerMallocFails
  BY <1>13 DEF PlayerMallocFails, PlayerGoes, Fail, CanFail, stopVars,
     serverVars, clientVars, deviceVars
<1>14. CASE PlayerExits
  BY <1>14 DEF PlayerExits, sharedVars, stopVars, serverVars, playerVars,
     clientVars, deviceVars
<1> QED
  BY <1>1, <1>2, <1>3, <1>4, <1>5, <1>6, <1>7, <1>8, <1>9, <1>10, <1>11,
     <1>12, <1>13, <1>14 DEF PlayerNext

\* How the count of garbage frames grows.
LEMMA GarbageCounted ==
    ASSUME NEW heard \in Seq(Frames)
    PROVE  /\ GarbageHeard(heard) \in Nat
           /\ GarbageHeard(Append(heard, Garbage)) = GarbageHeard(heard) + 1
           /\ \A f \in Frames : f # Garbage =>
                  GarbageHeard(Append(heard, f)) = GarbageHeard(heard)
<1> DEFINE At(h) == {i \in DOMAIN h : h[i] = Garbage}
<1>1. IsFiniteSet(At(heard)) /\ Cardinality(At(heard)) \in Nat
  <2>1. IsFiniteSet(1 .. Len(heard))
    BY FS_Interval
  <2>2. At(heard) \in SUBSET (1 .. Len(heard))
    OBVIOUS
  <2> QED
    BY <2>1, <2>2, FS_Subset, FS_CardinalityType
<1>2. At(Append(heard, Garbage)) = At(heard) \cup {Len(heard) + 1}
  OBVIOUS
<1>3. Len(heard) + 1 \notin At(heard)
  OBVIOUS
<1>4. Cardinality(At(Append(heard, Garbage))) = Cardinality(At(heard)) + 1
  BY <1>1, <1>2, <1>3, FS_AddElement
<1>5. ASSUME NEW f \in Frames, f # Garbage
      PROVE  At(Append(heard, f)) = At(heard)
  BY <1>5
<1> QED
  BY <1>1, <1>4, <1>5 DEF GarbageHeard

LEMMA GarbageServer ==
    ASSUME IInv, RaceInv, ServerNext
    PROVE  FailureCounted'
<1> USE NoClientAssumption DEF IInv, ControlInv, LockOwned, OutputOwned,
         SlotFilled, StartInv, NotAllocatedYet, Holding, DataInv, BufferHolds, Server,
         Player, Nobody, TypeOK, SharedOK, ServerOK, PlayerOK, DeviceOK,
         ProcOK, Serving, ServerPCs, Frames, Chunk, Silence, Garbage,
         RaceInv, DeviceOn, FailureCounted, GarbageDue, ToSend
<1>0. GarbageHeard(played) \in Nat
  BY GarbageCounted DEF IInv, TypeOK, DeviceOK
<1>1. CASE ServerSetup
  BY <1>0, <1>1 DEF ServerSetup, ServerGoes, Fail, CanFail, sharedVars, stopVars,
     playerVars, clientVars, deviceVars
<1>2. CASE ServerCheck
  BY <1>0, <1>2 DEF ServerCheck, ServerGoes, sharedVars, stopVars, playerVars,
     clientVars, deviceVars, procVars
<1>3. CASE ServerAccept
  BY <1>0, <1>3 DEF ServerAccept, ServerGoes, sharedVars, stopVars, playerVars,
     deviceVars, procVars
<1>4. CASE ServerAcceptFails
  BY <1>0, <1>4 DEF ServerAcceptFails, ServerGoes, Fail, CanFail, sharedVars,
     stopVars, playerVars, clientVars, deviceVars
<1>5. CASE ServerLock
  BY <1>0, <1>5 DEF ServerLock, stopVars, playerVars, clientVars, deviceVars,
     procVars
<1>6. CASE ServerEnable
  BY <1>0, <1>6 DEF ServerEnable, ServerGoes, Fail, CanFail, sharedVars, stopVars,
     playerVars, clientVars
<1>7. CASE ServerClear
  BY <1>0, <1>7 DEF ServerClear, ServerGoes, stopVars, playerVars, clientVars,
     deviceVars, procVars
<1>8. CASE ServerRead
  BY <1>0, <1>8 DEF ServerRead, ServerGoes, sharedVars, stopVars, playerVars,
     clientVars, deviceVars, procVars
<1>9. CASE ServerReadEnd
  BY <1>0, <1>9 DEF ServerReadEnd, ServerGoes, sharedVars, stopVars, playerVars,
     clientVars, deviceVars, procVars
<1>10. CASE ServerCopy
  BY <1>0, <1>10 DEF ServerCopy, ServerGoes, stopVars, playerVars, clientVars,
     deviceVars, procVars
<1>11. CASE ServerPublish
  BY <1>0, <1>11 DEF ServerPublish, ServerGoes, stopVars, playerVars, clientVars,
     deviceVars, procVars
<1>12. CASE ServerWipe
  BY <1>0, <1>12 DEF ServerWipe, ServerGoes, stopVars, playerVars, clientVars,
     deviceVars, procVars
<1>13. CASE ServerEmpty
  BY <1>0, <1>13 DEF ServerEmpty, ServerGoes, stopVars, playerVars, clientVars,
     deviceVars, procVars
<1>14. CASE ServerRelease
  BY <1>0, <1>14 DEF ServerRelease, ServerGoes, stopVars, playerVars, clientVars,
     deviceVars, procVars
<1>15. CASE ServerClose
  BY <1>0, <1>15 DEF ServerClose, ServerGoes, sharedVars, stopVars, playerVars,
     clientVars, deviceVars, procVars
<1>16. CASE ServerCrashes
  BY <1>0, <1>16 DEF ServerCrashes, sharedVars, stopVars, serverVars, playerVars,
     clientVars, deviceVars
<1>17. CASE ServerReadFails
  BY <1>0, <1>17 DEF ServerReadFails, ServerGoes, Fail, CanFail, sharedVars, stopVars,
     playerVars, clientVars, deviceVars
<1> QED
  BY <1>1, <1>2, <1>3, <1>4, <1>5, <1>6, <1>7, <1>8, <1>9, <1>10, <1>11,
     <1>12, <1>13, <1>14, <1>15, <1>16, <1>17 DEF ServerNext

LEMMA GarbagePlayer ==
    ASSUME IInv, RaceInv, PlayerNext
    PROVE  FailureCounted'
<1> USE NoClientAssumption DEF IInv, ControlInv, LockOwned, OutputOwned,
         SlotFilled, StartInv, NotAllocatedYet, Holding, DataInv, BufferHolds, Server,
         Player, Nobody, TypeOK, SharedOK, ServerOK, PlayerOK, DeviceOK,
         ProcOK, Serving, ServerPCs, Frames, Chunk, Silence, Garbage,
         RaceInv, DeviceOn, FailureCounted, GarbageDue, ToSend
<1>0. GarbageHeard(played) \in Nat
  BY GarbageCounted DEF IInv, TypeOK, DeviceOK
<1>1. CASE PlayerEnable
  BY <1>0, <1>1 DEF PlayerEnable, PlayerGoes, sharedVars, stopVars, serverVars,
     clientVars, procVars
<1>2. CASE PlayerMalloc
  BY <1>0, <1>2 DEF PlayerMalloc, PlayerGoes, stopVars, serverVars, clientVars,
     deviceVars, procVars
<1>3. CASE PlayerInitFails
  BY <1>0, <1>3 DEF PlayerInitFails, PlayerGoes, Fail, CanFail, sharedVars, stopVars,
     serverVars, clientVars, deviceVars
<1>4. CASE PlayerLock
  BY <1>0, <1>4 DEF PlayerLock, PlayerGoes, stopVars, serverVars, clientVars,
     deviceVars, procVars
<1>5. CASE PlayerCheckEmpty
  BY <1>0, <1>5 DEF PlayerCheckEmpty, PlayerGoes, stopVars, serverVars,
     clientVars, deviceVars, procVars
<1>6. CASE PlayerCheckFull
  BY <1>0, <1>6 DEF PlayerCheckFull, PlayerGoes, sharedVars, stopVars, serverVars,
     clientVars, deviceVars, procVars
<1>7. CASE PlayerWait
  BY <1>0, <1>7 DEF PlayerWait, PlayerGoes, stopVars, serverVars, clientVars,
     deviceVars, procVars
<1>8. CASE PlayerFrame
  BY <1>0, <1>8 DEF PlayerFrame, PlayerGoes, sharedVars, stopVars, serverVars,
     clientVars, deviceVars, procVars
<1>9. CASE PlayerSend
  <2> DEFINE frame == IF frmLen = 0 THEN Silence ELSE audio_buffer
  <2>1. /\ played' = Append(played, frame) /\ ppc = "send" /\ ppc' = "lock"
        /\ faults' = faults /\ audio_buffer' = audio_buffer /\ spc' = spc
        /\ audio_buffer_size' = 0 /\ frame \in Frames
    BY <1>9 DEF PlayerSend, PlayerGoes, procVars, serverVars
  <2>2. spc' # "publish" /\ ~GarbageDue'
    BY <2>1
  <2>3. GarbageHeard(played)' = GarbageHeard(played')
    BY DEF GarbageHeard
  <2>4. CASE frame = Garbage
    <3>1. GarbageHeard(played') = GarbageHeard(played) + 1
      BY <2>1, <2>4, GarbageCounted
    <3>2. GarbageDue
      BY <2>1, <2>4
    <3> QED
      BY <2>1, <2>2, <2>3, <3>1, <3>2, <1>0
  <2>5. CASE frame # Garbage
    <3>1. GarbageHeard(played') = GarbageHeard(played)
      BY <2>1, <2>5, GarbageCounted
    <3> QED
      BY <2>1, <2>2, <2>3, <3>1, <1>0
  <2> QED
    BY <2>4, <2>5
<1>10. CASE PlayerSendFails
  BY <1>0, <1>10 DEF PlayerSendFails, PlayerGoes, Fail, CanFail, stopVars,
     serverVars, clientVars, deviceVars
<1>11. CASE PlayerDisable
  BY <1>0, <1>11 DEF PlayerDisable, PlayerGoes, sharedVars, stopVars, serverVars,
     clientVars, procVars
<1>12. CASE SpuriousWakeup
  BY <1>0, <1>12 DEF SpuriousWakeup, stopVars, serverVars, playerVars, clientVars,
     deviceVars, procVars
<1>13. CASE PlayerMallocFails
  BY <1>0, <1>13 DEF PlayerMallocFails, PlayerGoes, Fail, CanFail, stopVars,
     serverVars, clientVars, deviceVars
<1>14. CASE PlayerExits
  BY <1>0, <1>14 DEF PlayerExits, sharedVars, stopVars, serverVars, playerVars,
     clientVars, deviceVars
<1> QED
  BY <1>1, <1>2, <1>3, <1>4, <1>5, <1>6, <1>7, <1>8, <1>9, <1>10, <1>11,
     <1>12, <1>13, <1>14 DEF PlayerNext

\* The rest: clients, the device, and steps that change nothing.
LEMMA RaceInvOthers ==
    ASSUME IInv, RaceInv, ClientNext \/ DevicePlays \/ UNCHANGED vars
    PROVE  RaceInv'
<1>1. UNCHANGED <<sharedVars, serverVars, playerVars, device, played, procVars>>
  BY DEF ClientNext, Connect, Write, Finish, DevicePlays, vars, deviceVars, procVars
<1>2. GarbageHeard(played)' = GarbageHeard(played)
  BY <1>1 DEF GarbageHeard
<1> QED
  BY <1>1, <1>2 DEF RaceInv, StartInv, NotAllocatedYet, FailuresBehind,
     CrashOnlyWithoutBuffer,
     SilenceInRaces, DeviceOn, FailureCounted, GarbageDue, ToSend, Sending,
     sharedVars, serverVars, playerVars, procVars

LEMMA RaceInvInit == Init => RaceInv
<1> SUFFICES ASSUME Init PROVE RaceInv
  OBVIOUS
<1>1. GarbageHeard(played) = 0
  <2>1. {i \in DOMAIN played : played[i] = Garbage} = {}
    BY DEF Init
  <2> QED
    BY <2>1, FS_EmptySet DEF GarbageHeard
<1> QED
  BY <1>1 DEF Init, RaceInv, StartInv, NotAllocatedYet, FailuresBehind,
     CrashOnlyWithoutBuffer,
     SilenceInRaces, DeviceOn, FailureCounted, GarbageDue, ToSend,
     Sending

LEMMA RaceInvStep == IInv /\ RaceInv /\ [Next]_vars => RaceInv'
  BY StartInvStep, SilenceServer, SilencePlayer, GarbageServer, GarbagePlayer, RaceInvOthers
     DEF Next, RaceInv

LEMMA RaceInvHolds == Spec => []RaceInv
  BY RaceInvInit, RaceInvStep, IInvHolds, PTL DEF Spec

\* Filler is sent only in the tear-down of a connection or once per failure.
LEMMA FillerStep ==
    ASSUME IInv, RaceInv, RaceInv', [Next]_vars, NEW i \in DOMAIN played' \ DOMAIN played
    PROVE  /\ played'[i] = Silence => spc \in {"empty", "release"}
           /\ played'[i] = Garbage => GarbageHeard(played') <= faults
<1> DEFINE frame == IF frmLen = 0 THEN Silence ELSE audio_buffer
<1>1. PlayerSend
  <2>1. played' # played
    OBVIOUS
  <2> QED
    BY <2>1 DEF Next, ServerNext, PlayerNext, ClientNext, DevicePlays, vars, deviceVars,
       ServerSetup, ServerCheck, ServerAccept, ServerAcceptFails, ServerLock, ServerEnable,
       ServerClear, ServerRead, ServerReadEnd, ServerReadFails, ServerCopy,
       ServerPublish, ServerWipe,
       ServerEmpty, ServerRelease, ServerClose, ServerCrashes, PlayerEnable, PlayerMalloc,
       PlayerInitFails, PlayerMallocFails, PlayerExits, PlayerLock, PlayerCheckEmpty,
       PlayerCheckFull, PlayerWait,
       PlayerFrame, PlayerSendFails, PlayerDisable, SpuriousWakeup, Connect, Write, Finish
<1>2. played' = Append(played, frame) /\ played \in Seq(Frames) /\ ppc = "send"
      /\ faults' = faults
  BY <1>1 DEF PlayerSend, PlayerGoes, IInv, TypeOK, DeviceOK, procVars
<1>3. played'[i] = frame
  BY <1>2
<1>4. frame = Silence => spc \in {"empty", "release"}
  BY <1>2 DEF RaceInv, SilenceInRaces, Sending
<1>5. GarbageHeard(played') <= faults
  <2>1. GarbageHeard(played)' = GarbageHeard(played') /\ faults \in Nat
    BY DEF GarbageHeard, IInv, TypeOK, ProcOK
  <2>2. GarbageHeard(played') \in Nat
    <3>1. played' \in Seq(Frames)
      BY TypeOKStep DEF IInv, TypeOK, DeviceOK
    <3> QED
      BY <3>1, GarbageCounted
  <2> QED
    BY <1>2, <2>1, <2>2 DEF RaceInv, FailureCounted
<1> QED
  BY <1>3, <1>4, <1>5

\* A frame that is nobody's audio is sent only around the end of a connection,
\* as silence, or as garbage, once for each failed call.
THEOREM FillerOnlyInRacesThm == Spec => FillerOnlyInRaces
<1>1. IInv /\ RaceInv /\ RaceInv' /\ [Next]_vars =>
        [ \A i \in DOMAIN played' \ DOMAIN played :
              /\ played'[i] = Silence => spc \in {"empty", "release"}
              /\ played'[i] = Garbage => GarbageHeard(played') <= faults ]_vars
  BY FillerStep
<1> QED
  BY <1>1, IInvHolds, RaceInvHolds, PTL DEF Spec, FillerOnlyInRaces

-------------------------------------------------------------------------------
(* Old audio in the device. *)

LEMMA OldAudioServer ==
    ASSUME IInv, NoOldAudio, ServerNext
    PROVE  NoOldAudio'
<1> USE NoClientAssumption DEF IInv, ControlInv, LockOwned, OutputOwned,
         SlotFilled, Holding, DataInv, BufferHolds, Server, Player, Nobody,
         TypeOK, SharedOK, ServerOK, PlayerOK, DeviceOK, Serving, ServerPCs,
         Frames, Chunk, Silence,
         Garbage, NoOldAudio
<1>1. CASE ServerSetup
  BY <1>1 DEF ServerSetup, ServerGoes, Fail, CanFail, sharedVars, stopVars,
     playerVars, clientVars, deviceVars
<1>2. CASE ServerCheck
  BY <1>2 DEF ServerCheck, ServerGoes, sharedVars, stopVars, playerVars,
     clientVars, deviceVars, procVars
<1>3. CASE ServerAccept
  BY <1>3 DEF ServerAccept, ServerGoes, sharedVars, stopVars, playerVars,
     deviceVars, procVars
<1>4. CASE ServerAcceptFails
  BY <1>4 DEF ServerAcceptFails, ServerGoes, Fail, CanFail, sharedVars,
     stopVars, playerVars, clientVars, deviceVars
<1>5. CASE ServerLock
  BY <1>5 DEF ServerLock, stopVars, playerVars, clientVars, deviceVars,
     procVars
<1>6. CASE ServerEnable
  BY <1>6 DEF ServerEnable, ServerGoes, Fail, CanFail, sharedVars, stopVars,
     playerVars, clientVars
<1>7. CASE ServerClear
  BY <1>7 DEF ServerClear, ServerGoes, stopVars, playerVars, clientVars,
     deviceVars, procVars
<1>8. CASE ServerRead
  BY <1>8 DEF ServerRead, ServerGoes, sharedVars, stopVars, playerVars,
     clientVars, deviceVars, procVars
<1>9. CASE ServerReadEnd
  BY <1>9 DEF ServerReadEnd, ServerGoes, sharedVars, stopVars, playerVars,
     clientVars, deviceVars, procVars
<1>10. CASE ServerCopy
  BY <1>10 DEF ServerCopy, ServerGoes, stopVars, playerVars, clientVars,
     deviceVars, procVars
<1>11. CASE ServerPublish
  BY <1>11 DEF ServerPublish, ServerGoes, stopVars, playerVars, clientVars,
     deviceVars, procVars
<1>12. CASE ServerWipe
  BY <1>12 DEF ServerWipe, ServerGoes, stopVars, playerVars, clientVars,
     deviceVars, procVars
<1>13. CASE ServerEmpty
  BY <1>13 DEF ServerEmpty, ServerGoes, stopVars, playerVars, clientVars,
     deviceVars, procVars
<1>14. CASE ServerRelease
  BY <1>14 DEF ServerRelease, ServerGoes, stopVars, playerVars, clientVars,
     deviceVars, procVars
<1>15. CASE ServerClose
  BY <1>15 DEF ServerClose, ServerGoes, sharedVars, stopVars, playerVars,
     clientVars, deviceVars, procVars
<1>16. CASE ServerCrashes
  BY <1>16 DEF ServerCrashes, sharedVars, stopVars, serverVars, playerVars,
     clientVars, deviceVars
<1>17. CASE ServerReadFails
  BY <1>17 DEF ServerReadFails, ServerGoes, Fail, CanFail, sharedVars, stopVars,
     playerVars, clientVars, deviceVars
<1> QED
  BY <1>1, <1>2, <1>3, <1>4, <1>5, <1>6, <1>7, <1>8, <1>9, <1>10, <1>11,
     <1>12, <1>13, <1>14, <1>15, <1>16, <1>17 DEF ServerNext

LEMMA OldAudioPlayer ==
    ASSUME IInv, NoOldAudio, PlayerNext
    PROVE  NoOldAudio'
<1> USE NoClientAssumption DEF IInv, ControlInv, LockOwned, OutputOwned,
         SlotFilled, Holding, DataInv, BufferHolds, Server, Player, Nobody,
         TypeOK, SharedOK, ServerOK, PlayerOK, DeviceOK, Serving, ServerPCs,
         Frames, Chunk, Silence,
         Garbage, NoOldAudio
<1>1. CASE PlayerEnable
  BY <1>1 DEF PlayerEnable, PlayerGoes, sharedVars, stopVars, serverVars,
     clientVars, procVars
<1>2. CASE PlayerMalloc
  BY <1>2 DEF PlayerMalloc, PlayerGoes, stopVars, serverVars, clientVars,
     deviceVars, procVars
<1>3. CASE PlayerInitFails
  BY <1>3 DEF PlayerInitFails, PlayerGoes, Fail, CanFail, sharedVars, stopVars,
     serverVars, clientVars, deviceVars
<1>4. CASE PlayerLock
  BY <1>4 DEF PlayerLock, PlayerGoes, stopVars, serverVars, clientVars,
     deviceVars, procVars
<1>5. CASE PlayerCheckEmpty
  BY <1>5 DEF PlayerCheckEmpty, PlayerGoes, stopVars, serverVars,
     clientVars, deviceVars, procVars
<1>6. CASE PlayerCheckFull
  BY <1>6 DEF PlayerCheckFull, PlayerGoes, sharedVars, stopVars, serverVars,
     clientVars, deviceVars, procVars
<1>7. CASE PlayerWait
  BY <1>7 DEF PlayerWait, PlayerGoes, stopVars, serverVars, clientVars,
     deviceVars, procVars
<1>8. CASE PlayerFrame
  BY <1>8 DEF PlayerFrame, PlayerGoes, sharedVars, stopVars, serverVars,
     clientVars, deviceVars, procVars
<1>9. CASE PlayerSend
  BY <1>9 DEF PlayerSend, PlayerGoes, stopVars, serverVars, clientVars,
     procVars
<1>10. CASE PlayerSendFails
  BY <1>10 DEF PlayerSendFails, PlayerGoes, Fail, CanFail, stopVars,
     serverVars, clientVars, deviceVars
<1>11. CASE PlayerDisable
  BY <1>11 DEF PlayerDisable, PlayerGoes, sharedVars, stopVars, serverVars,
     clientVars, procVars
<1>12. CASE SpuriousWakeup
  BY <1>12 DEF SpuriousWakeup, stopVars, serverVars, playerVars, clientVars,
     deviceVars, procVars
<1>13. CASE PlayerMallocFails
  BY <1>13 DEF PlayerMallocFails, PlayerGoes, Fail, CanFail, stopVars,
     serverVars, clientVars, deviceVars
<1>14. CASE PlayerExits
  BY <1>14 DEF PlayerExits, sharedVars, stopVars, serverVars, playerVars,
     clientVars, deviceVars
<1> QED
  BY <1>1, <1>2, <1>3, <1>4, <1>5, <1>6, <1>7, <1>8, <1>9, <1>10, <1>11,
     <1>12, <1>13, <1>14 DEF PlayerNext

LEMMA OldAudioOthers ==
    ASSUME IInv, NoOldAudio, ClientNext \/ DevicePlays \/ UNCHANGED vars
    PROVE  NoOldAudio'
<1>1. UNCHANGED <<active_client_sock, spc, enableOK>>
  BY DEF ClientNext, Connect, Write, Finish, DevicePlays, vars, deviceVars, sharedVars,
     serverVars
<1>2. devQueue' = devQueue \/ (devQueue # <<>> /\ devQueue' = Tail(devQueue))
  BY DEF ClientNext, Connect, Write, Finish, DevicePlays, vars, deviceVars
<1> QED
  BY <1>1, <1>2 DEF NoOldAudio, IInv, TypeOK, DeviceOK

\* Once its output is enabled, a client's frames are all that the device has.
THEOREM NoOldAudioThm == Spec => []NoOldAudio
<1>1. Init => NoOldAudio
  BY DEF Init, NoOldAudio
<1>2. IInv /\ NoOldAudio /\ [Next]_vars => NoOldAudio'
  BY OldAudioServer, OldAudioPlayer, OldAudioOthers DEF Next
<1> QED
  BY <1>1, <1>2, IInvHolds, PTL DEF Spec

-------------------------------------------------------------------------------
(* AudioOutput implements SingleSource. *)

LEMMA SendRefines ==
    ASSUME IInv, PlayerSend
    PROVE  Promise!Next
<1> DEFINE frame == IF frmLen = 0 THEN Silence ELSE audio_buffer
<1>1. /\ played' = Append(played, frame)
      /\ UNCHANGED active_client_sock
      /\ ppc = "send"
  BY DEF PlayerSend, PlayerGoes
<1>2. /\ active_client_sock = client_sock
      /\ client_sock \in Clients
      /\ client_sock # NoClient
      /\ reads[client_sock] <= MaxWrites
  BY <1>1, NoClientAssumption, BoundsAssumption
     DEF IInv, ControlInv, SlotFilled, OutputOwned, Holding, TypeOK, ServerOK,
         ClientOK, Serving, ServerPCs, DataInv, ReadsBounded
<1>3. CASE frame \in {Silence, Garbage}
  <2>1. Promise!Fill
    BY <1>1, <1>2, <1>3 DEF Promise!Fill
  <2> QED
    BY <2>1 DEF Promise!Next
<1>4. CASE frame \notin {Silence, Garbage}
  <2>1. /\ frame = audio_buffer
        /\ audio_buffer.src # NoClient
    BY <1>4 DEF IInv, DataInv, BufferHolds
  <2>2. /\ audio_buffer \in Frames
        /\ audio_buffer.src = client_sock
        /\ audio_buffer.n \in 1 .. MaxWrites
    BY <1>2, <2>1, BoundsAssumption
       DEF IInv, DataInv, BufferHolds, TypeOK, SharedOK, ServerOK
  <2>3. audio_buffer = [src |-> client_sock, n |-> audio_buffer.n]
    BY <2>2 DEF Frames
  <2>4. \A i \in DOMAIN played :
            played[i].src = client_sock => played[i].n < audio_buffer.n
    BY <1>1, <2>1, <2>2 DEF IInv, DataInv, SlotFresh, ToSend
  <2>5. Promise!Hear(audio_buffer.n)
    BY <1>1, <1>2, <2>1, <2>3, <2>4 DEF Promise!Hear
  <2> QED
    BY <2>2, <2>5 DEF Promise!Next
<1> QED
  BY <1>3, <1>4

\* Every step of the threads is a step of the promise or leaves it alone.
LEMMA StepRefines == IInv /\ [Next]_vars => [Promise!Next]_(Promise!vars)
<1> SUFFICES ASSUME IInv, [Next]_vars
             PROVE  Promise!Next \/ UNCHANGED <<active_client_sock, played>>
  BY DEF Promise!vars
<1>1. CASE ServerLock
  <2>1. CASE active_client_sock # NoClient
    BY <1>1, <2>1 DEF ServerLock, deviceVars
  <2>2. CASE active_client_sock = NoClient
    <3>1. client_sock \in Clients
      BY <1>1 DEF ServerLock, IInv, TypeOK, ServerOK, Serving, ServerPCs
    <3>2. Promise!Acquire(client_sock)
      BY <1>1, <2>2 DEF ServerLock, deviceVars, Promise!Acquire
    <3> QED
      BY <3>1, <3>2 DEF Promise!Next
  <2> QED
    BY <2>1, <2>2
<1>2. CASE ServerRelease
  <2>1. Promise!Release
    BY <1>2 DEF ServerRelease, deviceVars, Promise!Release
  <2> QED
    BY <2>1 DEF Promise!Next
<1>3. CASE PlayerSend
  BY <1>3, SendRefines
<1>4. CASE ServerNext /\ ~ServerLock /\ ~ServerRelease
  BY <1>4 DEF ServerNext, ServerSetup, ServerCheck, ServerAccept,
     ServerAcceptFails, ServerEnable, ServerClear, ServerRead, ServerReadEnd,
     ServerReadFails,
     ServerCopy, ServerPublish, ServerWipe, ServerEmpty, ServerClose,
     ServerCrashes, sharedVars, deviceVars
<1>5. CASE PlayerNext /\ ~PlayerSend
  BY <1>5 DEF PlayerNext, PlayerEnable, PlayerMalloc,
     PlayerInitFails, PlayerMallocFails, PlayerExits, PlayerLock, PlayerCheckEmpty,
     PlayerCheckFull, PlayerWait, PlayerFrame,
     PlayerSendFails, PlayerDisable, SpuriousWakeup, sharedVars, deviceVars
<1>6. CASE ClientNext \/ DevicePlays
  BY <1>6 DEF ClientNext, Connect, Write, Finish, DevicePlays, sharedVars,
     deviceVars
<1>7. CASE UNCHANGED vars
  BY <1>7 DEF vars, sharedVars, deviceVars
<1> QED
  BY <1>1, <1>2, <1>3, <1>4, <1>5, <1>6, <1>7 DEF Next

\* One source at a time reaches the device, in order and without repetition,
\* whatever the interleaving of the server, the player and the failures.
THEOREM Refinement == Spec => OneSourceAtATime
<1>1. Init => Promise!Init
  BY DEF Init, Promise!Init
<1> QED
  BY <1>1, StepRefines, IInvHolds, PTL
     DEF Spec, OneSourceAtATime, Promise!Spec

-------------------------------------------------------------------------------
(***************************************************************************)
(* The playback half of AudioDaemon.                                       *)
(***************************************************************************)
\* When read has returned 0 the connection is at its end, and stays there;
\* otherwise it has failed.
ReadAll ==
    spc \in {"wipe", "empty"} =>
        \/ reads[client_sock] = written[client_sock] /\ link[client_sock] = "finished"
        \/ faults > 0

LEMMA ReadAllStep == IInv /\ ReadAll /\ [Next]_vars => ReadAll'
<1> SUFFICES ASSUME IInv, ReadAll, [Next]_vars PROVE ReadAll'
  OBVIOUS
<1> USE DEF ReadAll
<1>0. faults \in Nat /\ faults' \in {faults, faults + 1}
  BY DEF IInv, TypeOK, ProcOK, Next, ServerNext, PlayerNext, ClientNext, ServerSetup,
     ServerCheck, ServerAccept, ServerAcceptFails, ServerLock, ServerEnable, ServerClear,
     ServerRead, ServerReadEnd, ServerReadFails, ServerCopy, ServerPublish, ServerWipe,
     ServerEmpty, ServerRelease, ServerClose, ServerCrashes, PlayerEnable, PlayerMalloc,
     PlayerInitFails, PlayerMallocFails, PlayerExits, PlayerLock, PlayerCheckEmpty,
     PlayerCheckFull, PlayerWait, PlayerFrame, PlayerSend, PlayerSendFails, PlayerDisable,
     SpuriousWakeup, Connect, Write, Finish, DevicePlays, Fail, vars, procVars
<1>1. CASE ServerReadEnd
  BY <1>1 DEF ServerReadEnd, ServerGoes, clientVars
<1>2. CASE ServerReadFails
  BY <1>0, <1>2 DEF ServerReadFails, Fail
<1>3. CASE ServerWipe
  BY <1>3 DEF ServerWipe, ServerGoes, clientVars, procVars
<1>4. CASE ServerNext /\ ~ServerReadEnd /\ ~ServerReadFails /\ ~ServerWipe
  <2>1. spc' \notin {"wipe", "empty"} \/ UNCHANGED <<spc, client_sock, reads, written, link>>
    BY <1>4 DEF ServerNext, ServerSetup, ServerCheck, ServerAccept, ServerAcceptFails,
       ServerLock, ServerEnable, ServerClear, ServerRead, ServerCopy, ServerPublish,
       ServerEmpty, ServerRelease, ServerClose, ServerCrashes, ServerGoes, serverVars,
       clientVars
  <2> QED
    BY <1>0, <2>1
<1>5. CASE PlayerNext \/ DevicePlays \/ UNCHANGED vars
  <2>1. UNCHANGED <<spc, client_sock, reads, written, link>>
    BY <1>5 DEF PlayerNext, PlayerEnable, PlayerMalloc, PlayerInitFails, PlayerMallocFails,
       PlayerExits, PlayerLock, PlayerCheckEmpty, PlayerCheckFull, PlayerWait, PlayerFrame,
       PlayerSend, PlayerSendFails, PlayerDisable, SpuriousWakeup, DevicePlays, vars,
       serverVars, clientVars
  <2> QED
    BY <1>0, <2>1
<1>6. CASE ClientNext
  <2> PICK c \in Clients : Connect(c) \/ Write(c) \/ Finish(c)
    BY <1>6 DEF ClientNext
  <2>1. UNCHANGED <<spc, client_sock, reads>>
    BY DEF Connect, Write, Finish, serverVars
  <2>2. /\ link \in [Clients -> {"away", "connected", "finished"}]
        /\ written \in [Clients -> Nat]
        /\ spc \in {"wipe", "empty"} => client_sock \in Clients
    BY DEF IInv, TypeOK, ClientOK, ServerOK, Serving, ServerPCs
  <2>3. \A d \in Clients : link[d] = "finished" => link'[d] = "finished" /\ written'[d] = written[d]
    BY <2>2 DEF Connect, Write, Finish
  <2> QED
    BY <1>0, <2>1, <2>2, <2>3
<1> QED
  BY <1>1, <1>2, <1>3, <1>4, <1>5, <1>6 DEF Next

\* A step that AudioDaemon does not see.
LEMMA PlaybackStutters ==
  ASSUME UNCHANGED <<link, written, reads, audio_buffer_size, active_client_sock, devQueue>>,
         (ppc' \in {"frame", "send"}) = (ppc \in {"frame", "send"}),
         (IF spc = "lock" THEN <<client_sock>> \o backlog ELSE backlog)'
             = IF spc = "lock" THEN <<client_sock>> \o backlog ELSE backlog,
         \/ spc' = spc
         \/ {spc, spc'} \subseteq {"start", "check", "accept", "lock", "close", "done"}
         \/ {spc, spc'} \subseteq {"enable", "clear", "read", "wipe", "empty"}
         \/ {spc, spc'} \subseteq {"copy", "publish"}
  PROVE  UNCHANGED Daemon!vars
<1>1. (IF spc \in {"enable", "clear", "read", "wipe", "empty"} THEN "read"
       ELSE IF spc \in {"copy", "publish"} THEN "publish"
       ELSE IF spc = "release" THEN "release" ELSE "accept")'
       = (IF spc \in {"enable", "clear", "read", "wipe", "empty"} THEN "read"
       ELSE IF spc \in {"copy", "publish"} THEN "publish"
       ELSE IF spc = "release" THEN "release" ELSE "accept")
  OBVIOUS
<1>2. UNCHANGED Daemon!outputVars
  BY <1>1 DEF Daemon!outputVars
<1>3. UNCHANGED Daemon!sockVars
  BY DEF Daemon!sockVars
<1> QED
  BY <1>2, <1>3 DEF Daemon!vars, Daemon!controlVars, Daemon!iacVars, Daemon!inputVars

\* What AudioDaemon lets this half do.
InDaemon ==
    \/ UNCHANGED Daemon!vars
    \/ Daemon!Output \/ Daemon!Player \/ Daemon!PlayerFails
    \/ Daemon!OutputReadFails /\ faults > 0
    \/ Daemon!DevicePlays \/ Daemon!DeviceDrops

\* The queue as AudioDaemon has it: accept alone does not change it.
LEMMA AcceptedStays ==
  ASSUME IInv, ServerAccept
  PROVE  (IF spc = "lock" THEN <<client_sock>> \o backlog ELSE backlog)'
             = IF spc = "lock" THEN <<client_sock>> \o backlog ELSE backlog
<1>1. /\ backlog \in Seq(Clients) /\ backlog # <<>>
      /\ client_sock' = Head(backlog) /\ backlog' = Tail(backlog)
      /\ spc = "accept" /\ spc' = "lock"
  BY DEF IInv, TypeOK, ClientOK, ServerAccept, ServerGoes
<1>2. <<Head(backlog)>> \o Tail(backlog) = backlog
  BY <1>1
<1> QED
  BY <1>1, <1>2

LEMMA ServerInDaemon ==
  ASSUME IInv, ReadAll, ServerNext
  PROVE  InDaemon
<1> USE DEF InDaemon
<1>1. CASE ServerLock
  <2>1. /\ spc = "lock" /\ spc' = "enable" /\ lock = Nobody
        /\ active_client_sock' = client_sock
        /\ UNCHANGED <<audio_buffer_size, client_sock, reads, ppc, backlog, link, written,
                       devQueue>>
    BY <1>1 DEF ServerLock, IInv, ControlInv, OutputOwned, Holding, playerVars, clientVars,
       deviceVars
  <2>2. ppc \notin {"frame", "send"} /\ audio_buffer_size = 0
    BY <2>1 DEF IInv, ControlInv, LockOwned, SlotFilled, Player, Nobody
  <2>3. client_sock \in Clients /\ backlog \in Seq(Clients)
    BY <2>1 DEF IInv, TypeOK, ServerOK, ClientOK, Serving, ServerPCs
  <2>4. /\ <<client_sock>> \o backlog # <<>>
        /\ Head(<<client_sock>> \o backlog) = client_sock
        /\ Tail(<<client_sock>> \o backlog) = backlog
    BY <2>3
  <2>5. Daemon!OutputTakes
    BY <2>1, <2>2, <2>3, <2>4 DEF Daemon!OutputTakes, Daemon!OutputGoes, Daemon!Nobody,
       Nobody, Daemon!controlVars, Daemon!iacVars, Daemon!inputVars
  <2> QED
    BY <2>5 DEF Daemon!Output
<1>2. CASE ServerRead
  <2>1. /\ spc = "read" /\ spc' = "copy" /\ client_sock \in Clients
        /\ active_client_sock = client_sock
        /\ reads[client_sock] < written[client_sock]
        /\ reads' = [reads EXCEPT ![client_sock] = @ + 1]
        /\ UNCHANGED <<lock, audio_buffer_size, client_sock, active_client_sock, ppc, backlog,
                       link, written, devQueue>>
    BY <1>2 DEF ServerRead, ServerGoes, IInv, ControlInv, OutputOwned, Holding, TypeOK,
       ServerOK, Serving, ServerPCs, sharedVars, playerVars, clientVars, deviceVars
  <2>2. reads \in [Clients -> Nat] /\ written \in [Clients -> Nat]
    BY DEF IInv, TypeOK, ServerOK, ClientOK
  <2>3. /\ written[client_sock] - reads[client_sock] > 0
        /\ [c \in Clients |-> written[c] - reads[c]]'
               = [[c \in Clients |-> written[c] - reads[c]] EXCEPT ![client_sock] = @ - 1]
    <3>1. \A c \in Clients : reads'[c] = IF c = client_sock THEN reads[c] + 1 ELSE reads[c]
      BY <2>1, <2>2
    <3>2. \A c \in Clients :
              written'[c] - reads'[c] = IF c = client_sock THEN (written[c] - reads[c]) - 1
                                        ELSE written[c] - reads[c]
      BY <2>1, <2>2, <3>1
    <3>3. written[client_sock] - reads[client_sock] > 0
      BY <2>1, <2>2
    <3>4. [c \in Clients |-> written'[c] - reads'[c]]
              = [c \in Clients |-> IF c = client_sock THEN (written[c] - reads[c]) - 1
                                   ELSE written[c] - reads[c]]
      BY <3>2, Zenon
    <3>5. [c \in Clients |-> IF c = client_sock THEN (written[c] - reads[c]) - 1
                             ELSE written[c] - reads[c]]
              = [[c \in Clients |-> written[c] - reads[c]] EXCEPT ![client_sock] = @ - 1]
      BY <2>1
    <3> QED
      BY <3>3, <3>4, <3>5
  <2>4. Daemon!OutputReads
    BY <2>1, <2>3 DEF Daemon!OutputReads, Daemon!OutputGoes, Daemon!controlVars,
       Daemon!iacVars, Daemon!inputVars
  <2> QED
    BY <2>4 DEF Daemon!Output
<1>3. CASE ServerPublish
  <2>1. /\ spc = "publish" /\ spc' = "read" /\ lock = Server /\ audio_buffer_size' = 1
        /\ UNCHANGED <<client_sock, active_client_sock, reads, ppc, backlog, link, written,
                       devQueue>>
    BY <1>3 DEF ServerPublish, ServerGoes, IInv, ControlInv, LockOwned, playerVars,
       clientVars, deviceVars
  <2>2. ppc \notin {"frame", "send"}
    BY <2>1 DEF IInv, ControlInv, LockOwned, Server, Player
  <2>3. Daemon!OutputPublishes
    BY <2>1, <2>2 DEF Daemon!OutputPublishes, Daemon!OutputGoes, Daemon!Nobody, Nobody,
       Daemon!controlVars, Daemon!iacVars, Daemon!sockVars, Daemon!inputVars
  <2> QED
    BY <2>3 DEF Daemon!Output
<1>4. CASE ServerEmpty
  <2>1. /\ spc = "empty" /\ spc' = "release" /\ client_sock \in Clients
        /\ active_client_sock = client_sock /\ audio_buffer_size' = 0
        /\ UNCHANGED <<client_sock, active_client_sock, reads, ppc, backlog, link, written,
                       devQueue>>
    BY <1>4 DEF ServerEmpty, ServerGoes, IInv, ControlInv, OutputOwned, Holding, TypeOK,
       ServerOK, Serving, ServerPCs, playerVars, clientVars, deviceVars
  <2>2. CASE reads[client_sock] = written[client_sock] /\ link[client_sock] = "finished"
    <3>1. written[client_sock] - reads[client_sock] = 0
      BY <2>1, <2>2 DEF IInv, TypeOK, ServerOK, ClientOK
    <3>2. Daemon!OutputEnds
      BY <2>1, <2>2, <3>1 DEF Daemon!OutputEnds, Daemon!OutputGoes, Daemon!Gone,
         Daemon!controlVars, Daemon!iacVars, Daemon!sockVars, Daemon!inputVars
    <3> QED
      BY <3>2 DEF Daemon!Output
  <2>3. CASE faults > 0
    <3>1. Daemon!OutputReadFails
      BY <2>1 DEF Daemon!OutputReadFails, Daemon!OutputGoes,
         Daemon!controlVars, Daemon!iacVars, Daemon!sockVars, Daemon!inputVars
    <3> QED
      BY <2>3, <3>1
  <2> QED
    BY <2>1, <2>2, <2>3 DEF ReadAll
<1>5. CASE ServerRelease
  <2>1. /\ spc = "release" /\ spc' = "close" /\ lock = Nobody
        /\ active_client_sock' = NoClient
        /\ UNCHANGED <<audio_buffer_size, client_sock, reads, ppc, backlog, link, written,
                       devQueue>>
    BY <1>5 DEF ServerRelease, ServerGoes, playerVars, clientVars, deviceVars
  <2>2. ppc \notin {"frame", "send"}
    BY <2>1 DEF IInv, ControlInv, LockOwned, Player, Nobody
  <2>3. Daemon!OutputReleases
    BY <2>1, <2>2 DEF Daemon!OutputReleases, Daemon!OutputGoes, Daemon!Nobody, Nobody,
       Daemon!controlVars, Daemon!iacVars, Daemon!sockVars, Daemon!inputVars
  <2> QED
    BY <2>3 DEF Daemon!Output
<1>6. CASE ServerEnable
  <2>1. /\ spc = "enable" /\ spc' = "clear"
        /\ devQueue' = <<>> \/ devQueue' = devQueue
        /\ UNCHANGED <<lock, audio_buffer_size, client_sock, active_client_sock, reads, ppc,
                       backlog, link, written>>
    BY <1>6 DEF ServerEnable, ServerGoes, sharedVars, playerVars, clientVars
  <2>2. CASE devQueue' = devQueue
    BY <2>1, <2>2, PlaybackStutters
  <2>3. CASE devQueue # <<>> /\ devQueue' = <<>>
    <3>1. Len(devQueue) > 0 /\ Len(devQueue') = 0
      BY <2>3 DEF IInv, TypeOK, DeviceOK
    <3>2. Daemon!DeviceDrops
      BY <2>1, <3>1 DEF Daemon!DeviceDrops, Daemon!controlVars, Daemon!iacVars,
         Daemon!sockVars, Daemon!inputVars
    <3> QED
      BY <3>2
  <2> QED
    BY <2>1, <2>2, <2>3
<1>7. CASE ServerAccept
  <2>1. /\ spc = "accept" /\ spc' = "lock"
        /\ UNCHANGED <<link, written, reads, audio_buffer_size, active_client_sock, devQueue,
                       ppc>>
    BY <1>7 DEF ServerAccept, ServerGoes, sharedVars, playerVars, deviceVars
  <2> QED
    BY <1>7, <2>1, AcceptedStays, PlaybackStutters
<1>8. CASE ServerClear
  <2>1. /\ spc = "clear" /\ spc' = "read" /\ audio_buffer_size' = 0
        /\ UNCHANGED <<link, written, reads, active_client_sock, devQueue, ppc, backlog,
                       client_sock>>
    BY <1>8 DEF ServerClear, ServerGoes, playerVars, clientVars, deviceVars
  <2>2. audio_buffer_size = 0
    BY <2>1 DEF IInv, ControlInv, SlotFilled
  <2> QED
    BY <2>1, <2>2, PlaybackStutters
<1>9. CASE ServerSetup \/ ServerCheck \/ ServerAcceptFails \/ ServerClose
  <2>1. /\ {spc, spc'} \subseteq {"start", "check", "accept", "close", "done"}
        /\ UNCHANGED <<link, written, reads, audio_buffer_size, active_client_sock, devQueue,
                       ppc, backlog>>
    BY <1>9 DEF ServerSetup, ServerCheck, ServerAcceptFails, ServerClose, ServerGoes,
       sharedVars, playerVars, clientVars, deviceVars
  <2> QED
    BY <2>1, PlaybackStutters
<1>10. CASE ServerReadEnd \/ ServerReadFails \/ ServerCopy \/ ServerWipe
  <2>1. /\ \/ {spc, spc'} \subseteq {"read", "wipe", "empty"}
           \/ {spc, spc'} \subseteq {"copy", "publish"}
        /\ UNCHANGED <<link, written, reads, audio_buffer_size, active_client_sock, devQueue,
                       ppc, backlog, client_sock>>
    BY <1>10 DEF ServerReadEnd, ServerReadFails, ServerCopy, ServerWipe, ServerGoes,
       sharedVars, playerVars,
       clientVars, deviceVars
  <2> QED
    BY <2>1, PlaybackStutters
<1>11. CASE ServerCrashes
  <2>1. UNCHANGED <<spc, client_sock, link, written, reads, audio_buffer_size,
                    active_client_sock, devQueue, ppc, backlog>>
    BY <1>11 DEF ServerCrashes, sharedVars, serverVars, playerVars, clientVars, deviceVars
  <2> QED
    BY <2>1, PlaybackStutters
<1> QED
  BY <1>1, <1>2, <1>3, <1>4, <1>5, <1>6, <1>7, <1>8, <1>9, <1>10, <1>11 DEF ServerNext

LEMMA PlayerInDaemon ==
  ASSUME IInv, PlayerNext
  PROVE  InDaemon
<1> USE DEF InDaemon
<1>1. CASE PlayerCheckFull
  <2>1. /\ ppc = "check" /\ ppc' = "frame" /\ audio_buffer_size # 0
        /\ UNCHANGED <<audio_buffer_size, spc, client_sock, active_client_sock, reads,
                       backlog, link, written, devQueue>>
    BY <1>1 DEF PlayerCheckFull, PlayerGoes, sharedVars, serverVars, clientVars, deviceVars
  <2>2. Daemon!PlayerTakes
    BY <2>1 DEF Daemon!PlayerTakes, Daemon!Nobody, Nobody, Player, Daemon!controlVars,
       Daemon!iacVars, Daemon!sockVars, Daemon!inputVars
  <2> QED
    BY <2>2 DEF Daemon!Player
<1>2. CASE PlayerSend
  <2>1. /\ ppc = "send" /\ ppc' = "lock" /\ audio_buffer_size' = 0
        /\ Len(devQueue) < FrmNum
        /\ \E frame : devQueue' = Append(devQueue, frame)
        /\ UNCHANGED <<spc, client_sock, active_client_sock, reads, backlog, link, written>>
    BY <1>2 DEF PlayerSend, PlayerGoes, serverVars, clientVars
  <2>2. Len(devQueue') = Len(devQueue) + 1
    BY <2>1 DEF IInv, TypeOK, DeviceOK
  <2>3. Daemon!PlayerSends
    BY <2>1, <2>2 DEF Daemon!PlayerSends, Daemon!Nobody, Nobody, Daemon!controlVars,
       Daemon!iacVars, Daemon!sockVars, Daemon!inputVars
  <2> QED
    BY <2>3 DEF Daemon!Player
<1>3. CASE PlayerSendFails
  <2>1. /\ ppc = "send" /\ ppc' = "disable"
        /\ UNCHANGED <<audio_buffer_size, spc, client_sock, active_client_sock, reads,
                       backlog, link, written, devQueue>>
    BY <1>3 DEF PlayerSendFails, PlayerGoes, serverVars, clientVars, deviceVars
  <2>2. Daemon!PlayerFails
    BY <2>1 DEF Daemon!PlayerFails, Daemon!Nobody, Nobody, Daemon!controlVars,
       Daemon!iacVars, Daemon!sockVars, Daemon!inputVars
  <2> QED
    BY <2>2
<1>4. CASE PlayerDisable
  <2>1. /\ ppc = "disable" /\ ppc' = "init" /\ devQueue' = <<>>
        /\ UNCHANGED <<lock, audio_buffer_size, spc, client_sock, active_client_sock, reads,
                       backlog, link, written>>
    BY <1>4 DEF PlayerDisable, PlayerGoes, sharedVars, serverVars, clientVars
  <2>2. CASE devQueue = <<>>
    BY <2>1, <2>2, PlaybackStutters
  <2>3. CASE devQueue # <<>>
    <3>1. Len(devQueue) > 0 /\ Len(devQueue') = 0
      BY <2>1, <2>3 DEF IInv, TypeOK, DeviceOK
    <3>2. Daemon!DeviceDrops
      BY <2>1, <3>1 DEF Daemon!DeviceDrops, Daemon!controlVars, Daemon!iacVars,
         Daemon!sockVars, Daemon!inputVars
    <3> QED
      BY <3>2
  <2> QED
    BY <2>2, <2>3
<1>5. CASE PlayerEnable \/ PlayerMalloc \/ PlayerInitFails \/ PlayerMallocFails \/ PlayerExits
           \/ PlayerLock \/ PlayerCheckEmpty \/ PlayerWait \/ PlayerFrame \/ SpuriousWakeup
  <2>1. /\ UNCHANGED <<link, written, reads, audio_buffer_size, active_client_sock, devQueue,
                       spc, client_sock, backlog>>
        /\ (ppc' \in {"frame", "send"}) = (ppc \in {"frame", "send"})
    BY <1>5 DEF PlayerEnable, PlayerMalloc, PlayerInitFails, PlayerMallocFails,
       PlayerExits, PlayerLock, PlayerCheckEmpty, PlayerWait, PlayerFrame,
       SpuriousWakeup, PlayerGoes, sharedVars, serverVars,
       playerVars, clientVars, deviceVars
  <2> QED
    BY <2>1, PlaybackStutters
<1> QED
  BY <1>1, <1>2, <1>3, <1>4, <1>5 DEF PlayerNext

LEMMA DeviceInDaemon ==
  ASSUME IInv, DevicePlays
  PROVE  InDaemon
<1>1. /\ devQueue # <<>> /\ devQueue' = Tail(devQueue) /\ devQueue \in Seq(Frames)
      /\ UNCHANGED <<audio_buffer_size, spc, client_sock, active_client_sock, reads, ppc,
                     backlog, link, written>>
  BY DEF DevicePlays, sharedVars, serverVars, playerVars, clientVars, IInv, TypeOK, DeviceOK
<1>2. Len(devQueue) > 0 /\ Len(devQueue') = Len(devQueue) - 1
  BY <1>1
<1>3. Daemon!DevicePlays
  BY <1>1, <1>2 DEF Daemon!DevicePlays, Daemon!controlVars, Daemon!iacVars, Daemon!sockVars,
     Daemon!inputVars
<1> QED
  BY <1>3 DEF InDaemon

\* The server, the player and the device do, at every step, what AudioDaemon lets
\* them do at the grain of the lock, or nothing AudioDaemon sees.
THEOREM PlaybackInDaemon == Spec => PlaybackAsInDaemon
<1>1. Init => ReadAll
  BY DEF Init, ReadAll
<1>2. Spec => []ReadAll
  BY <1>1, IInvHolds, ReadAllStep, PTL DEF Spec
<1>3. IInv /\ ReadAll =>
          (ServerNext \/ PlayerNext \/ DevicePlays =>
               \/ UNCHANGED Daemon!vars
               \/ Daemon!Output \/ Daemon!Player \/ Daemon!PlayerFails
               \/ Daemon!OutputReadFails /\ faults > 0
               \/ Daemon!DevicePlays \/ Daemon!DeviceDrops)
  BY ServerInDaemon, PlayerInDaemon, DeviceInDaemon DEF InDaemon
<1> QED
  BY <1>2, <1>3, IInvHolds, PTL DEF PlaybackAsInDaemon
===============================================================================
