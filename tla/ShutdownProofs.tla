---------------------------- MODULE ShutdownProofs ----------------------------
(***************************************************************************)
(* Proofs about Shutdown, for any connections, bounds and signals: until   *)
(* the process ends the handlers leave the playback half its invariant,    *)
(* which is IInv of AudioOutput without StartInv, since the handler does   *)
(* free the buffer; hence its promise holds up to the end.                 *)
(***************************************************************************)
EXTENDS Shutdown, AudioOutputProofs

HandlersOK ==
    /\ hpc \in [Signals -> HandlerPCs]
    /\ stack \in Seq(Signals)
    /\ freed \in BOOLEAN
    /\ document \in {"loaded", "freed", "none"}
    /\ stale \in SUBSET Threads

ShutdownInv == IInv /\ HandlersOK

\* What a handler may do to the playback half.
HandlerFrame ==
    /\ UNCHANGED <<lock, active_client_sock, audio_buffer_size, serverVars,
                   playerVars, clientVars, enableOK, played>>
    /\ waiting' \in SUBSET waiting
    /\ allocated' \in {allocated, FALSE}
    /\ audio_buffer' \in {audio_buffer, Garbage}
    /\ g_stop_thread' \in {g_stop_thread, TRUE}
    /\ stopLock' \in {stopLock, Nobody, Main}
    /\ device' \in {device, "off"}
    /\ devQueue' \in {devQueue, <<>>}
    /\ proc' \in {proc, "crashed", "exited"}
    /\ faults' \in {faults, faults + 1}

\* Every step of a handler is of that kind, and types its own variables.
LEMMA HandlerFrames ==
    ASSUME ShutdownInv, NEW s \in Signals, Deliver(s) \/ HandlerStep(s)
    PROVE  HandlerFrame /\ HandlersOK'
<1> USE DEF ShutdownInv, HandlersOK, HandlerPCs, HandlerGoes, HandlerFrame,
         sharedVars, stopVars, deviceVars, procVars, documentVars
<1>1. CASE Deliver(s)
  <2>1. stack' \in Seq(Signals)
    BY <1>1 DEF Deliver
  <2> QED
    BY <1>1, <2>1 DEF Deliver, vars
<1>2. CASE HandlerLock(s)
  BY <1>2 DEF HandlerLock
<1>3. CASE HandlerSet(s)
  BY <1>3 DEF HandlerSet
<1>4. CASE HandlerSignal(s)
  BY <1>4, AfterSignalSubset DEF HandlerSignal
<1>5. CASE HandlerDisable(s)
  BY <1>5 DEF HandlerDisable
<1>6. CASE HandlerDisableFails(s)
  BY <1>6 DEF HandlerDisableFails, Fail
<1>7. CASE HandlerFree(s)
  BY <1>7 DEF HandlerFree, IInv, TypeOK, SharedOK
<1>8. CASE HandlerDoubleFree(s)
  BY <1>8 DEF HandlerDoubleFree
<1>9. CASE HandlerNull(s)
  BY <1>9 DEF HandlerNull
<1>10. CASE HandlerExit(s)
  BY <1>10 DEF HandlerExit
<1>11. CASE HandlerDelete(s)
  BY <1>11 DEF HandlerDelete, Reading
<1>12. CASE HandlerDoubleDelete(s)
  BY <1>12 DEF HandlerDoubleDelete
<1>13. CASE HandlerRoot(s)
  BY <1>13 DEF HandlerRoot
<1> QED
  BY <1>1, <1>2, <1>3, <1>4, <1>5, <1>6, <1>7, <1>8, <1>9, <1>10, <1>11,
     <1>12, <1>13
     DEF HandlerStep

\* Such a step keeps the invariant: it takes no lock, publishes nothing, and
\* what it puts into the buffer is filler.
LEMMA FrameKeeps ==
    ASSUME IInv, HandlerFrame
    PROVE  IInv'
<1> USE DEF IInv, HandlerFrame, serverVars, playerVars, clientVars
<1>1. TypeOK'
  <2>1. SharedOK'
    BY FramesMade DEF TypeOK, SharedOK
  <2>2. StopOK' /\ ServerOK' /\ PlayerOK' /\ ClientOK'
    BY DEF TypeOK, StopOK, ServerOK, PlayerOK, ClientOK, Main
  <2>3. DeviceOK'
    <3>1. devQueue \in Seq(Frames) /\ <<>> \in Seq(Frames)
      BY DEF TypeOK, DeviceOK
    <3>2. devQueue' \in Seq(Frames)
      BY <3>1
    <3> QED
      BY <3>2 DEF TypeOK, DeviceOK
  <2>4. ProcOK'
    BY DEF TypeOK, ProcOK
  <2> QED
    BY <2>1, <2>2, <2>3, <2>4 DEF TypeOK
<1>2. ControlInv'
  BY DEF ControlInv, LockOwned, OutputOwned, Sleepers, ServerNeverWaits,
     NoLostWakeup, SlotFilled, Holding
<1>3. DataInv'
  <2>1. \/ audio_buffer' = audio_buffer
        \/ audio_buffer' = Garbage /\ Garbage.src = NoClient
    BY DEF Garbage, Chunk
  <2>2. ReadsBounded' /\ PlayedWasRead'
    BY DEF DataInv, ReadsBounded, PlayedWasRead
  <2>3. BufferHolds'
    BY <2>1 DEF DataInv, BufferHolds
  <2>4. SlotFresh'
    BY <2>1 DEF DataInv, SlotFresh, ToSend
  <2> QED
    BY <2>2, <2>3, <2>4 DEF DataInv
<1> QED
  BY <1>1, <1>2, <1>3

\* So is the crash of a thread, which leaves the handlers alone.
LEMMA CrashFrame ==
    ASSUME PlayerSendsNull \/ UseFreed
    PROVE  HandlerFrame /\ UNCHANGED handlerVars
BY DEF PlayerSendsNull, UseFreed, HandlerFrame, sharedVars, stopVars, deviceVars

\* What the daemon's threads do is what AudioOutput says.
LEMMA DaemonNext ==
    ASSUME proc = "running", DaemonStep
    PROVE  Next
BY DEF DaemonStep, Next

LEMMA ShutdownInvInit == ShutdownInit => ShutdownInv
<1>1. ShutdownInit => IInv
  BY IInvInit DEF ShutdownInit
<1>2. ShutdownInit => HandlersOK
  <2>1. <<>> \in Seq(Signals) /\ "idle" \in HandlerPCs
    BY DEF HandlerPCs
  <2> QED
    BY <2>1, DocumentAssumption DEF ShutdownInit, HandlersOK
<1> QED
  BY <1>1, <1>2 DEF ShutdownInv

LEMMA ShutdownInvStep ==
    ShutdownInv /\ [ShutdownNext]_allVars => ShutdownInv'
<1> SUFFICES ASSUME ShutdownInv, [ShutdownNext]_allVars PROVE ShutdownInv'
  OBVIOUS
<1>1. ASSUME proc = "running", DaemonStep PROVE ShutdownInv'
  <2>1. IInv'
    BY <1>1, DaemonNext, IInvStep DEF ShutdownInv
  <2>2. HandlersOK'
    BY <1>1 DEF DaemonStep, ShutdownInv, HandlersOK
  <2> QED
    BY <2>1, <2>2 DEF ShutdownInv
<1>2. CASE PlayerSendsNull \/ UseFreed
  BY <1>2, CrashFrame, FrameKeeps
     DEF ShutdownInv, HandlersOK, handlerVars, documentVars
<1>3. ASSUME NEW s \in Signals, Deliver(s) \/ HandlerStep(s)
      PROVE  ShutdownInv'
  BY <1>3, HandlerFrames, FrameKeeps DEF ShutdownInv
<1>4. CASE UNCHANGED allVars
  BY <1>4, IInvStep
     DEF ShutdownInv, HandlersOK, allVars, handlerVars, documentVars
<1> QED
  BY <1>1, <1>2, <1>3, <1>4 DEF ShutdownNext

LEMMA ShutdownInvHolds == ShutdownSpec => []ShutdownInv
BY ShutdownInvInit, ShutdownInvStep, PTL DEF ShutdownSpec

-------------------------------------------------------------------------------
(* Theorems. *)

\* The handlers keep their own variables and those of the playback half in
\* their types, whichever signals nest and wherever they interrupt.
THEOREM ShutdownTypeCorrect == ShutdownSpec => []ShutdownTypeOK
<1>1. ShutdownInv => ShutdownTypeOK
  BY DEF ShutdownInv, IInv, HandlersOK, ShutdownTypeOK
<1> QED
  BY <1>1, ShutdownInvHolds, PTL

\* Up to the end of the process one source at a time reaches the device, in
\* order, although handlers disable the device and free the buffer under the
\* threads that use them.
THEOREM ShutdownRefinement == ShutdownSpec => OneSourceAtATime
<1>1. ShutdownInit => Promise!Init
  BY DEF ShutdownInit, Init, Promise!Init
<1>2. ShutdownInv /\ [ShutdownNext]_allVars
          => [Promise!Next]_(Promise!vars)
  <2> SUFFICES ASSUME ShutdownInv, [ShutdownNext]_allVars
               PROVE  [Promise!Next]_(Promise!vars)
    OBVIOUS
  <2>1. ASSUME proc = "running", DaemonStep
        PROVE  [Promise!Next]_(Promise!vars)
    BY <2>1, DaemonNext, StepRefines DEF ShutdownInv
  <2>2. ASSUME HandlerFrame PROVE [Promise!Next]_(Promise!vars)
    BY <2>2 DEF HandlerFrame, Promise!vars
  <2>3. CASE UNCHANGED allVars
    BY <2>3 DEF allVars, vars, sharedVars, deviceVars, Promise!vars
  <2> QED
    BY <2>1, <2>2, <2>3, CrashFrame, HandlerFrames DEF ShutdownNext
<1> QED
  BY <1>1, <1>2, ShutdownInvHolds, PTL
     DEF ShutdownSpec, OneSourceAtATime, Promise!Spec

-------------------------------------------------------------------------------
(* One signal. *)

\* A dangling pointer is the handler's, which is about to reset it: with one
\* signal no second handler can find it.
Dangling ==
    /\ freed => \E s \in Signals : hpc[s] = "null"
    /\ document = "freed" => \E s \in Signals : hpc[s] = "root"

\* Who uses items of a freed document fetched them before, where it still is.
StaleReaders == stale \subseteq Reading /\ (stale # {} => document # "loaded")

\* A server that reads the document does so for a client.
LEMMA ServerHolds ==
    ASSUME IInv, spc \in {"enable", "clear", "copy", "wipe"}
    PROVE  active_client_sock # NoClient
BY NoClientAssumption DEF IInv, ControlInv, OutputOwned, Holding, TypeOK, ServerOK,
   Serving, ServerPCs

LEMMA StaleStep ==
    ASSUME ShutdownInv, StaleReaders, [ShutdownNext]_allVars
    PROVE  StaleReaders'
<1> USE DEF StaleReaders
<1>1. CASE DaemonStep
  BY <1>1 DEF DaemonStep, Reading, Moved, ShutdownInv, HandlersOK, Threads,
     Server, Player
<1>2. CASE PlayerSendsNull \/ UseFreed
  BY <1>2 DEF PlayerSendsNull, UseFreed, Reading, handlerVars, documentVars,
     serverVars, playerVars
<1>3. ASSUME NEW s \in Signals, HandlerDelete(s) PROVE StaleReaders'
  BY <1>3 DEF HandlerDelete, Reading, documentVars, serverVars, playerVars
<1>4. ASSUME NEW s \in Signals, HandlerRoot(s) PROVE StaleReaders'
  BY <1>4 DEF HandlerRoot, Reading, serverVars, playerVars
<1>5. CASE UNCHANGED <<stale, document, spc, ppc>>
  BY <1>5 DEF Reading
<1>6. ASSUME NEW s \in Signals, ~HandlerDelete(s), ~HandlerRoot(s),
             Deliver(s) \/ HandlerStep(s)
      PROVE  UNCHANGED <<stale, document, spc, ppc>>
  BY <1>6 DEF Deliver, HandlerStep, HandlerLock, HandlerSet, HandlerSignal,
     HandlerDisable, HandlerDisableFails, HandlerFree, HandlerDoubleFree,
     HandlerNull, HandlerDoubleDelete, HandlerExit, documentVars, vars,
     serverVars, playerVars
<1>7. CASE UNCHANGED allVars
  BY <1>5, <1>7 DEF allVars, vars, handlerVars, documentVars, serverVars, playerVars
<1> QED
  BY <1>1, <1>2, <1>3, <1>4, <1>5, <1>6, <1>7 DEF ShutdownNext

LEMMA CleanStep ==
    ASSUME \A s, t \in Signals : s = t,
           ShutdownInv, StaleReaders, Dangling, IdleShutdownIsClean,
           [ShutdownNext]_allVars
    PROVE  Dangling' /\ IdleShutdownIsClean'
<1> USE DEF ShutdownInv, HandlersOK, Dangling, IdleShutdownIsClean
<1>1. ASSUME proc = "running", DaemonStep
      PROVE  Dangling' /\ IdleShutdownIsClean'
  <2>1. Dangling'
    BY <1>1 DEF DaemonStep
  <2>2. CASE ServerCrashes
    <3>1. active_client_sock # NoClient /\ UNCHANGED active_client_sock
      BY <2>2, ServerHolds DEF ServerCrashes, sharedVars
    <3> QED
      BY <2>1, <3>1
  <2>3. CASE ~ServerCrashes
    <3>1. proc' # "crashed"
      BY <1>1, <2>3 DEF DaemonStep, ServerNext, PlayerNext, ClientNext,
         ServerSetup, ServerCheck, ServerAccept, ServerAcceptFails,
         ServerLock, ServerEnable, ServerClear, ServerRead, ServerReadEnd,
         ServerReadFails, ServerCopy, ServerPublish, ServerWipe, ServerEmpty,
         ServerRelease, ServerClose, PlayerEnable, PlayerMalloc,
         PlayerInitFails, PlayerMallocFails, PlayerExits,
         PlayerLock, PlayerCheckEmpty, PlayerCheckFull, PlayerWait,
         PlayerFrame, PlayerSend, PlayerSendFails, PlayerDisable,
         SpuriousWakeup, Connect, Write, Finish, DevicePlays, procVars
    <3> QED
      BY <2>1, <3>1
  <2> QED
    BY <2>2, <2>3
<1>2. CASE PlayerSendsNull
  <2>1. active_client_sock \in Clients
    BY <1>2 DEF PlayerSendsNull, IInv, ControlInv, SlotFilled, OutputOwned,
       Holding, TypeOK, ServerOK, Serving, ServerPCs
  <2> QED
    BY <1>2, <2>1, NoClientAssumption DEF PlayerSendsNull, sharedVars,
       handlerVars, documentVars
<1>3. CASE UseFreed
  <2>1. Player \in stale \/ Server \in stale
    BY <1>3 DEF UseFreed, Threads
  <2>2. CASE Player \in stale
    <3>1. ppc \in {"init", "malloc"} /\ document # "loaded"
      BY <2>2 DEF StaleReaders, Reading, Player, Server
    <3> QED
      BY <1>3, <3>1 DEF UseFreed, playerVars, handlerVars, documentVars
  <2>3. CASE Server \in stale
    <3>1. active_client_sock # NoClient
      BY <2>3, ServerHolds DEF StaleReaders, Reading, Player, Server
    <3> QED
      BY <1>3, <3>1 DEF UseFreed, sharedVars, handlerVars, documentVars
  <2> QED
    BY <2>1, <2>2, <2>3
<1>4. ASSUME proc = "running", NEW s \in Signals, Deliver(s) \/ HandlerStep(s)
      PROVE  Dangling' /\ IdleShutdownIsClean'
  <2>1. (freed => hpc[s] = "null") /\ (document = "freed" => hpc[s] = "root")
    OBVIOUS
  <2>2. CASE HandlerFree(s)
    BY <1>4, <2>1, <2>2 DEF HandlerFree, HandlerGoes, IInv, TypeOK, SharedOK,
       procVars, documentVars
  <2>3. CASE HandlerDelete(s)
    BY <1>4, <2>1, <2>3 DEF HandlerDelete, HandlerGoes, procVars, documentVars
  <2>4. CASE ~HandlerFree(s) /\ ~HandlerDelete(s)
    BY <1>4, <2>1, <2>4 DEF HandlerStep, Deliver, HandlerGoes, HandlerLock,
       HandlerSet, HandlerSignal, HandlerDisable, HandlerDisableFails,
       HandlerDoubleFree, HandlerNull, HandlerDoubleDelete, HandlerRoot,
       HandlerExit, vars, procVars, documentVars
  <2> QED
    BY <2>2, <2>3, <2>4
<1>5. CASE UNCHANGED allVars
  BY <1>5 DEF allVars, vars, sharedVars, playerVars, procVars, handlerVars,
     documentVars
<1> QED
  BY <1>1, <1>2, <1>3, <1>4, <1>5 DEF ShutdownNext

\* With one signal an idle daemon stops without a crash, unless its player is
\* initializing the device from the document that is freed: whatever else
\* touches what the handler has freed does so for a client that holds the output.
THEOREM IdleShutdownIsCleanThm ==
    ASSUME \A s, t \in Signals : s = t
    PROVE  ShutdownSpec => []IdleShutdownIsClean
<1>1. ShutdownInit => StaleReaders /\ Dangling /\ IdleShutdownIsClean
  BY DocumentAssumption
     DEF ShutdownInit, Init, StaleReaders, Dangling, IdleShutdownIsClean
<1>2. ShutdownInv /\ StaleReaders /\ Dangling /\ IdleShutdownIsClean
        /\ [ShutdownNext]_allVars
          => StaleReaders' /\ Dangling' /\ IdleShutdownIsClean'
  BY StaleStep, CleanStep
<1> QED
  BY <1>1, <1>2, ShutdownInvHolds, PTL DEF ShutdownSpec
===============================================================================
