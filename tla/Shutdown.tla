------------------------------- MODULE Shutdown -------------------------------
(***************************************************************************)
(* SIGINT and SIGTERM while iad plays: handle_sigint and perform_cleanup   *)
(* (utils/utils.c), disable_audio_output (audio/output.c) run on the main  *)
(* thread, which otherwise sits in pthread_join, while the threads of      *)
(* AudioOutput keep going until exit() ends the process.                   *)
(*                                                                         *)
(* A handler blocks its own signal only (sa_mask is empty), so the handler *)
(* of the other signal may interrupt it anywhere; the innermost one runs.  *)
(* The build is the Makefile's default, musl, where destroying a mutex or  *)
(* a condition variable does nothing.                                      *)
(*                                                                         *)
(* perform_cleanup also frees the configuration, whose items the other     *)
(* threads fetch under its mutex and use without it (utils/config.c).      *)
(***************************************************************************)
EXTENDS AudioOutput

CONSTANTS
    Signals,    \* the signals that may arrive
    Document    \* config_root once the threads run: "loaded", or "none" (NULL)

ASSUME DocumentAssumption == Document \in {"loaded", "none"}

VARIABLES
    hpc,      \* for each signal, the statement its handler is about to execute
    stack,    \* the handlers entered and not left, innermost first
    freed,    \* audio_buffer points to memory that was freed
    document, \* config_root now; "freed" when it was deleted and is not NULL yet
    stale     \* the threads that use items of a document that was freed

documentVars == <<document, stale>>
handlerVars  == <<hpc, stack, freed, documentVars>>
allVars      == <<vars, handlerVars>>
Main         == "main"

ShutdownInit ==
    /\ Init
    /\ hpc = [s \in Signals |-> "idle"]
    /\ stack = <<>>
    /\ freed = FALSE
    /\ document = Document
    /\ stale = {}

-------------------------------------------------------------------------------
\* The threads that fetch items of the document and then use them: the server
\* in enable_output_channel, the player in initialize_audio_output_device.
Reading ==
    {t \in Threads : \/ t = Server /\ spc = "enable"
                     \/ t = Player /\ ppc \in {"init", "malloc"}}

Moved == {t \in Threads : IF t = Server THEN spc' # spc ELSE ppc' # ppc}

\* A malloc() of the player replaces a dangling pointer, and a thread fetches
\* anew what it uses next; otherwise the threads of AudioOutput do not touch
\* the handler's state.
DaemonStep ==
    /\ ServerNext \/ PlayerNext \/ ClientNext \/ DevicePlays
    /\ freed' = (freed /\ ~PlayerMalloc /\ ~PlayerMallocFails)
    /\ stale' = stale \ Moved
    /\ UNCHANGED <<hpc, stack, document>>

\* What a freed item holds may still be what it was; a thread may as well crash
\* on it.
UseFreed ==
    /\ stale # {}
    /\ proc' = "crashed"
    /\ UNCHANGED <<sharedVars, stopVars, serverVars, playerVars, clientVars,
                   deviceVars, faults, handlerVars>>

\* SendFrame copies from a pointer that was NULL when frm was built.
PlayerSendsNull ==
    /\ ppc = "send"
    /\ device = "on"
    /\ ~allocated
    /\ proc' = "crashed"
    /\ UNCHANGED <<sharedVars, stopVars, serverVars, playerVars, clientVars,
                   deviceVars, faults, handlerVars>>

\* The signal is delivered: the main thread enters its handler.
Deliver(s) ==
    /\ hpc[s] = "idle"
    /\ hpc' = [hpc EXCEPT ![s] = "lock"]
    /\ stack' = <<s>> \o stack
    /\ UNCHANGED <<vars, freed, documentVars>>

HandlerGoes(s, from, to) ==
    /\ stack # <<>>
    /\ Head(stack) = s
    /\ hpc[s] = from
    /\ hpc' = [hpc EXCEPT ![s] = to]
    /\ UNCHANGED stack

\* pthread_mutex_lock(&g_stop_thread_mutex), a mutex that is not recursive.
HandlerLock(s) ==
    /\ stopLock = Nobody
    /\ HandlerGoes(s, "lock", "set")
    /\ stopLock' = Main
    /\ UNCHANGED <<sharedVars, g_stop_thread, serverVars, playerVars,
                   clientVars, deviceVars, procVars, freed, documentVars>>

HandlerSet(s) ==
    /\ HandlerGoes(s, "set", "signal")
    /\ g_stop_thread' = TRUE
    /\ stopLock' = Nobody
    /\ UNCHANGED <<sharedVars, serverVars, playerVars, clientVars, deviceVars,
                   procVars, freed, documentVars>>

\* pthread_cond_signal, without audio_buffer_lock.
HandlerSignal(s) ==
    /\ HandlerGoes(s, "signal", "disable")
    /\ waiting' \in AfterSignal(waiting)
    /\ UNCHANGED <<lock, active_client_sock, allocated, audio_buffer,
                   audio_buffer_size, stopVars, serverVars, playerVars,
                   clientVars, deviceVars, procVars, freed, documentVars>>

\* disable_audio_output: the channel and the device go off, whatever the
\* player is doing with them.
HandlerDisable(s) ==
    /\ device = "on"
    /\ HandlerGoes(s, "disable", "free")
    /\ device' = "off"
    /\ devQueue' = <<>>
    /\ UNCHANGED <<sharedVars, stopVars, serverVars, playerVars, clientVars,
                   enableOK, played, procVars, freed, documentVars>>

\* One of the two calls fails: return -1, which nobody looks at.
HandlerDisableFails(s) ==
    /\ HandlerGoes(s, "disable", "config")
    /\ IF device = "on" THEN Fail ELSE UNCHANGED faults
    /\ UNCHANGED <<sharedVars, stopVars, serverVars, playerVars, clientVars,
                   deviceVars, proc, freed, documentVars>>

\* cleanup_audio_output: if (audio_buffer) free(audio_buffer) ...
HandlerFree(s) ==
    /\ ~(allocated /\ freed)
    /\ HandlerGoes(s, "free", IF allocated THEN "null" ELSE "config")
    /\ freed' = allocated
    /\ audio_buffer' = IF allocated THEN Garbage ELSE audio_buffer
    /\ UNCHANGED <<lock, waiting, active_client_sock, allocated,
                   audio_buffer_size, stopVars, serverVars, playerVars,
                   clientVars, deviceVars, procVars, documentVars>>

\* ... the same buffer a second time, which the allocator traps ...
HandlerDoubleFree(s) ==
    /\ allocated
    /\ freed
    /\ HandlerGoes(s, "free", "null")
    /\ proc' = "crashed"
    /\ UNCHANGED <<sharedVars, stopVars, serverVars, playerVars, clientVars,
                   deviceVars, faults, freed, documentVars>>

\* ... audio_buffer = NULL.
HandlerNull(s) ==
    /\ HandlerGoes(s, "null", "config")
    /\ allocated' = FALSE
    /\ freed' = FALSE
    /\ UNCHANGED <<lock, waiting, active_client_sock, audio_buffer,
                   audio_buffer_size, stopVars, serverVars, playerVars,
                   clientVars, deviceVars, procVars, documentVars>>

\* config_cleanup: if (config_root) cJSON_Delete(config_root) ... whoever has
\* fetched items of it by then goes on using them.
HandlerDelete(s) ==
    /\ document # "freed"
    /\ HandlerGoes(s, "config", IF document = "loaded" THEN "root" ELSE "exit")
    /\ IF document = "loaded"
         THEN document' = "freed" /\ stale' \in SUBSET Reading
         ELSE UNCHANGED documentVars
    /\ UNCHANGED <<sharedVars, stopVars, serverVars, playerVars, clientVars,
                   deviceVars, procVars, freed>>

\* ... the same document a second time ...
HandlerDoubleDelete(s) ==
    /\ document = "freed"
    /\ HandlerGoes(s, "config", "root")
    /\ proc' = "crashed"
    /\ UNCHANGED <<sharedVars, stopVars, serverVars, playerVars, clientVars,
                   deviceVars, faults, freed, documentVars>>

\* ... config_root = NULL.
HandlerRoot(s) ==
    /\ HandlerGoes(s, "root", "exit")
    /\ document' = "none"
    /\ UNCHANGED <<sharedVars, stopVars, serverVars, playerVars, clientVars,
                   deviceVars, procVars, freed, stale>>

\* remove_pid_file, raise (pending: the handler blocks its own signal), exit(0).
HandlerExit(s) ==
    /\ HandlerGoes(s, "exit", "done")
    /\ proc' = "exited"
    /\ UNCHANGED <<sharedVars, stopVars, serverVars, playerVars, clientVars,
                   deviceVars, faults, freed, documentVars>>

HandlerStep(s) ==
    \/ HandlerLock(s) \/ HandlerSet(s) \/ HandlerSignal(s)
    \/ HandlerDisable(s) \/ HandlerDisableFails(s)
    \/ HandlerFree(s) \/ HandlerDoubleFree(s) \/ HandlerNull(s)
    \/ HandlerDelete(s) \/ HandlerDoubleDelete(s) \/ HandlerRoot(s)
    \/ HandlerExit(s)

ShutdownNext ==
    /\ proc = "running"
    /\ \/ DaemonStep
       \/ PlayerSendsNull
       \/ UseFreed
       \/ \E s \in Signals : Deliver(s) \/ HandlerStep(s)

\* The handler runs whenever it can, like any thread; the daemon's threads are
\* owed nothing here.
ShutdownSpec ==
    /\ ShutdownInit
    /\ [][ShutdownNext]_allVars
    /\ SF_allVars(\E s \in Signals : Running(HandlerStep(s)))

-------------------------------------------------------------------------------
HandlerPCs == {"idle", "lock", "set", "signal", "disable", "free", "null",
               "config", "root", "exit", "done"}

\* The handler's variables, and the stop flag, which only it sets.
ShutdownTypeOK ==
    /\ TypeOK
    /\ hpc \in [Signals -> HandlerPCs]
    /\ stack \in Seq(Signals)
    /\ freed \in BOOLEAN
    /\ document \in {"loaded", "freed", "none"}
    /\ stale \in SUBSET Threads

Signalled == \E s \in Signals : hpc[s] # "idle"

\* utils.c:124, "It ensures that the daemon exits gracefully": once a signal
\* has been delivered the process comes to an end.
SignalEndsProcess == Signalled ~> proc # "running"

\* Stopping an idle daemon is safe but for one place: a crash needs a client
\* that holds the output, whose server or player step meets the buffer or the
\* document the handler freed, or a player that is initializing the device
\* (output.c:47 to 97) when its document is freed (utils.c:108).
IdleShutdownIsClean ==
    proc = "crashed" =>
        \/ active_client_sock # NoClient
        \/ ppc \in {"init", "malloc"} /\ document # "loaded"

\* utils.c:93, perform_cleanup "restores the system to its initial state": the
\* device that its disable_audio_output has turned off is not turned on again
\* by the daemon's own player before the process ends.
DeviceStaysOff ==
    [][ (\E s \in Signals : hpc[s] \in {"free", "null"}) /\ device = "off"
            => device' = "off" ]_allVars
===============================================================================
