------------------------------ MODULE AudioOutput ------------------------------
(***************************************************************************)
(* The playback half of iad: the output server thread                      *)
(* (network/output_server.c), the play thread (audio/output.c), the        *)
(* one-slot buffer between them, the mutex and the condition variable that *)
(* guard it (utils/utils.c), the connections that feed the server, and the *)
(* AO device as those threads use it.                                      *)
(*                                                                         *)
(* One action per stretch of code that no other thread can observe in the  *)
(* middle: a critical section whose memory no unlocked access touches is   *)
(* one step, the unlocked writes of lines 101 and 102 of output_server.c   *)
(* are steps of their own, and so is every blocking call.                  *)
(***************************************************************************)
EXTENDS Naturals, Sequences, FiniteSets

CONSTANTS
    Clients,        \* connections to the output socket
    NoClient,       \* active_client_sock == -1, client_sock before accept
    MaxWrites,      \* bound: frame-sized writes of one connection
    ListenBacklog,  \* listen(sockfd, 5)
    FrmNum,         \* frames the device queues before SendFrame blocks
    MaxFaults       \* bound: failures of system and device calls

ASSUME NoClientAssumption == NoClient \notin Clients
ASSUME BoundsAssumption ==
    /\ MaxWrites \in Nat
    /\ ListenBacklog \in Nat
    /\ FrmNum \in Nat \ {0}
    /\ MaxFaults \in Nat

Server  == "server"      \* audio_output_server_thread
Player  == "player"      \* ao_play_thread
Threads == {Server, Player}
Nobody  == "nobody"      \* a mutex that is free

VARIABLES
    \* utils.c: the globals both threads share
    lock,               \* owner of audio_buffer_lock
    waiting,            \* threads blocked in pthread_cond_wait(audio_data_cond)
    active_client_sock,
    allocated,          \* audio_buffer != NULL
    audio_buffer,       \* what the buffer audio_buffer points to holds
    audio_buffer_size,  \* 0, or 1 for any positive size
    g_stop_thread,
    stopLock,           \* owner of g_stop_thread_mutex
    \* audio_output_server_thread
    spc,                \* the statement the server is about to execute
    client_sock,
    reads,              \* successful reads from each connection so far
    \* ao_play_thread
    ppc,                \* the statement the player is about to execute
    frmLen,             \* frm.len
    \* the kernel's side of the output socket
    backlog,            \* connections not accepted yet
    link,               \* each client: "away", "connected" or "finished"
    written,            \* frames each client has written
    \* the AO device
    device,             \* "off", or "on" with its channel enabled
    devQueue,           \* frames accepted and not played yet
    enableOK,           \* the last enable_output_channel() succeeded
    played,             \* history: every frame SendFrame accepted
    \* the process
    proc,               \* "running", "crashed" (SIGSEGV) or "exited"
    faults              \* failures injected so far

sharedVars == <<lock, waiting, active_client_sock, allocated, audio_buffer,
                audio_buffer_size>>
stopVars   == <<g_stop_thread, stopLock>>
serverVars == <<spc, client_sock, reads>>
playerVars == <<ppc, frmLen>>
clientVars == <<backlog, link, written>>
deviceVars == <<device, devQueue, enableOK, played>>
procVars   == <<proc, faults>>
vars == <<sharedVars, stopVars, serverVars, playerVars, clientVars, deviceVars,
          procVars>>

-------------------------------------------------------------------------------
(***************************************************************************)
(* Data.  The n-th successful read from connection c yields chunk n of c;  *)
(* its bytes are never told apart.  Filler carries nobody's audio.         *)
(***************************************************************************)
Chunk(c, n) == [src |-> c, n |-> n]
Silence == Chunk(NoClient, 0)      \* after memset(audio_buffer, 0, ...)
Garbage == Chunk(NoClient, 1)      \* the content of a fresh malloc()
Frames  == [src : Clients \cup {NoClient}, n : Nat]

\* Mutant: the signal of line 96 is forgotten.
NoSignal(w) == {w}

\* pthread_cond_signal wakes one waiter if there is one.
AfterSignal(w) == IF w = {} THEN {{}} ELSE {w \ {t} : t \in w}

CanFail == faults < MaxFaults
Fail    == CanFail /\ faults' = faults + 1

Init ==
    /\ lock = Nobody
    /\ waiting = {}
    /\ active_client_sock = NoClient
    /\ allocated = FALSE
    /\ audio_buffer = Garbage
    /\ audio_buffer_size = 0
    /\ g_stop_thread = FALSE
    /\ stopLock = Nobody
    /\ spc = "start"
    /\ client_sock = NoClient
    /\ reads = [c \in Clients |-> 0]
    /\ ppc = "init"
    /\ frmLen = 0
    /\ backlog = <<>>
    /\ link = [c \in Clients |-> "away"]
    /\ written = [c \in Clients |-> 0]
    /\ device = "off"
    /\ devQueue = <<>>
    /\ enableOK = TRUE
    /\ played = <<>>
    /\ proc = "running"
    /\ faults = 0

-------------------------------------------------------------------------------
(***************************************************************************)
(* The output server.                                                      *)
(***************************************************************************)
ServerGoes(from, to) == spc = from /\ spc' = to

\* socket, bind and listen; the thread returns when one of them fails.
ServerSetup ==
    /\ \/ ServerGoes("start", "check") /\ UNCHANGED faults
       \/ ServerGoes("start", "done") /\ Fail
    /\ UNCHANGED <<sharedVars, stopVars, client_sock, reads, playerVars,
                   clientVars, deviceVars, proc>>

\* The head of the accept loop: leave it, closing the socket, once asked to.
ServerCheck ==
    /\ stopLock = Nobody
    /\ ServerGoes("check", IF g_stop_thread THEN "done" ELSE "accept")
    /\ UNCHANGED <<sharedVars, stopVars, client_sock, reads, playerVars,
                   clientVars, deviceVars, procVars>>

ServerAccept ==
    /\ backlog # <<>>
    /\ ServerGoes("accept", "lock")
    /\ client_sock' = Head(backlog)
    /\ backlog' = Tail(backlog)
    /\ UNCHANGED <<sharedVars, stopVars, reads, playerVars, link, written,
                   deviceVars, procVars>>

ServerAcceptFails ==
    /\ ServerGoes("accept", "check")
    /\ Fail
    /\ UNCHANGED <<sharedVars, stopVars, client_sock, reads, playerVars,
                   clientVars, deviceVars, proc>>

\* Take the lock; claim the output, or wait while another client holds it.
ServerLock ==
    /\ spc = "lock"
    /\ Server \notin waiting
    /\ lock = Nobody
    /\ IF active_client_sock # NoClient
         THEN /\ waiting' = waiting \cup {Server}
              /\ UNCHANGED <<lock, active_client_sock, spc>>
         ELSE /\ lock' = Server
              /\ active_client_sock' = client_sock
              /\ spc' = "enable"
              /\ UNCHANGED waiting
    /\ UNCHANGED <<allocated, audio_buffer, audio_buffer_size, stopVars,
                   client_sock, reads, playerVars, clientVars, deviceVars,
                   procVars>>

\* Mutant: the channel is not enabled again for the new client.
ServerSkipsEnable ==
    /\ ServerGoes("enable", "clear")
    /\ UNCHANGED <<sharedVars, stopVars, client_sock, reads, playerVars,
                   clientVars, deviceVars, procVars>>

\* enable_output_channel(): enabling an enabled channel drops its queue.  It
\* fails on a device that is off; a failure is only logged.
ServerEnable ==
    /\ ServerGoes("enable", "clear")
    /\ \/ /\ device = "on"
          /\ devQueue' = <<>>
          /\ enableOK' = TRUE
          /\ UNCHANGED faults
       \/ /\ IF device = "on" THEN Fail ELSE UNCHANGED faults
          /\ enableOK' = FALSE
          /\ UNCHANGED devQueue
    /\ UNCHANGED <<sharedVars, stopVars, client_sock, reads, playerVars,
                   clientVars, device, played, proc>>

\* memset(audio_buffer, ...), audio_buffer_size = 0, unlock.
ServerClear ==
    /\ allocated
    /\ ServerGoes("clear", "read")
    /\ audio_buffer' = Silence
    /\ audio_buffer_size' = 0
    /\ lock' = Nobody
    /\ UNCHANGED <<waiting, active_client_sock, allocated, stopVars,
                   client_sock, reads, playerVars, clientVars, deviceVars,
                   procVars>>

\* read() returns what the connection has next ...
ServerRead ==
    /\ spc = "read"
    /\ reads[client_sock] < written[client_sock]
    /\ ServerGoes("read", "copy")
    /\ reads' = [reads EXCEPT ![client_sock] = @ + 1]
    /\ UNCHANGED <<sharedVars, stopVars, client_sock, playerVars, clientVars,
                   deviceVars, procVars>>

\* ... or 0 once its peer has closed it and everything has been read.
ServerReadEnd ==
    /\ spc = "read"
    /\ reads[client_sock] = written[client_sock]
    /\ link[client_sock] = "finished"
    /\ ServerGoes("read", "wipe")
    /\ UNCHANGED <<sharedVars, stopVars, client_sock, reads, playerVars,
                   clientVars, deviceVars, procVars>>

\* ... or -1, which ends the loop as well, whatever is left to read.
ServerReadFails ==
    /\ ServerGoes("read", "wipe")
    /\ Fail
    /\ UNCHANGED <<sharedVars, stopVars, client_sock, reads, playerVars,
                   clientVars, deviceVars, proc>>

\* Mutant: the chunk is copied, and published, without the lock.
ServerCopyAnyway ==
    /\ allocated
    /\ ServerGoes("copy", "publish")
    /\ audio_buffer' = Chunk(client_sock, reads[client_sock])
    /\ UNCHANGED <<lock, waiting, active_client_sock, allocated,
                   audio_buffer_size, stopVars, client_sock, reads,
                   playerVars, clientVars, deviceVars, procVars>>

\* lock, memcpy: whatever the buffer held is overwritten.
ServerCopy ==
    /\ lock = Nobody
    /\ allocated
    /\ ServerGoes("copy", "publish")
    /\ lock' = Server
    /\ audio_buffer' = Chunk(client_sock, reads[client_sock])
    /\ UNCHANGED <<waiting, active_client_sock, allocated, audio_buffer_size,
                   stopVars, client_sock, reads, playerVars, clientVars,
                   deviceVars, procVars>>

\* audio_buffer_size = read_size, signal, unlock.
ServerPublish ==
    /\ ServerGoes("publish", "read")
    /\ audio_buffer_size' = 1
    /\ waiting' \in AfterSignal(waiting)
    /\ lock' = Nobody
    /\ UNCHANGED <<active_client_sock, allocated, audio_buffer, stopVars,
                   client_sock, reads, playerVars, clientVars, deviceVars,
                   procVars>>

\* The memset of line 101, which does not take the lock.
ServerWipe ==
    /\ allocated
    /\ ServerGoes("wipe", "empty")
    /\ audio_buffer' = Silence
    /\ UNCHANGED <<lock, waiting, active_client_sock, allocated,
                   audio_buffer_size, stopVars, client_sock, reads,
                   playerVars, clientVars, deviceVars, procVars>>

\* Mutant: line 102 is missing.
ServerKeepsSize ==
    /\ ServerGoes("empty", "release")
    /\ UNCHANGED <<sharedVars, stopVars, client_sock, reads, playerVars,
                   clientVars, deviceVars, procVars>>

\* The assignment of line 102, which does not either.
ServerEmpty ==
    /\ ServerGoes("empty", "release")
    /\ audio_buffer_size' = 0
    /\ UNCHANGED <<lock, waiting, active_client_sock, allocated, audio_buffer,
                   stopVars, client_sock, reads, playerVars, clientVars,
                   deviceVars, procVars>>

\* Mutant: active_client_sock is not reset.
ServerKeepsActive ==
    /\ lock = Nobody
    /\ ServerGoes("release", "close")
    /\ waiting' = {}
    /\ UNCHANGED <<lock, active_client_sock, allocated, audio_buffer,
                   audio_buffer_size, stopVars, client_sock, reads,
                   playerVars, clientVars, deviceVars, procVars>>

\* lock, active_client_sock = -1, broadcast, unlock.
ServerRelease ==
    /\ lock = Nobody
    /\ ServerGoes("release", "close")
    /\ active_client_sock' = NoClient
    /\ waiting' = {}
    /\ UNCHANGED <<lock, allocated, audio_buffer, audio_buffer_size, stopVars,
                   client_sock, reads, playerVars, clientVars, deviceVars,
                   procVars>>

ServerClose ==
    /\ ServerGoes("close", "check")
    /\ client_sock' = NoClient
    /\ UNCHANGED <<sharedVars, stopVars, reads, playerVars, clientVars,
                   deviceVars, procVars>>

\* memset or memcpy through a NULL audio_buffer.
ServerCrashes ==
    /\ ~allocated
    /\ \/ spc \in {"clear", "wipe"}
       \/ spc = "copy" /\ lock = Nobody
    /\ proc' = "crashed"
    /\ UNCHANGED <<sharedVars, stopVars, serverVars, playerVars, clientVars,
                   deviceVars, faults>>

ServerNext ==
    \/ ServerSetup \/ ServerCheck \/ ServerAccept \/ ServerAcceptFails
    \/ ServerLock \/ ServerEnable \/ ServerClear
    \/ ServerRead \/ ServerReadEnd \/ ServerReadFails
    \/ ServerCopy \/ ServerPublish
    \/ ServerWipe \/ ServerEmpty \/ ServerRelease \/ ServerClose
    \/ ServerCrashes

-------------------------------------------------------------------------------
(***************************************************************************)
(* The player.                                                             *)
(***************************************************************************)
PlayerGoes(from, to) == ppc = from /\ ppc' = to

\* initialize_audio_output_device, first part: the IMP calls.
PlayerEnable ==
    /\ PlayerGoes("init", "malloc")
    /\ device' = "on"
    /\ UNCHANGED <<sharedVars, stopVars, serverVars, frmLen, clientVars,
                   devQueue, enableOK, played, procVars>>

\* Second part: audio_buffer = malloc(...), without the lock.  A buffer that
\* was allocated before is abandoned with whatever it held.
PlayerMalloc ==
    /\ PlayerGoes("malloc", "lock")
    /\ allocated' = TRUE
    /\ audio_buffer' = Garbage
    /\ UNCHANGED <<lock, waiting, active_client_sock, audio_buffer_size,
                   stopVars, serverVars, frmLen, clientVars, deviceVars,
                   procVars>>

\* The IMP calls fail ...
PlayerInitFails ==
    /\ PlayerGoes("init", "exit")
    /\ Fail
    /\ UNCHANGED <<sharedVars, stopVars, serverVars, frmLen, clientVars,
                   deviceVars, proc>>

\* ... or malloc does, and its NULL replaces whatever audio_buffer was.
PlayerMallocFails ==
    /\ PlayerGoes("malloc", "exit")
    /\ Fail
    /\ allocated' = FALSE
    /\ UNCHANGED <<lock, waiting, active_client_sock, audio_buffer,
                   audio_buffer_size, stopVars, serverVars, frmLen,
                   clientVars, deviceVars, proc>>

\* handle_audio_error, then exit(EXIT_FAILURE); the server runs until then.
PlayerExits ==
    /\ ppc = "exit"
    /\ proc' = "exited"
    /\ UNCHANGED <<sharedVars, stopVars, serverVars, playerVars, clientVars,
                   deviceVars, faults>>

\* pthread_mutex_lock, or the return from pthread_cond_wait.
PlayerLock ==
    /\ Player \notin waiting
    /\ lock = Nobody
    /\ PlayerGoes("lock", "check")
    /\ lock' = Player
    /\ UNCHANGED <<waiting, active_client_sock, allocated, audio_buffer,
                   audio_buffer_size, stopVars, serverVars, frmLen,
                   clientVars, deviceVars, procVars>>

\* Mutant: line 169 does not unlock g_stop_thread_mutex.
PlayerKeepsStopLock ==
    /\ audio_buffer_size = 0
    /\ stopLock = Nobody
    /\ PlayerGoes("check", IF g_stop_thread THEN "done" ELSE "wait")
    /\ lock' = IF g_stop_thread THEN Nobody ELSE lock
    /\ stopLock' = IF g_stop_thread THEN Nobody ELSE Player
    /\ UNCHANGED <<waiting, active_client_sock, allocated, audio_buffer,
                   audio_buffer_size, g_stop_thread, serverVars, frmLen,
                   clientVars, deviceVars, procVars>>

\* while (audio_buffer_size == 0): look at the flag under its own mutex.
PlayerCheckEmpty ==
    /\ audio_buffer_size = 0
    /\ stopLock = Nobody
    /\ PlayerGoes("check", IF g_stop_thread THEN "done" ELSE "wait")
    /\ lock' = IF g_stop_thread THEN Nobody ELSE lock
    /\ UNCHANGED <<waiting, active_client_sock, allocated, audio_buffer,
                   audio_buffer_size, stopVars, serverVars, frmLen,
                   clientVars, deviceVars, procVars>>

\* Mutant: the player sends whatever woke it.
PlayerNeverChecks ==
    /\ PlayerGoes("check", "frame")
    /\ UNCHANGED <<sharedVars, stopVars, serverVars, frmLen, clientVars,
                   deviceVars, procVars>>

PlayerCheckFull ==
    /\ audio_buffer_size # 0
    /\ PlayerGoes("check", "frame")
    /\ UNCHANGED <<sharedVars, stopVars, serverVars, frmLen, clientVars,
                   deviceVars, procVars>>

PlayerWait ==
    /\ PlayerGoes("wait", "lock")
    /\ waiting' = waiting \cup {Player}
    /\ lock' = Nobody
    /\ UNCHANGED <<active_client_sock, allocated, audio_buffer,
                   audio_buffer_size, stopVars, serverVars, frmLen,
                   clientVars, deviceVars, procVars>>

\* frm = {audio_buffer, audio_buffer_size}.  The server's line 102 races with
\* this read: the build may read the size again or reuse the value tested.
PlayerFrame ==
    /\ PlayerGoes("frame", "send")
    /\ frmLen' \in {1, audio_buffer_size}
    /\ UNCHANGED <<sharedVars, stopVars, serverVars, clientVars, deviceVars,
                   procVars>>

\* IMP_AO_SendFrame(..., BLOCK) waits for room with the lock held, then takes
\* what the buffer holds by now; audio_buffer_size = 0, unlock.
PlayerSend ==
    /\ device = "on"
    /\ Len(devQueue) < FrmNum
    /\ PlayerGoes("send", "lock")
    /\ LET frame == IF frmLen = 0 THEN Silence ELSE audio_buffer
       IN  /\ devQueue' = Append(devQueue, frame)
           /\ played' = Append(played, frame)
    /\ audio_buffer_size' = 0
    /\ frmLen' = 0
    /\ lock' = Nobody
    /\ UNCHANGED <<waiting, active_client_sock, allocated, audio_buffer,
                   stopVars, serverVars, clientVars, device, enableOK,
                   procVars>>

\* SendFrame fails: unlock and reinitialize, leaving audio_buffer_size alone.
PlayerSendFails ==
    /\ PlayerGoes("send", "disable")
    /\ IF device = "on" THEN Fail ELSE UNCHANGED faults
    /\ frmLen' = 0
    /\ lock' = Nobody
    /\ UNCHANGED <<waiting, active_client_sock, allocated, audio_buffer,
                   audio_buffer_size, stopVars, serverVars, clientVars,
                   deviceVars, proc>>

\* Mutant: the reinitialization frees the buffer it is about to replace.
PlayerDisableFrees ==
    /\ PlayerGoes("disable", "init")
    /\ device' = "off"
    /\ devQueue' = <<>>
    /\ allocated' = FALSE
    /\ UNCHANGED <<lock, waiting, active_client_sock, audio_buffer,
                   audio_buffer_size, stopVars, serverVars, frmLen,
                   clientVars, enableOK, played, procVars>>

\* reinitialize_audio_output_device: IMP_AO_DisableChn, IMP_AO_Disable.
PlayerDisable ==
    /\ PlayerGoes("disable", "init")
    /\ device' = "off"
    /\ devQueue' = <<>>
    /\ UNCHANGED <<sharedVars, stopVars, serverVars, frmLen, clientVars,
                   enableOK, played, procVars>>

\* pthread_cond_wait may return without a signal.
SpuriousWakeup ==
    /\ Player \in waiting
    /\ waiting' = waiting \ {Player}
    /\ UNCHANGED <<lock, active_client_sock, allocated, audio_buffer,
                   audio_buffer_size, stopVars, serverVars, playerVars,
                   clientVars, deviceVars, procVars>>

PlayerNext ==
    \/ PlayerEnable \/ PlayerMalloc
    \/ PlayerInitFails \/ PlayerMallocFails \/ PlayerExits
    \/ PlayerLock \/ PlayerCheckEmpty \/ PlayerCheckFull \/ PlayerWait
    \/ PlayerFrame \/ PlayerSend \/ PlayerSendFails \/ PlayerDisable
    \/ SpuriousWakeup

-------------------------------------------------------------------------------
(***************************************************************************)
(* The environment: clients of the socket, and the device.                 *)
(***************************************************************************)
Listening == spc \notin {"start", "done"}

\* connect() blocks while more than the backlog is pending (Linux).
Connect(c) ==
    /\ link[c] = "away"
    /\ Listening
    /\ Len(backlog) <= ListenBacklog
    /\ link' = [link EXCEPT ![c] = "connected"]
    /\ backlog' = Append(backlog, c)
    /\ UNCHANGED <<sharedVars, stopVars, serverVars, playerVars, written,
                   deviceVars, procVars>>

\* The server has closed its end of c.
Served(c) ==
    /\ link[c] # "away"
    /\ c # client_sock
    /\ \A i \in DOMAIN backlog : backlog[i] # c

\* A write that does not fail.
Write(c) ==
    /\ link[c] = "connected"
    /\ ~Served(c)
    /\ written[c] < MaxWrites
    /\ written' = [written EXCEPT ![c] = @ + 1]
    /\ UNCHANGED <<sharedVars, stopVars, serverVars, playerVars, backlog, link,
                   deviceVars, procVars>>

Finish(c) ==
    /\ link[c] = "connected"
    /\ link' = [link EXCEPT ![c] = "finished"]
    /\ UNCHANGED <<sharedVars, stopVars, serverVars, playerVars, backlog,
                   written, deviceVars, procVars>>

\* The hardware consumes the oldest queued frame.
DevicePlays ==
    /\ device = "on"
    /\ devQueue # <<>>
    /\ devQueue' = Tail(devQueue)
    /\ UNCHANGED <<sharedVars, stopVars, serverVars, playerVars, clientVars,
                   device, enableOK, played, procVars>>

ClientNext == \E c \in Clients : Connect(c) \/ Write(c) \/ Finish(c)

Next ==
    /\ proc = "running"
    /\ ServerNext \/ PlayerNext \/ ClientNext \/ DevicePlays

Spec == Init /\ [][Next]_vars

(***************************************************************************)
(* Fairness.  The scheduler runs every thread that can run; a thread that  *)
(* finds a mutex free again and again gets it in the end (strong fairness: *)
(* the player may wake spuriously any number of times and take the lock    *)
(* between two attempts of the server); an enabled device consumes its     *)
(* queue.  A failure is never due: no call has to fail for the rest to go  *)
(* on.  Nothing is assumed of the clients.                                 *)
(***************************************************************************)
Running(A) == proc = "running" /\ A /\ UNCHANGED faults

Fairness ==
    /\ SF_vars(Running(ServerNext))
    /\ SF_vars(Running(PlayerNext /\ ~SpuriousWakeup))
    /\ WF_vars(Running(DevicePlays))

FairSpec == Spec /\ Fairness

-------------------------------------------------------------------------------
(***************************************************************************)
(* Properties.                                                             *)
(***************************************************************************)
ServerPCs == {"start", "check", "accept", "lock", "enable", "clear", "read",
              "copy", "publish", "wipe", "empty", "release", "close", "done"}
Serving   == ServerPCs \ {"start", "check", "accept", "done"}
PlayerPCs == {"init", "malloc", "lock", "check", "wait", "frame", "send",
              "disable", "exit", "done"}

SharedOK ==
    /\ lock \in Threads \cup {Nobody}
    /\ waiting \subseteq Threads
    /\ active_client_sock \in Clients \cup {NoClient}
    /\ allocated \in BOOLEAN
    /\ audio_buffer \in Frames
    /\ audio_buffer_size \in {0, 1}

StopOK ==
    /\ g_stop_thread \in BOOLEAN
    /\ stopLock \in {Nobody, "main"}

ServerOK ==
    /\ spc \in ServerPCs
    /\ client_sock \in Clients \cup {NoClient}
    /\ spc \in Serving => client_sock \in Clients
    /\ reads \in [Clients -> Nat]

PlayerOK ==
    /\ ppc \in PlayerPCs
    /\ frmLen \in {0, 1}

ClientOK ==
    /\ backlog \in Seq(Clients)
    /\ link \in [Clients -> {"away", "connected", "finished"}]
    /\ written \in [Clients -> Nat]

DeviceOK ==
    /\ device \in {"off", "on"}
    /\ devQueue \in Seq(Frames)
    /\ enableOK \in BOOLEAN
    /\ played \in Seq(Frames)

ProcOK ==
    /\ proc \in {"running", "crashed", "exited"}
    /\ faults \in Nat

\* Every variable stays in its type: the mutex has at most one owner, sizes
\* and counters are naturals, sockets and frames are those of the clients.
TypeOK == SharedOK /\ StopOK /\ ServerOK /\ PlayerOK /\ ClientOK /\ DeviceOK
          /\ ProcOK

\* The playback path keeps the promise of SingleSource: one owner at a time,
\* only the owner's chunks reach the device, in order, none of them twice.
Promise == INSTANCE SingleSource WITH
    Sources <- Clients, NoSource <- NoClient, Numbers <- 1 .. MaxWrites,
    Filler <- {Silence, Garbage}, owner <- active_client_sock, heard <- played
OneSourceAtATime == Promise!Spec

\* The same threads in AudioDaemon, where a stretch under the lock is one step.  A
\* connection waits in `queued` until the server has the lock for it; the lock is
\* held between two steps only over SendFrame.
Daemon == INSTANCE AudioDaemon WITH
    Iacs <- Clients, Askers <- {}, None <- NoClient, Asked <- {}, Leftovers <- {},
    SockBuf <- MaxWrites, DevBuf <- FrmNum, MaxChunks <- MaxWrites,
    value <- 0, cpc <- "accept", csock <- NoClient, waiting <- <<>>, link <- <<>>,
    request <- <<>>, reply <- <<>>,
    ipc <- [c \in Clients |-> IF link[c] = "finished" THEN "over" ELSE "stream"],
    records <- [c \in Clients |-> FALSE],
    chunks <- [c \in Clients |-> 0],
    queued <- IF spc = "lock" THEN <<client_sock>> \o backlog ELSE backlog,
    arriving <- <<>>,
    sent <- [c \in Clients |-> written[c] - reads[c]],
    lock <- IF ppc \in {"frame", "send"} THEN Player ELSE Nobody,
    opc <- IF spc \in {"enable", "clear", "read", "wipe", "empty"} THEN "read"
           ELSE IF spc \in {"copy", "publish"} THEN "publish"
           ELSE IF spc = "release" THEN "release" ELSE "accept",
    slot <- audio_buffer_size # 0,
    ppc <- IF ppc \in {"frame", "send"} THEN "send" ELSE "wait",
    played <- Len(devQueue),
    npc <- "accept", nsock <- NoClient, client_list <- <<>>,
    rpc <- [c \in Clients |-> "none"], current <- [c \in Clients |-> 0]

\* What AudioDaemon lets the server, the player and the device do is all they do:
\* it leaves out no order of theirs in which the lock goes from one to the other.
PlaybackAsInDaemon ==
    [][ ServerNext \/ PlayerNext \/ DevicePlays =>
            \/ UNCHANGED Daemon!vars
            \/ Daemon!Output \/ Daemon!Player \/ Daemon!PlayerFails
            \/ Daemon!OutputReadFails /\ faults > 0
            \/ Daemon!DevicePlays \/ Daemon!DeviceDrops ]_vars

\* The cond_wait of output_server.c:71 is never reached: the one server
\* thread has always released the output before it accepts again.  This is
\* what makes pthread_cond_signal enough at line 96, where the two loops
\* share one condition variable: the signal cannot be spent on the server.
ServerNeverWaits == Server \notin waiting

\* The player never sleeps on a full buffer: it tests the size and enters
\* the wait without letting the lock go, and every size is signalled.
NoLostWakeup == Player \in waiting => audio_buffer_size = 0

\* output_server.c:77: once a client's output is enabled, nothing a former
\* client sent is left in the device's queue.
NoOldAudio ==
    (active_client_sock # NoClient /\ spc # "enable" /\ enableOK) =>
        \A i \in DOMAIN devQueue :
            devQueue[i].src \in {NoClient, active_client_sock}

\* A frame that is not the owner's audio reaches the device only when the
\* server is tearing the connection down around a send under way, or, once
\* for each failure, after a failed send has replaced the buffer without
\* resetting its size.
GarbageHeard(heard) == Cardinality({i \in DOMAIN heard : heard[i] = Garbage})
FillerOnlyInRaces ==
    [][ \A i \in DOMAIN played' \ DOMAIN played :
            /\ played'[i] = Silence => spc \in {"empty", "release"}
            /\ played'[i] = Garbage => GarbageHeard(played') <= faults ]_vars

\* The server dereferences a NULL audio_buffer only for a client it serves
\* before the player has initialized the device for the first time, or while
\* the player, whose initialization has failed, is on its way into exit()
\* (output.c:101-105).  After audio has been played that takes two failures:
\* of SendFrame, and of malloc in the reinitialization.
CrashOnlyWithoutBuffer ==
    proc = "crashed" =>
        \/ spc = "clear" /\ ppc \in {"init", "malloc"} /\ played = <<>>
        \/ ppc = "exit" /\ faults >= (IF played = <<>> THEN 1 ELSE 2)

\* A chunk published in the slot does not stay there, even when its client
\* stays connected and silent: the player takes it, unless the server has
\* replaced or discarded it first.
SlotEmpties == audio_buffer_size = 1 ~> audio_buffer_size = 0 \/ proc # "running"

\* If every client closes its connection in the end, every client that
\* connects is served in the end, whatever is ahead of it in the queue.
QueuedServed ==
    (\A c \in Clients : link[c] = "connected" ~> link[c] = "finished") =>
        (\A c \in Clients : link[c] # "away" ~>
                                Served(c) \/ proc # "running" \/ spc = "done")

\* README.md:30, "AO supports queued playback from multiple sources": a source
\* that wrote something and was served has been heard.
SourceHeard ==
    \A c \in Clients :
        Served(c) /\ written[c] > 0 => \E i \in DOMAIN played : played[i].src = c

\* output_server.c:112, "Causes small files to cut off too soon, disable for
\* now": the end of a client's audio is not cut off by serving the next one.
NotCutOff ==
    [][ spc = "enable" /\ spc' = "clear" =>
            \A i \in DOMAIN devQueue : devQueue[i].src # NoClient =>
                devQueue' = devQueue ]_vars

-------------------------------------------------------------------------------
(***************************************************************************)
(* The inductive invariant behind the theorems of AudioOutputProofs.       *)
(***************************************************************************)
\* The lock belongs to the thread that is inside a critical section.
LockOwned ==
    /\ lock = Server <=> spc \in {"enable", "clear", "publish"}
    /\ lock = Player <=> ppc \in {"check", "wait", "frame", "send"}

\* From the claim to the release the output belongs to the accepted client.
Holding == {"enable", "clear", "read", "copy", "publish", "wipe", "empty",
            "release"}
OutputOwned ==
    active_client_sock = IF spc \in Holding THEN client_sock ELSE NoClient

\* Only the player sleeps, on an empty buffer, and means to take the lock.
Sleepers ==
    /\ ServerNeverWaits
    /\ NoLostWakeup
    /\ Player \in waiting => ppc = "lock"
    /\ ppc = "wait" => audio_buffer_size = 0

\* A size is set, and a frame is being sent, only on behalf of a client whose
\* first chunk has been published and who has not been released.
SlotFilled ==
    /\ audio_buffer_size # 0 => spc \in {"read", "copy", "publish", "wipe", "empty"}
    /\ ppc \in {"frame", "send"} => spc \in {"read", "copy", "wipe", "empty", "release"}

\* Until the player's first malloc() no client gets past the memset, and after
\* it only a malloc() that fails takes the buffer away.
NotAllocatedYet ==
    ~allocated =>
        \/ ppc = "exit"
        \/ /\ ppc \in {"init", "malloc"}
           /\ spc \notin {"read", "copy", "publish", "wipe", "empty", "release"}
           /\ played = <<>>

\* A reinitialization is the consequence of one failure, its end of another.
FailuresBehind ==
    /\ ppc = "disable" \/ (ppc \in {"init", "malloc"} /\ played # <<>>) => faults >= 1
    /\ ppc = "exit" => faults >= (IF played = <<>> THEN 1 ELSE 2)

\* What the start-up promises as long as no signal handler frees the buffer.
StartInv ==
    /\ NotAllocatedYet
    /\ FailuresBehind
    /\ ppc # "init" /\ ppc # "exit" => device = "on"
    /\ CrashOnlyWithoutBuffer

ControlInv == LockOwned /\ OutputOwned /\ Sleepers /\ SlotFilled

\* No more is read than was written, and at least the chunk being copied.
ReadsBounded ==
    /\ \A c \in Clients : reads[c] <= written[c] /\ written[c] <= MaxWrites
    /\ spc = "copy" => reads[client_sock] >= 1

\* The buffer holds filler, or a chunk the current client's stream yielded
\* before the one being copied now.
BufferHolds ==
    /\ audio_buffer.src = NoClient => audio_buffer \in {Silence, Garbage}
    /\ audio_buffer.src # NoClient =>
        /\ audio_buffer.src = client_sock
        /\ spc \in {"read", "copy", "publish", "wipe"}
        /\ audio_buffer.n \in 1 .. reads[client_sock]
        /\ spc = "copy" => audio_buffer.n < reads[client_sock]

\* What was played had been read, before the chunk being copied now.
PlayedWasRead ==
    \A i \in DOMAIN played : played[i].src # NoClient =>
        /\ played[i].n <= reads[played[i].src]
        /\ (spc = "copy" /\ played[i].src = client_sock) =>
               played[i].n < reads[client_sock]

\* A chunk that is still to be sent is newer than all that was played of it.
ToSend ==
    audio_buffer_size # 0 \/ ppc \in {"frame", "send"} \/ spc = "publish"
SlotFresh ==
    (ToSend /\ audio_buffer.src # NoClient) =>
        \A i \in DOMAIN played :
            played[i].src = audio_buffer.src => played[i].n < audio_buffer.n

DataInv == ReadsBounded /\ BufferHolds /\ PlayedWasRead /\ SlotFresh
IInv    == TypeOK /\ ControlInv /\ DataInv
===============================================================================
