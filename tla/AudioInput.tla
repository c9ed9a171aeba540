------------------------------ MODULE AudioInput ------------------------------
(***************************************************************************)
(* The capture half of iad: the input server thread                        *)
(* (network/input_server.c), which registers every connection in the list  *)
(* client_list_head and starts one more ai_record_thread for it, and those *)
(* record threads (audio/input.c), each of which fetches frames from the   *)
(* AI device and writes them to every registered connection, not only to   *)
(* the one it was started for.                                             *)
(*                                                                         *)
(* A record thread is named after the connection it was started for.       *)
(***************************************************************************)
EXTENDS Naturals, Sequences, FiniteSets, SequencesExt

CONSTANTS
    Clients,        \* connections to the input socket
    NoClient,       \* client_sock before accept
    MaxFrames,      \* bound: frames the device captures
    SockBuf,        \* frames a connection holds before write() blocks
    ListenBacklog,  \* listen(sockfd, 5)
    MaxFaults       \* bound: failures of system and device calls

InputServer == "input server"
Nobody      == "nobody"

ASSUME NamesAssumption ==
    /\ NoClient \notin Clients
    /\ {InputServer, Nobody} \cap Clients = {}
ASSUME BoundsAssumption ==
    /\ MaxFrames \in Nat
    /\ SockBuf \in Nat \ {0}
    /\ ListenBacklog \in Nat
    /\ MaxFaults \in Nat

VARIABLES
    lock,           \* owner of audio_buffer_lock
    client_list,    \* client_list_head: the registered sockets, head first
    dangling,       \* sockets whose list node has been freed
    open,           \* sockets the daemon has accepted and not closed
    g_stop_thread,
    spc,            \* the statement the input server is about to execute
    client_sock,
    rpc,            \* the same for each record thread; "none" if not started
    frm,            \* the frame each record thread holds, 0 if none
    current,        \* the position of each record thread in the list
    backlog,        \* connections not accepted yet
    link,           \* each client: "away", "connected" or "gone"
    inbox,          \* frames written to each connection and not read yet
    got,            \* history: the frames written to each connection
    device,         \* the AI device and channel: "off" or "on"
    captured,       \* the last frame the device captured
    taken,          \* the last frame GetFrame handed out
    proc,           \* "running", "crashed" or "exited"
    faults

listVars   == <<lock, client_list, dangling, open>>
serverVars == <<spc, client_sock>>
recVars    == <<rpc, frm, current>>
clientVars == <<backlog, link, inbox, got>>
deviceVars == <<device, captured, taken>>
procVars   == <<proc, faults>>
vars == <<listVars, g_stop_thread, serverVars, recVars, clientVars,
          deviceVars, procVars>>

CanFail == faults < MaxFaults
Fail    == CanFail /\ faults' = faults + 1

Init ==
    /\ lock = Nobody
    /\ client_list = <<>>
    /\ dangling = {}
    /\ open = {}
    /\ g_stop_thread = FALSE
    /\ spc = "start"
    /\ client_sock = NoClient
    /\ rpc = [c \in Clients |-> "none"]
    /\ frm = [c \in Clients |-> 0]
    /\ current = [c \in Clients |-> 0]
    /\ backlog = <<>>
    /\ link = [c \in Clients |-> "away"]
    /\ inbox = [c \in Clients |-> 0]
    /\ got = [c \in Clients |-> <<>>]
    /\ device = "off"
    /\ captured = 0
    /\ taken = 0
    /\ proc = "running"
    /\ faults = 0

-------------------------------------------------------------------------------
(***************************************************************************)
(* The input server.                                                       *)
(***************************************************************************)
ServerGoes(from, to) == spc = from /\ spc' = to

\* initialize_audio_input_device: a failing call ends the process.
ServerInitDevice ==
    /\ spc = "start"
    /\ \/ spc' = "socket" /\ device' = "on" /\ UNCHANGED procVars
       \/ Fail /\ proc' = "exited" /\ UNCHANGED <<spc, device>>
    /\ UNCHANGED <<listVars, g_stop_thread, client_sock, recVars, clientVars,
                   captured, taken>>

\* socket, bind and listen; the thread returns when one of them fails.
ServerListen ==
    /\ \/ ServerGoes("socket", "check") /\ UNCHANGED faults
       \/ ServerGoes("socket", "done") /\ Fail
    /\ UNCHANGED <<listVars, g_stop_thread, client_sock, recVars, clientVars,
                   deviceVars, proc>>

ServerCheck ==
    /\ ServerGoes("check", IF g_stop_thread THEN "done" ELSE "accept")
    /\ UNCHANGED <<listVars, g_stop_thread, client_sock, recVars, clientVars,
                   deviceVars, procVars>>

ServerAccept ==
    /\ backlog # <<>>
    /\ ServerGoes("accept", "register")
    /\ client_sock' = Head(backlog)
    /\ backlog' = Tail(backlog)
    /\ open' = open \cup {Head(backlog)}
    /\ UNCHANGED <<lock, client_list, dangling, g_stop_thread, recVars, link,
                   inbox, got, deviceVars, procVars>>

ServerAcceptFails ==
    /\ ServerGoes("accept", "check")
    /\ Fail
    /\ UNCHANGED <<listVars, g_stop_thread, client_sock, recVars, clientVars,
                   deviceVars, proc>>

\* Mutant: the node is added without the lock.
ServerRegisterAnyway ==
    /\ ServerGoes("register", "spawn")
    /\ client_list' = <<client_sock>> \o client_list
    /\ UNCHANGED <<lock, dangling, open, g_stop_thread, client_sock, recVars,
                   clientVars, deviceVars, procVars>>

\* handle_audio_input_client, lines 22 to 35: the new node becomes the head.
ServerRegister ==
    /\ lock = Nobody
    /\ ServerGoes("register", "spawn")
    /\ client_list' = <<client_sock>> \o client_list
    /\ UNCHANGED <<lock, dangling, open, g_stop_thread, client_sock, recVars,
                   clientVars, deviceVars, procVars>>

\* Lines 25 to 30: no memory for the node.
ServerRegisterFails ==
    /\ lock = Nobody
    /\ ServerGoes("register", "check")
    /\ Fail
    /\ open' = open \ {client_sock}
    /\ client_sock' = NoClient
    /\ UNCHANGED <<lock, client_list, dangling, g_stop_thread, recVars,
                   clientVars, deviceVars, proc>>

\* Lines 42 to 49: one more record thread.
ServerSpawn ==
    /\ ServerGoes("spawn", "check")
    /\ rpc' = [rpc EXCEPT ![client_sock] = "poll"]
    /\ client_sock' = NoClient
    /\ UNCHANGED <<listVars, g_stop_thread, frm, current, clientVars,
                   deviceVars, procVars>>

\* Lines 43 to 46: the socket is closed and the node freed, while the list
\* still contains it; if a record thread has removed and freed it meanwhile,
\* it is freed twice.  Whose node is freed like this is in dangling for ever.
ServerSpawnFails ==
    /\ ServerGoes("spawn", "check")
    /\ Fail
    /\ open' = open \ {client_sock}
    /\ dangling' = dangling \cup {client_sock}
    /\ IF client_sock \in ToSet(client_list)
         THEN UNCHANGED proc
         ELSE proc' \in {"running", "crashed"}
    /\ client_sock' = NoClient
    /\ UNCHANGED <<lock, client_list, g_stop_thread, recVars, clientVars,
                   deviceVars>>

ServerNext ==
    \/ ServerInitDevice \/ ServerListen \/ ServerCheck
    \/ ServerAccept \/ ServerAcceptFails
    \/ ServerRegister \/ ServerRegisterFails
    \/ ServerSpawn \/ ServerSpawnFails

-------------------------------------------------------------------------------
(***************************************************************************)
(* A record thread.                                                        *)
(***************************************************************************)
RecorderGoes(r, from, to) ==
    rpc[r] = from /\ rpc' = [rpc EXCEPT ![r] = to]

\* IMP_AI_PollingFrame(..., 1000): a frame is there ...
Poll(r) ==
    /\ device = "on"
    /\ taken < captured
    /\ RecorderGoes(r, "poll", "get")
    /\ UNCHANGED <<listVars, g_stop_thread, serverVars, frm, current,
                   clientVars, deviceVars, procVars>>

\* ... or none came in time, which counts as a failure, or the device is off:
\* the thread returns.
PollFails(r) ==
    /\ RecorderGoes(r, "poll", "dead")
    /\ IF device = "on" THEN Fail ELSE UNCHANGED faults
    /\ UNCHANGED <<listVars, g_stop_thread, serverVars, frm, current,
                   clientVars, deviceVars, proc>>

\* IMP_AI_GetFrame(..., 1000): the oldest frame nobody has taken ...
GetFrame(r) ==
    /\ device = "on"
    /\ taken < captured
    /\ RecorderGoes(r, "get", "lock")
    /\ taken' = taken + 1
    /\ frm' = [frm EXCEPT ![r] = taken + 1]
    /\ UNCHANGED <<listVars, g_stop_thread, serverVars, current, clientVars,
                   device, captured, procVars>>

\* ... and when another thread took the frame this one had polled, the call
\* waits for the next or fails (1000 is neither BLOCK nor NOBLOCK); the
\* thread returns on a failure, of whatever cause.
GetFrameFails(r) ==
    /\ RecorderGoes(r, "get", "dead")
    /\ IF device = "on" /\ taken < captured THEN Fail ELSE UNCHANGED faults
    /\ UNCHANGED <<listVars, g_stop_thread, serverVars, frm, current,
                   clientVars, deviceVars, proc>>

\* Mutant: the list is walked without the lock.
RecorderWalksAnyway(r) ==
    /\ RecorderGoes(r, "lock", "write")
    /\ lock' = r
    /\ current' = [current EXCEPT ![r] = 1]
    /\ UNCHANGED <<client_list, dangling, open, g_stop_thread, serverVars, frm,
                   clientVars, deviceVars, procVars>>

RecorderLock(r) ==
    /\ lock = Nobody
    /\ RecorderGoes(r, "lock", "write")
    /\ lock' = r
    /\ current' = [current EXCEPT ![r] = 1]
    /\ UNCHANGED <<client_list, dangling, open, g_stop_thread, serverVars, frm,
                   clientVars, deviceVars, procVars>>

\* The loop of line 154 stands at socket c.
At(r, c) ==
    /\ rpc[r] = "write"
    /\ current[r] \in DOMAIN client_list
    /\ c = client_list[current[r]]

\* Bound: the writes to one connection, as many as there are frames; only a
\* damaged list can make the threads write more.
RoomInHistory(c) == Len(got[c]) < MaxFrames

\* write() blocks, with the lock held, until the connection has room.
Write(r, c) ==
    /\ At(r, c)
    /\ c \notin dangling
    /\ link[c] = "connected"
    /\ inbox[c] < SockBuf
    /\ RoomInHistory(c)
    /\ inbox' = [inbox EXCEPT ![c] = @ + 1]
    /\ got' = [got EXCEPT ![c] = Append(@, frm[r])]
    /\ current' = [current EXCEPT ![r] = @ + 1]
    /\ UNCHANGED <<listVars, g_stop_thread, serverVars, rpc, frm, backlog, link,
                   deviceVars, procVars>>

\* write() fails, because the peer is gone or for any other reason.
WriteFails(r, c) ==
    /\ At(r, c)
    /\ c \notin dangling
    /\ IF link[c] = "gone" THEN UNCHANGED faults ELSE Fail

\* Mutant: current is advanced past the node that followed the removed one.
UnlinkSkips(r, c) ==
    /\ WriteFails(r, c)
    /\ client_list' = RemoveAt(client_list, current[r])
    /\ current' = [current EXCEPT ![r] = @ + 1]
    /\ UNCHANGED <<lock, dangling, open, g_stop_thread, serverVars, rpc, frm,
                   clientVars, deviceVars, proc>>

\* Mutant: the loop starts again at the head of the list.
UnlinkRestarts(r, c) ==
    /\ WriteFails(r, c)
    /\ client_list' = RemoveAt(client_list, current[r])
    /\ current' = [current EXCEPT ![r] = 1]
    /\ UNCHANGED <<lock, dangling, open, g_stop_thread, serverVars, rpc, frm,
                   clientVars, deviceVars, proc>>

\* Mutant: a thread returns when its own connection is lost.
UnlinkReturns(r, c) ==
    /\ WriteFails(r, c)
    /\ client_list' = RemoveAt(client_list, current[r])
    /\ IF c = r THEN rpc' = [rpc EXCEPT ![r] = "dead"] /\ lock' = Nobody
                ELSE UNCHANGED <<rpc, lock>>
    /\ UNCHANGED <<dangling, open, g_stop_thread, serverVars, frm, current,
                   clientVars, deviceVars, proc>>

\* Whatever the error was, lines 164 to 177 unlink the node, free it and go on
\* with the one that followed it.  The socket stays open.
Unlink(r, c) ==
    /\ WriteFails(r, c)
    /\ client_list' = RemoveAt(client_list, current[r])
    /\ UNCHANGED <<lock, dangling, open, g_stop_thread, serverVars, recVars,
                   clientVars, deviceVars, proc>>

\* The loop stands at a freed node, which holds anything.  Its socket may still
\* be the closed one, or one that accept has opened since; the node may be part
\* of the list again, as the node of a later connection, and lead back to the
\* head or nowhere.  So the write crashes, or fails and the node is unlinked and
\* freed again, or sends the frame to a connection that had it already or to
\* something else; and the walk goes on anywhere.
WriteFreed(r, c) ==
    /\ At(r, c)
    /\ c \in dangling
    /\ \/ /\ proc' = "crashed"
          /\ UNCHANGED <<client_list, current, inbox, got>>
       \/ /\ current' \in {[current EXCEPT ![r] = i] : i \in 1 .. Len(client_list) + 1}
          /\ UNCHANGED proc
          /\ \/ /\ client_list' \in {client_list, RemoveAt(client_list, current[r]),
                                   SubSeq(client_list, 1, current[r] - 1)}
                /\ UNCHANGED <<inbox, got>>
             \/ \E d \in open :
                    /\ link[d] = "connected" /\ inbox[d] < SockBuf /\ RoomInHistory(d)
                    /\ inbox' = [inbox EXCEPT ![d] = @ + 1]
                    /\ got' = [got EXCEPT ![d] = Append(@, frm[r])]
                    /\ UNCHANGED client_list
    /\ UNCHANGED <<lock, dangling, open, g_stop_thread, serverVars, rpc, frm, backlog,
                   link, deviceVars, faults>>

RecorderUnlock(r) ==
    /\ current[r] \notin DOMAIN client_list
    /\ RecorderGoes(r, "write", "release")
    /\ lock' = Nobody
    /\ current' = [current EXCEPT ![r] = 0]
    /\ UNCHANGED <<client_list, dangling, open, g_stop_thread, serverVars, frm,
                   clientVars, deviceVars, procVars>>

\* IMP_AI_ReleaseFrame.
ReleaseFrame(r) ==
    /\ RecorderGoes(r, "release", "poll")
    /\ frm' = [frm EXCEPT ![r] = 0]
    /\ UNCHANGED <<listVars, g_stop_thread, serverVars, current, clientVars,
                   deviceVars, procVars>>

RecorderNext(r) ==
    \/ Poll(r) \/ PollFails(r) \/ GetFrame(r) \/ GetFrameFails(r)
    \/ RecorderLock(r) \/ RecorderUnlock(r) \/ ReleaseFrame(r)
    \/ \E c \in Clients : Write(r, c) \/ Unlink(r, c) \/ WriteFreed(r, c)

-------------------------------------------------------------------------------
(***************************************************************************)
(* The environment: clients, the device, and the two steps of              *)
(* perform_cleanup (utils.c) that reach this half of the daemon.           *)
(***************************************************************************)
Connect(c) ==
    /\ link[c] = "away"
    /\ spc \notin {"start", "socket", "done"}
    /\ Len(backlog) <= ListenBacklog
    /\ link' = [link EXCEPT ![c] = "connected"]
    /\ backlog' = Append(backlog, c)
    /\ UNCHANGED <<listVars, g_stop_thread, serverVars, recVars, inbox, got,
                   deviceVars, procVars>>

Receive(c) ==
    /\ link[c] = "connected"
    /\ inbox[c] > 0
    /\ inbox' = [inbox EXCEPT ![c] = @ - 1]
    /\ UNCHANGED <<listVars, g_stop_thread, serverVars, recVars, backlog, link,
                   got, deviceVars, procVars>>

\* What a connection still held is lost with it.
Disconnect(c) ==
    /\ link[c] = "connected"
    /\ link' = [link EXCEPT ![c] = "gone"]
    /\ inbox' = [inbox EXCEPT ![c] = 0]
    /\ UNCHANGED <<listVars, g_stop_thread, serverVars, recVars, backlog, got,
                   deviceVars, procVars>>

Capture ==
    /\ device = "on"
    /\ captured < MaxFrames
    /\ captured' = captured + 1
    /\ UNCHANGED <<listVars, g_stop_thread, serverVars, recVars, clientVars,
                   device, taken, procVars>>

CleanupSetsStop ==
    /\ ~g_stop_thread
    /\ g_stop_thread' = TRUE
    /\ UNCHANGED <<listVars, serverVars, recVars, clientVars, deviceVars,
                   procVars>>

\* disable_audio_input.
CleanupDisables ==
    /\ g_stop_thread
    /\ device = "on"
    /\ device' = "off"
    /\ UNCHANGED <<listVars, g_stop_thread, serverVars, recVars, clientVars,
                   captured, taken, procVars>>

Next ==
    /\ proc = "running"
    /\ \/ ServerNext
       \/ \E r \in Clients : RecorderNext(r)
       \/ \E c \in Clients : Connect(c) \/ Receive(c) \/ Disconnect(c)
       \/ Capture \/ CleanupSetsStop \/ CleanupDisables

Spec == Init /\ [][Next]_vars

(***************************************************************************)
(* Fairness: the scheduler runs every thread that can run, and a thread    *)
(* that keeps finding the mutex free gets it in the end; no call has to    *)
(* fail for that.  ReadingSpec adds that the clients read what they are    *)
(* sent; the device promises nothing.                                      *)
(***************************************************************************)
Running(A) == proc = "running" /\ A /\ UNCHANGED faults

FairSpec ==
    /\ Spec
    /\ SF_vars(Running(ServerNext))
    /\ \A r \in Clients : SF_vars(Running(RecorderNext(r)))

ReadingSpec ==
    /\ FairSpec
    /\ \A c \in Clients : WF_vars(Running(Receive(c)))

-------------------------------------------------------------------------------
(***************************************************************************)
(* Properties.                                                             *)
(***************************************************************************)
ServerPCs == {"start", "socket", "check", "accept", "register", "spawn", "done"}
RecorderPCs == {"none", "poll", "get", "lock", "write", "release", "dead"}

\* Every variable stays in its type.
TypeOK ==
    /\ lock \in Clients \cup {Nobody}
    /\ client_list \in Seq(Clients)
    /\ dangling \subseteq Clients
    /\ open \subseteq Clients
    /\ g_stop_thread \in BOOLEAN
    /\ spc \in ServerPCs
    /\ client_sock \in Clients \cup {NoClient}
    /\ rpc \in [Clients -> RecorderPCs]
    /\ frm \in [Clients -> 0 .. MaxFrames]
    /\ current \in [Clients -> Nat]
    /\ backlog \in Seq(Clients)
    /\ link \in [Clients -> {"away", "connected", "gone"}]
    /\ inbox \in [Clients -> 0 .. SockBuf]
    /\ got \in [Clients -> Seq(1 .. MaxFrames)]
    /\ device \in {"off", "on"}
    /\ captured \in 0 .. MaxFrames
    /\ taken \in 0 .. MaxFrames
    /\ proc \in {"running", "crashed", "exited"}
    /\ faults \in 0 .. MaxFaults

\* pthread_create has not failed yet.  When it has, the list has a freed node in
\* it, and none of the next three holds any more (FrameOnce is violated then).
Intact == dangling = {}

\* With several record threads fetching from one device and each writing to
\* every connection, no connection is sent the same frame twice.
FrameOnce    == \A c \in Clients : IsInjective(got[c])
NoFrameTwice == Intact => FrameOnce

\* The frames come to all connections in one order, that of the passes over the
\* list, which is not always the order in which they were captured ...
SameOrder ==
    \A c, d \in Clients :
        \A i, j \in DOMAIN got[c], k, l \in DOMAIN got[d] :
            i < j /\ got[c][i] = got[d][l] /\ got[c][j] = got[d][k] => ~(k < l)

\* ... but is, as long as one record thread only has been started.
Alone == \A r, s \in Clients : rpc[r] # "none" /\ rpc[s] # "none" => r = s
InOrderAlone ==
    Alone => \A c \in Clients : \A i, j \in DOMAIN got[c] : i < j => got[c][i] < got[c][j]

\* Two record threads can take the lock in the other order than they took their
\* frames (input.c:150): what remains of the order of frames then.
Ordered    == SameOrder /\ InOrderAlone
FrameOrder == Intact => Ordered

\* A pass over the list misses nobody: every connection the thread has passed
\* has been sent its frame, whatever nodes were removed on the way.
NobodyMissed ==
    \A r \in Clients : rpc[r] = "write" =>
        \A i \in DOMAIN client_list :
            i < current[r] => frm[r] \in ToSet(got[client_list[i]])
PassComplete == Intact => NobodyMissed

\* The capture half as its connections see it: a pass over the list is a round of
\* Broadcast, in which those the thread has not come to yet are still to be served.
Walking  == lock \in Clients
Unsent   == {frm[r] : r \in {s \in Clients : rpc[s] = "lock"}}
Sending  == IF Walking THEN frm[lock] ELSE 0
Unserved ==
    IF Walking
    THEN {client_list[i] : i \in {j \in DOMAIN client_list : j >= current[lock]}}
    ELSE {}

\* Every frame that is sent has one round, and a round reaches everybody who is
\* registered or finds that he cannot be written to.
Rounds == INSTANCE Broadcast WITH
    Members <- Clients, NoFrame <- 0, joined <- ToSet(client_list), captured <- taken,
    fresh <- Unsent, frame <- Sending, todo <- Unserved,
    broken <- ~Intact
FramesInRounds == Rounds!Spec

\* The same threads in AudioDaemon, where a thread starts with its registration,
\* and the steps of a record thread between two walks are one.
Stage(c) ==
    IF spc = "spawn" /\ c = client_sock THEN "frame"
    ELSE IF rpc[c] \in {"poll", "get", "lock", "release"} THEN "frame"
    ELSE IF rpc[c] = "dead" THEN "over" ELSE rpc[c]

Daemon == INSTANCE AudioDaemon WITH
    Iacs <- Clients, Askers <- {}, None <- NoClient, Asked <- {}, Leftovers <- {},
    DevBuf <- 1, MaxChunks <- 0,
    active_client_sock <- NoClient, value <- 0, cpc <- "accept", csock <- NoClient,
    waiting <- <<>>, link <- <<>>, request <- <<>>, reply <- <<>>,
    ipc <- [c \in Clients |-> IF link[c] = "gone" THEN "over" ELSE "stream"],
    records <- [c \in Clients |-> TRUE],
    chunks <- [c \in Clients |-> 0],
    queued <- <<>>,
    arriving <- backlog,
    sent <- inbox,
    opc <- "accept", slot <- FALSE, ppc <- "wait", played <- 0,
    npc <- IF spc = "register" THEN "register" ELSE "accept",
    nsock <- IF spc = "register" THEN client_sock ELSE NoClient,
    rpc <- [c \in Clients |-> Stage(c)]

\* What AudioDaemon lets the input server and the record threads do is all they do,
\* until pthread_create fails: what follows then is left out there.
CaptureAsInDaemon ==
    [][ /\ ServerNext \/ \E r \in Clients : RecorderNext(r)
        /\ ~ServerSpawnFails /\ Intact
        => \/ UNCHANGED Daemon!vars
           \/ Daemon!Input \/ Daemon!InputDrops
           \/ \E c \in Clients : Daemon!Recorder(c) \/ Daemon!RecorderEnds(c)
           \/ faults' # faults /\ \E c \in Clients : Daemon!RecorderWriteFails(c) ]_vars

\* Record threads that lose the race between PollingFrame and GetFrame die,
\* but as long as the device works one of them is left for the connections.
Live(r) == rpc[r] \notin {"none", "dead"}
RecorderSurvives ==
    (client_list # <<>> /\ faults = 0 /\ device = "on") =>
        spc = "spawn" \/ \E r \in Clients : Live(r)

\* While connections are registered, captured frames keep being taken: no
\* thread keeps the lock for ever, and the thread that lost a frame to another
\* is not the last.  It needs clients that read (ReadingSpec): a record thread
\* blocked in write() holds the lock all the others need.
CaptureFlows ==
    client_list # <<>> /\ taken < captured ~>
        taken = captured \/ faults > 0 \/ g_stop_thread \/ proc # "running"

\* input.c:119, ai_record_thread "handles errors gracefully by releasing any
\* acquired resources": a socket whose client is no longer served is closed.
SocketsReleased ==
    \A c \in open : c = client_sock \/ c \in ToSet(client_list)
===============================================================================
