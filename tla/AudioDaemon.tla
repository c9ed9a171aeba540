------------------------------ MODULE AudioDaemon ------------------------------
(***************************************************************************)
(* The three servers of iad, its play thread and its record threads, with  *)
(* iac processes (src/iac) at the other ends: everything that takes        *)
(* audio_buffer_lock at once.  The play thread keeps the lock while the    *)
(* device takes a frame, and a record thread while it writes to one        *)
(* recorder after the other, so each half, and the control server, waits   *)
(* for the other.                                                          *)
(*                                                                         *)
(* Each half is modelled at the grain of that lock, without the contents.  *)
(* AudioOutput and AudioInput have the detail, and PlaybackAsInDaemon and  *)
(* CaptureAsInDaemon there say that no order of the threads is left out.   *)
(***************************************************************************)
EXTENDS ControlServer, SequencesExt

CONSTANTS
    SockBuf,      \* writes a connection holds before write() blocks
    DevBuf,       \* frames the AO device holds before it blocks
    MaxChunks     \* bound: chunks a playing iac writes

ASSUME DaemonAssumption ==
    /\ "player" \notin Iacs
    /\ SockBuf \in Nat \ {0}
    /\ DevBuf \in Nat \ {0}
    /\ MaxChunks \in Nat

VARIABLES
    ipc,          \* where each iac is
    records,      \* whether its options make it record
    chunks,       \* the chunks a playing iac has still to write
    queued,       \* data connections to the output server, not accepted yet
    arriving,     \* the same for the input server
    sent,         \* writes in each data connection
    opc,          \* the output server
    slot,         \* audio_buffer_size # 0
    ppc,          \* the play thread
    played,       \* frames the AO device has still to play
    npc,          \* the input server
    nsock,        \* its client_sock
    client_list,
    rpc,          \* each record thread, named after its connection
    current       \* its position in the list

iacVars    == <<ipc, records, chunks>>
sockVars   == <<queued, arriving, sent>>
outputVars == <<opc, slot, ppc, played, active_client_sock>>
inputVars  == <<npc, nsock, client_list, rpc, current>>
vars == <<lock, controlVars, iacVars, sockVars, outputVars, inputVars>>

Words == {"-s", "-f", "-r", "-o"}

Init ==
    /\ lock = Nobody
    /\ active_client_sock = None
    /\ ControlInit
    /\ ipc = [c \in Iacs |-> "start"]
    /\ records = [c \in Iacs |-> FALSE]
    /\ chunks = [c \in Iacs |-> 0]
    /\ queued = <<>> /\ arriving = <<>>
    /\ sent = [c \in Iacs |-> 0]
    /\ opc = "accept" /\ slot = FALSE
    /\ ppc = "wait" /\ played = 0
    /\ npc = "accept" /\ nsock = None
    /\ client_list = <<>>
    /\ rpc = [c \in Iacs |-> "none"]
    /\ current = [c \in Iacs |-> 0]

-------------------------------------------------------------------------------
(***************************************************************************)
(* iac.                                                                    *)
(***************************************************************************)
IacGoes(c, from, to) == ipc[c] = from /\ ipc' = [ipc EXCEPT ![c] = to]

Gone(c)    == ipc[c] = "over"

\* parse_arguments: without a source or a destination it prints the usage.
ParseArguments(c) ==
    /\ \E given \in SUBSET Words :
           /\ records' = [records EXCEPT ![c] = given \cap {"-r", "-o"} # {}]
           /\ IacGoes(c, "start", IF given = {} THEN "over" ELSE "control")
    /\ UNCHANGED <<lock, controlVars, chunks, sockVars, outputVars, inputVars>>

\* setup_control_client_connection and the write of the request type.
IacAsks(c) ==
    /\ IacGoes(c, "control", "answer")
    /\ Connect(c, IF records[c] THEN Record ELSE Play)
    /\ UNCHANGED <<lock, records, chunks, sockVars, outputVars, inputVars>>

\* Without a control server, the write and the read fail and iac goes on.
IacNotAnswered(c) ==
    /\ IacGoes(c, "control", "connect")
    /\ UNCHANGED <<lock, controlVars, records, chunks, sockVars, outputVars, inputVars>>

\* Whatever the answer is, iac closes the connection and goes on.
IacAnswered(c) ==
    /\ link[c] = "answered"
    /\ IacGoes(c, "answer", "connect")
    /\ HangUp(c)
    /\ UNCHANGED <<lock, records, chunks, sockVars, outputVars, inputVars>>

\* setup_client_connection, and the request type written as the first chunk.
IacConnectsData(c) ==
    /\ IacGoes(c, "connect", "stream")
    /\ IF records[c]
       THEN /\ Len(arriving) \leq ListenBacklog
            /\ arriving' = Append(arriving, c)
            /\ UNCHANGED <<queued, sent, chunks>>
       ELSE /\ Len(queued) \leq ListenBacklog
            /\ queued' = Append(queued, c)
            /\ sent' = [sent EXCEPT ![c] = 1]
            /\ \E n \in 0 .. MaxChunks : chunks' = [chunks EXCEPT ![c] = n]
            /\ UNCHANGED arriving
    /\ UNCHANGED <<lock, controlVars, records, outputVars, inputVars>>

\* Its connection to the output server waits there, or is being served.
Linked(c) == c = active_client_sock \/ \E i \in DOMAIN queued : queued[i] = c

\* playback_audio: fread and write.
IacWrites(c) ==
    /\ IacGoes(c, "stream", "stream")
    /\ ~records[c] /\ chunks[c] > 0 /\ sent[c] < SockBuf /\ Linked(c)
    /\ chunks' = [chunks EXCEPT ![c] = @ - 1]
    /\ sent' = [sent EXCEPT ![c] = @ + 1]
    /\ UNCHANGED <<lock, controlVars, records, queued, arriving, outputVars, inputVars>>

\* The server has closed the connection before its end: write fails.
IacLost(c) ==
    /\ IacGoes(c, "stream", "over")
    /\ ~records[c] /\ chunks[c] > 0 /\ ~Linked(c)
    /\ UNCHANGED <<lock, controlVars, records, chunks, sockVars, outputVars, inputVars>>

\* record_from_server: read and fwrite.
IacReads(c) ==
    /\ IacGoes(c, "stream", "stream")
    /\ records[c] /\ sent[c] > 0
    /\ sent' = [sent EXCEPT ![c] = @ - 1]
    /\ UNCHANGED <<lock, controlVars, records, chunks, queued, arriving, outputVars, inputVars>>

\* The end of the audio file.
IacEnds(c) ==
    /\ IacGoes(c, "stream", "over")
    /\ ~records[c] /\ chunks[c] = 0
    /\ UNCHANGED <<lock, controlVars, records, chunks, sockVars, outputVars, inputVars>>

\* The data connection, the file or standard output fails, or the user ends iac,
\* between any two statements.
IacQuits(c) ==
    /\ ipc[c] \in {"answer", "connect", "stream"}
    /\ ipc' = [ipc EXCEPT ![c] = "over"]
    /\ IF link[c] \in {"open", "answered"} THEN HangUp(c) ELSE UNCHANGED controlVars
    /\ UNCHANGED <<lock, records, chunks, sockVars, outputVars, inputVars>>

IacStep(c) ==
    \/ ParseArguments(c) \/ IacAsks(c) \/ IacAnswered(c)
    \/ IacConnectsData(c) \/ IacWrites(c) \/ IacLost(c) \/ IacReads(c) \/ IacEnds(c)

-------------------------------------------------------------------------------
(***************************************************************************)
(* The output server and the play thread.                                  *)
(***************************************************************************)
OutputGoes(from, to) == opc = from /\ opc' = to

\* Lines 63 to 86: the server itself releases the output before it accepts.
OutputTakes ==
    /\ OutputGoes("accept", "read")
    /\ queued # <<>> /\ lock = Nobody
    /\ active_client_sock' = Head(queued)
    /\ queued' = Tail(queued)
    /\ slot' = FALSE
    /\ UNCHANGED <<lock, controlVars, iacVars, arriving, sent, ppc, played, inputVars>>

OutputReads ==
    /\ OutputGoes("read", "publish")
    /\ sent[active_client_sock] > 0
    /\ sent' = [sent EXCEPT ![active_client_sock] = @ - 1]
    /\ UNCHANGED <<lock, controlVars, iacVars, queued, arriving, slot, ppc, played,
                   active_client_sock, inputVars>>

\* Mutant: the lock is not given back.
OutputKeepsLock ==
    /\ OutputGoes("publish", "read")
    /\ lock = Nobody
    /\ lock' = "server"
    /\ slot' = TRUE
    /\ UNCHANGED <<controlVars, iacVars, sockVars, ppc, played, active_client_sock,
                   inputVars>>

OutputPublishes ==
    /\ OutputGoes("publish", "read")
    /\ lock = Nobody
    /\ slot' = TRUE
    /\ UNCHANGED <<lock, controlVars, iacVars, sockVars, ppc, played, active_client_sock,
                   inputVars>>

\* read returns 0.  Line 102 empties the slot without the lock.
OutputEnds ==
    /\ OutputGoes("read", "release")
    /\ sent[active_client_sock] = 0 /\ Gone(active_client_sock)
    /\ slot' = FALSE
    /\ UNCHANGED <<lock, controlVars, iacVars, sockVars, ppc, played, active_client_sock,
                   inputVars>>

\* read fails, and what the connection still holds is lost.
OutputReadFails ==
    /\ OutputGoes("read", "release")
    /\ slot' = FALSE
    /\ UNCHANGED <<lock, controlVars, iacVars, sockVars, ppc, played, active_client_sock,
                   inputVars>>

\* Mutant: the output is not released.
OutputKeeps ==
    /\ OutputGoes("release", "accept")
    /\ lock = Nobody
    /\ UNCHANGED <<lock, controlVars, iacVars, sockVars, slot, ppc, played,
                   active_client_sock, inputVars>>

OutputReleases ==
    /\ OutputGoes("release", "accept")
    /\ lock = Nobody
    /\ active_client_sock' = None
    /\ UNCHANGED <<lock, controlVars, iacVars, sockVars, slot, ppc, played, inputVars>>

\* Mutant: the lock is not given back.
PlayerKeepsLock ==
    /\ ppc = "send" /\ ppc' = "wait"
    /\ played < DevBuf
    /\ played' = played + 1
    /\ slot' = FALSE
    /\ UNCHANGED <<lock, controlVars, iacVars, sockVars, opc, active_client_sock, inputVars>>

PlayerTakes ==
    /\ ppc = "wait" /\ ppc' = "send"
    /\ slot /\ lock = Nobody
    /\ lock' = "player"
    /\ UNCHANGED <<controlVars, iacVars, sockVars, opc, slot, played, active_client_sock,
                   inputVars>>

\* IMP_AO_SendFrame(BLOCK) returns when the device has room.
PlayerSends ==
    /\ ppc = "send" /\ ppc' = "wait"
    /\ played < DevBuf
    /\ played' = played + 1
    /\ slot' = FALSE
    /\ lock' = Nobody
    /\ UNCHANGED <<controlVars, iacVars, sockVars, opc, active_client_sock, inputVars>>

\* SendFrame fails: the lock is given up, and the chunk stays where it is.
PlayerFails ==
    /\ ppc = "send" /\ ppc' = "wait"
    /\ lock' = Nobody
    /\ UNCHANGED <<controlVars, iacVars, sockVars, opc, slot, played, active_client_sock,
                   inputVars>>

\* The device drops what it has queued, when it is disabled after a failure or
\* enabled once more for the next client (output_server.c:79).
DeviceDrops ==
    /\ played > 0
    /\ played' = 0
    /\ UNCHANGED <<lock, controlVars, iacVars, sockVars, opc, slot, ppc,
                   active_client_sock, inputVars>>

DevicePlays ==
    /\ played > 0
    /\ played' = played - 1
    /\ UNCHANGED <<lock, controlVars, iacVars, sockVars, opc, slot, ppc,
                   active_client_sock, inputVars>>

-------------------------------------------------------------------------------
(***************************************************************************)
(* The input server and the record threads.                                *)
(***************************************************************************)
InputAccepts ==
    /\ npc = "accept" /\ npc' = "register"
    /\ arriving # <<>>
    /\ nsock' = Head(arriving)
    /\ arriving' = Tail(arriving)
    /\ UNCHANGED <<lock, controlVars, iacVars, queued, sent, outputVars, client_list, rpc,
                   current>>

\* handle_audio_input_client: the connection is listed and gets a record thread.
InputRegisters ==
    /\ npc = "register" /\ npc' = "accept"
    /\ lock = Nobody
    /\ client_list' = <<nsock>> \o client_list
    /\ rpc' = [rpc EXCEPT ![nsock] = "frame"]
    /\ nsock' = None
    /\ UNCHANGED <<lock, controlVars, iacVars, sockVars, outputVars, current>>

\* Without memory for its node the connection is closed.
InputDrops ==
    /\ npc = "register" /\ npc' = "accept"
    /\ lock = Nobody
    /\ nsock' = None
    /\ UNCHANGED <<lock, controlVars, iacVars, sockVars, outputVars, client_list, rpc,
                   current>>

\* A frame has been polled and fetched; the walk over the list begins.
RecorderLocks(r) ==
    /\ rpc[r] = "frame" /\ rpc' = [rpc EXCEPT ![r] = "write"]
    /\ lock = Nobody
    /\ lock' = r
    /\ current' = [current EXCEPT ![r] = 1]
    /\ UNCHANGED <<controlVars, iacVars, sockVars, outputVars, npc, nsock, client_list>>

At(r) == client_list[current[r]]

RecorderWrites(r) ==
    /\ rpc[r] = "write" /\ current[r] \leq Len(client_list)
    /\ ~Gone(At(r)) /\ sent[At(r)] < SockBuf
    /\ sent' = [sent EXCEPT ![At(r)] = @ + 1]
    /\ current' = [current EXCEPT ![r] = @ + 1]
    /\ UNCHANGED <<lock, controlVars, iacVars, queued, arriving, outputVars, npc, nsock,
                   client_list, rpc>>

\* write fails: the node is unlinked and the walk goes on with the next.
RecorderUnlinks(r) ==
    /\ rpc[r] = "write" /\ current[r] \leq Len(client_list)
    /\ Gone(At(r))
    /\ client_list' = RemoveAt(client_list, current[r])
    /\ UNCHANGED <<lock, controlVars, iacVars, sockVars, outputVars, npc, nsock, rpc,
                   current>>

\* A write can fail for any reason: the connection is unlinked all the same.
RecorderWriteFails(r) ==
    /\ rpc[r] = "write" /\ current[r] \leq Len(client_list)
    /\ ~Gone(At(r))
    /\ client_list' = RemoveAt(client_list, current[r])
    /\ UNCHANGED <<lock, controlVars, iacVars, sockVars, outputVars, npc, nsock, rpc,
                   current>>

RecorderUnlocks(r) ==
    /\ rpc[r] = "write" /\ current[r] > Len(client_list)
    /\ rpc' = [rpc EXCEPT ![r] = "frame"]
    /\ lock' = Nobody
    /\ current' = [current EXCEPT ![r] = 0]
    /\ UNCHANGED <<controlVars, iacVars, sockVars, outputVars, npc, nsock, client_list>>

\* IMP_AI_PollingFrame or IMP_AI_GetFrame fails.
RecorderEnds(r) ==
    /\ rpc[r] = "frame" /\ rpc' = [rpc EXCEPT ![r] = "over"]
    /\ UNCHANGED <<lock, controlVars, iacVars, sockVars, outputVars, npc, nsock,
                   client_list, current>>

-------------------------------------------------------------------------------
Control == ControlStep /\ UNCHANGED <<lock, iacVars, sockVars, outputVars, inputVars>>

Output == OutputTakes \/ OutputReads \/ OutputPublishes \/ OutputEnds \/ OutputReleases

Player == PlayerTakes \/ PlayerSends

Input == InputAccepts \/ InputRegisters

Recorder(r) ==
    RecorderLocks(r) \/ RecorderWrites(r) \/ RecorderUnlinks(r) \/ RecorderUnlocks(r)

DaemonStep == Control \/ Output \/ Player \/ Input \/ \E r \in Iacs : Recorder(r)

\* Another process on the control socket: it connects, may send one request, and
\* hangs up, with or without an answer.
AskerStep(p) ==
    /\ Connect(p, None) \/ HangUp(p) \/ \E r \in Asked : Send(p, r)
    /\ UNCHANGED <<lock, iacVars, sockVars, outputVars, inputVars>>

AskerHangsUp(p) == HangUp(p) /\ UNCHANGED <<lock, iacVars, sockVars, outputVars, inputVars>>

Next ==
    \/ DaemonStep
    \/ DevicePlays \/ DeviceDrops
    \/ PlayerFails \/ OutputReadFails \/ InputDrops
    \/ \E c \in Iacs : IacStep(c) \/ IacNotAnswered(c) \/ IacQuits(c)
    \/ \E r \in Iacs : RecorderWriteFails(r) \/ RecorderEnds(r)
    \/ \E p \in Askers : AskerStep(p)

Spec == Init /\ [][Next]_vars

\* Every thread of the daemon gets the lock now and then; the device plays; an iac
\* goes on, and a recorder reads; who asks something else hangs up in the end.
FairSpec ==
    /\ Spec
    /\ SF_vars(Control) /\ SF_vars(Output) /\ SF_vars(Player) /\ SF_vars(Input)
    /\ \A c \in Iacs : SF_vars(Recorder(c)) /\ WF_vars(IacStep(c))
    /\ WF_vars(DevicePlays)
    /\ \A p \in Askers : WF_vars(AskerHangsUp(p))

-------------------------------------------------------------------------------
\* Every variable stays in its type; the lock belongs to a thread that is where
\* it holds it, and to it only.
TypeOK ==
    /\ ControlTypeOK
    /\ ipc \in [Iacs -> {"start", "control", "answer", "connect", "stream", "over"}]
    /\ chunks \in [Iacs -> 0 .. MaxChunks]
    /\ sent \in [Iacs -> 0 .. SockBuf]
    /\ opc \in {"accept", "read", "publish", "release"}
    /\ active_client_sock \in Iacs \cup {None}
    /\ played \in 0 .. DevBuf
    /\ rpc \in [Iacs -> {"none", "frame", "write", "over"}]
    /\ (lock = "player") = (ppc = "send")
    /\ \A c \in Iacs : (lock = c) = (rpc[c] = "write")

\* The thread with the lock can execute its next statement.
HolderGoesOn ==
    \/ lock = "player" /\ ppc = "send" /\ played < DevBuf
    \/ \E r \in Iacs :
           /\ lock = r /\ rpc[r] = "write"
           /\ \/ current[r] > Len(client_list)
              \/ Gone(At(r))
              \/ sent[At(r)] < SockBuf

\* Nothing in iad waits for iad.  Who has the lock goes on with it, or is in a
\* write to a recorder that has not read what it was sent (input.c:155), or in a
\* frame for a device that is full (output.c:177).  Who waits for a client, in
\* recv (control_server.c:21) or in read (output_server.c:92), waits for one that
\* is there or has hung up: it was not answered before, and not mixed up with a
\* recorder.
StuckOnOthers ==
    /\ lock # Nobody =>
           \/ HolderGoesOn
           \/ lock = "player" /\ played = DevBuf
           \/ /\ lock \in Iacs /\ records[At(lock)]
              /\ sent[At(lock)] = SockBuf /\ ipc[At(lock)] = "stream"
    /\ cpc = "recv" => link[csock] \in {"open", "gone"}
    /\ opc # "accept" =>
           /\ ~records[active_client_sock]
           /\ ipc[active_client_sock] \in {"stream", "over"}

\* README.md:30, "AO supports queued playback from multiple sources": an iac that
\* is started is answered, connects, plays to the end of its audio and leaves
\* the output free, or records; while the record threads hold the lock for one
\* write after the other, and if recorders read and who is silent hangs up.
Served ==
    \A c \in Iacs :
        ipc[c] = "control" ~>
            \/ ipc[c] = "over" /\ active_client_sock # c
            \/ ipc[c] = "stream" /\ records[c]
===============================================================================
