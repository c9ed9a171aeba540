------------------------------- MODULE Standalone -------------------------------
(***************************************************************************)
(* The programs of src/standalone, which play on the AO device without     *)
(* iad: audioplay plays one source and ends; audio_daemon, the forerunner  *)
(* of iad that the Makefile no longer builds, plays what audio_client      *)
(* processes send it, one client at a time.  One of the two runs.          *)
(*                                                                         *)
(* A chunk is <<source, i>>: the i-th frame of a source.  audio_daemon has *)
(* the lock in a state of its own only while its play thread is in         *)
(* SendFrame.                                                              *)
(***************************************************************************)
EXTENDS Integers, Sequences, SequencesExt

CONSTANTS
    Clients,       \* audio_client processes
    None,          \* no client, no chunk
    MaxChunks,     \* bound: frames of a source
    SockBuf,       \* frames a connection holds before write() blocks
    ListenBacklog, \* listen(sockfd, 5)
    FrmNum,        \* frames the device queues before SendFrame blocks
    MaxFaults      \* bound: failures of device calls

File    == "file"  \* the source of audioplay
Sources == Clients \cup {File}
Chunks  == Sources \X (1 .. MaxChunks)

ASSUME StandaloneAssumption ==
    /\ File \notin Clients
    /\ None \notin Clients \cup Chunks
    /\ MaxChunks \in Nat /\ MaxFaults \in Nat /\ ListenBacklog \in Nat
    /\ SockBuf \in Nat \ {0}
    /\ FrmNum \in Nat \ {0}

VARIABLES
    device,             \* whether the AO device and its channel are enabled
    devQueue,           \* frames it has still to play
    heard,              \* frames it has played
    faults,
    made,               \* frames each source has sent
    apc,                \* audioplay's play thread
    ppc,                \* audio_daemon's play thread
    spc,                \* its server thread
    sleepers,           \* which of the two wait for audio_data_cond
    audio_buffer,       \* the chunk in it, None if audio_buffer_size is 0
    active_client_sock,
    client_sock,
    buf,                \* the server's
    cpc,                \* each audio_client
    queue,              \* connections not accepted yet
    sent                \* what each connection holds

deviceVars == <<device, devQueue, heard, faults>>
threadVars == <<ppc, spc, sleepers>>
bufferVars == <<audio_buffer, active_client_sock, client_sock, buf>>
clientVars == <<cpc, queue, sent>>
daemonVars == <<threadVars, bufferVars, clientVars>>
vars == <<deviceVars, made, apc, daemonVars>>

Init ==
    /\ device \in BOOLEAN
    /\ devQueue = <<>> /\ heard = <<>> /\ faults = 0
    /\ made = [s \in Sources |-> 0]
    /\ \/ apc = "open" /\ ppc = "none" /\ spc = "none"
       \/ apc = "none" /\ ppc = "reinitialize" /\ spc = "bind"
    /\ sleepers = {}
    /\ audio_buffer = None /\ buf = None
    /\ active_client_sock = None /\ client_sock = None
    /\ cpc = [c \in Clients |-> "start"]
    /\ queue = <<>>
    /\ sent = [c \in Clients |-> <<>>]

-------------------------------------------------------------------------------
(***************************************************************************)
(* The AO device.                                                          *)
(***************************************************************************)
Fault == faults < MaxFaults /\ faults' = faults + 1

DevicePlays ==
    /\ device /\ devQueue # <<>>
    /\ heard' = Append(heard, Head(devQueue))
    /\ devQueue' = Tail(devQueue)
    /\ UNCHANGED <<device, faults, made, apc, daemonVars>>

\* SendFrame(BLOCK) takes the frame when there is room.
Accepts(frame) ==
    /\ device /\ Len(devQueue) < FrmNum
    /\ devQueue' = Append(devQueue, frame)
    /\ UNCHANGED <<device, heard, faults>>

\* It fails on a device that is off, or by itself.
Rejects ==
    /\ IF device THEN Fault ELSE UNCHANGED faults
    /\ UNCHANGED <<device, devQueue, heard>>

\* SetPubAttr, GetPubAttr, Enable, EnableChn, SetVol, SetGain, until one fails.
TurnsOn == device' = TRUE /\ UNCHANGED faults

TurnsOnPartly == device' \in BOOLEAN /\ Fault

-------------------------------------------------------------------------------
(***************************************************************************)
(* audioplay.                                                              *)
(***************************************************************************)
AGoes(from, to) == apc = from /\ apc' = to

\* No arguments, no such file, no thread, no memory.
PlayNothing ==
    /\ AGoes("open", "over")
    /\ Fault
    /\ UNCHANGED <<device, devQueue, heard, made, daemonVars>>

PlaySetUp ==
    /\ apc = "open"
    /\ \/ TurnsOn /\ apc' = "play"
       \/ TurnsOnPartly /\ apc' = "over"
    /\ UNCHANGED <<devQueue, heard, made, daemonVars>>

\* fread gives a whole frame, which SendFrame takes or not.
PlayFrame ==
    /\ apc = "play" /\ made[File] < MaxChunks
    /\ made' = [made EXCEPT ![File] = @ + 1]
    /\ \/ Accepts(<<File, made'[File]>>) /\ UNCHANGED apc
       \/ Rejects /\ apc' = "over"
    /\ UNCHANGED daemonVars

\* fread gives less than a frame: that is not played.
PlayFileEnds ==
    /\ AGoes("play", "flush")
    /\ UNCHANGED <<deviceVars, made, daemonVars>>

\* Mutant: the device is turned off without waiting for it.
PlayNoFlush ==
    /\ AGoes("flush", "over")
    /\ device' = FALSE /\ devQueue' = <<>>
    /\ UNCHANGED <<heard, faults, made, daemonVars>>

\* FlushChnBuf waits for the last frame; then DisableChn and Disable.
PlayFlush ==
    /\ AGoes("flush", "over")
    /\ \/ devQueue = <<>> /\ device' = FALSE /\ UNCHANGED faults
       \/ Fault /\ device' \in IF devQueue = <<>> THEN BOOLEAN ELSE {device}
    /\ UNCHANGED <<devQueue, heard, made, daemonVars>>

AudioPlay == PlayNothing \/ PlaySetUp \/ PlayFrame \/ PlayFileEnds \/ PlayFlush

-------------------------------------------------------------------------------
(***************************************************************************)
(* audio_client.                                                           *)
(***************************************************************************)
CGoes(c, from, to) == cpc[c] = from /\ cpc' = [cpc EXCEPT ![c] = to]

ClientConnects(c) ==
    /\ CGoes(c, "start", "stream")
    /\ spc \notin {"none", "bind", "over"}
    /\ Len(queue) \leq ListenBacklog
    /\ queue' = Append(queue, c)
    /\ UNCHANGED <<deviceVars, made, apc, threadVars, bufferVars, sent>>

ClientWrites(c) ==
    /\ cpc[c] = "stream" /\ made[c] < MaxChunks /\ Len(sent[c]) < SockBuf
    /\ made' = [made EXCEPT ![c] = @ + 1]
    /\ sent' = [sent EXCEPT ![c] = Append(@, <<c, made'[c]>>)]
    /\ UNCHANGED <<deviceVars, apc, threadVars, bufferVars, cpc, queue>>

\* The options are wrong, there is no daemon, the file cannot be opened, it ends,
\* or the user ends the process.
ClientEnds(c) ==
    /\ cpc[c] # "over" /\ cpc' = [cpc EXCEPT ![c] = "over"]
    /\ UNCHANGED <<deviceVars, made, apc, threadVars, bufferVars, queue, sent>>

-------------------------------------------------------------------------------
(***************************************************************************)
(* audio_daemon: the server thread.                                        *)
(***************************************************************************)
SGoes(from, to) == spc = from /\ spc' = to

Unlocked == ppc # "send"

\* socket, bind and listen; without them the thread returns.
ServerBinds ==
    /\ \/ SGoes("bind", "accept") /\ UNCHANGED faults
       \/ SGoes("bind", "over") /\ Fault
    /\ UNCHANGED <<device, devQueue, heard, made, apc, ppc, sleepers, bufferVars, clientVars>>

ServerAccepts ==
    /\ SGoes("accept", "claim")
    /\ queue # <<>>
    /\ client_sock' = Head(queue)
    /\ queue' = Tail(queue)
    /\ UNCHANGED <<deviceVars, made, apc, ppc, sleepers, audio_buffer, active_client_sock,
                   buf, cpc, sent>>

\* Until no client is active.
ServerClaims ==
    /\ spc = "claim" /\ Unlocked /\ "server" \notin sleepers
    /\ IF active_client_sock = None
       THEN active_client_sock' = client_sock /\ spc' = "read" /\ UNCHANGED sleepers
       ELSE sleepers' = sleepers \cup {"server"} /\ UNCHANGED <<active_client_sock, spc>>
    /\ UNCHANGED <<deviceVars, made, apc, ppc, audio_buffer, client_sock, buf, clientVars>>

ServerReads ==
    /\ SGoes("read", "copy")
    /\ sent[client_sock] # <<>>
    /\ buf' = Head(sent[client_sock])
    /\ sent' = [sent EXCEPT ![client_sock] = Tail(@)]
    /\ UNCHANGED <<deviceVars, made, apc, ppc, sleepers, audio_buffer, active_client_sock,
                   client_sock, cpc, queue>>

\* Mutant: nobody is notified.
ServerCopiesQuietly ==
    /\ SGoes("copy", "read") /\ Unlocked
    /\ audio_buffer' = buf
    /\ UNCHANGED <<deviceVars, made, apc, ppc, sleepers, active_client_sock, client_sock, buf,
                   clientVars>>

\* memcpy and pthread_cond_signal, which wakes one of those that wait.
ServerCopies ==
    /\ SGoes("copy", "read") /\ Unlocked
    /\ audio_buffer' = buf
    /\ IF sleepers = {} THEN UNCHANGED sleepers
       ELSE \E t \in sleepers : sleepers' = sleepers \ {t}
    /\ UNCHANGED <<deviceVars, made, apc, ppc, active_client_sock, client_sock, buf, clientVars>>

ServerEnds ==
    /\ SGoes("read", "release")
    /\ sent[client_sock] = <<>> /\ cpc[client_sock] = "over"
    /\ UNCHANGED <<deviceVars, made, apc, ppc, sleepers, bufferVars, clientVars>>

\* Mutant: what the player has not taken is discarded, as iad does.
ServerDiscards ==
    /\ SGoes("release", "accept") /\ Unlocked
    /\ active_client_sock' = None
    /\ audio_buffer' = None
    /\ sleepers' = {}
    /\ UNCHANGED <<deviceVars, made, apc, ppc, client_sock, buf, clientVars>>

\* The active client is reset and everybody woken.
ServerReleases ==
    /\ SGoes("release", "accept") /\ Unlocked
    /\ active_client_sock' = None
    /\ sleepers' = {}
    /\ UNCHANGED <<deviceVars, made, apc, ppc, audio_buffer, client_sock, buf, clientVars>>

Server ==
    \/ ServerBinds \/ ServerAccepts \/ ServerClaims \/ ServerReads \/ ServerCopies
    \/ ServerEnds \/ ServerReleases

-------------------------------------------------------------------------------
(***************************************************************************)
(* audio_daemon: the play thread.                                          *)
(***************************************************************************)
PGoes(from, to) == ppc = from /\ ppc' = to

\* DisableChn and Disable drop what is queued; failures are only logged.
Reinitialize ==
    /\ PGoes("reinitialize", "wait")
    /\ devQueue' = <<>>
    /\ TurnsOn \/ TurnsOnPartly
    /\ UNCHANGED <<heard, made, apc, spc, sleepers, bufferVars, clientVars>>

PlayerWaits ==
    /\ ppc = "wait" /\ "player" \notin sleepers
    /\ IF audio_buffer = None THEN sleepers' = sleepers \cup {"player"} /\ UNCHANGED ppc
       ELSE ppc' = "send" /\ UNCHANGED sleepers
    /\ UNCHANGED <<deviceVars, made, apc, spc, bufferVars, clientVars>>

\* Mutant: audio_buffer_size is not set to 0.
PlayerSendsAgain ==
    /\ PGoes("send", "wait")
    /\ Accepts(audio_buffer)
    /\ UNCHANGED <<made, apc, spc, sleepers, bufferVars, clientVars>>

PlayerSends ==
    /\ PGoes("send", "wait")
    /\ Accepts(audio_buffer)
    /\ audio_buffer' = None
    /\ UNCHANGED <<made, apc, spc, sleepers, active_client_sock, client_sock, buf, clientVars>>

\* The chunk stays where it is, and is sent again.
PlayerFails ==
    /\ PGoes("send", "reinitialize")
    /\ Rejects
    /\ UNCHANGED <<made, apc, spc, sleepers, bufferVars, clientVars>>

Player == Reinitialize \/ PlayerWaits \/ PlayerSends \/ PlayerFails

Next ==
    \/ DevicePlays \/ AudioPlay \/ Server \/ Player
    \/ \E c \in Clients : ClientConnects(c) \/ ClientWrites(c) \/ ClientEnds(c)

Spec == Init /\ [][Next]_vars

\* The device plays, and each thread gets the lock now and then; no call has to
\* fail for that.
Due(A) == A /\ UNCHANGED faults

FairSpec ==
    /\ Spec
    /\ WF_vars(DevicePlays) /\ WF_vars(Due(AudioPlay))
    /\ SF_vars(Due(Server)) /\ SF_vars(Due(Player))

-------------------------------------------------------------------------------
\* What is or will be heard.
Stream == heard \o devQueue \o IF audio_buffer = None THEN <<>> ELSE <<audio_buffer>>

\* What comes out is in the order each source had it, nothing twice, and two
\* sources are never mixed, also where a failed frame is sent again.
HeardInOrder ==
    \A i, j \in DOMAIN Stream : i < j =>
        /\ Stream[i][1] = Stream[j][1] => Stream[i][2] < Stream[j][2]
        /\ Stream[i][1] # Stream[j][1] =>
               \A k \in j .. Len(Stream) : Stream[k][1] # Stream[i][1]

\* A chunk in the buffer gives way to a later chunk of the same client or of a
\* later one, or is sent: the end of a client discards nothing.
NothingDiscarded ==
    [][ audio_buffer # None /\ audio_buffer' # audio_buffer
          => \/ audio_buffer' # None
             \/ devQueue' = Append(devQueue, audio_buffer) ]_vars

\* audioplay that ends without a failed call has had every frame it sent played,
\* and leaves the device off.
FilePlayed ==
    apc = "over" /\ faults = 0 =>
        /\ ~device
        /\ heard = [i \in 1 .. made[File] |-> <<File, i>>]

\* What is in the buffer is heard or overwritten, whoever the client was and
\* whether or not it is still connected, if the device does not fail: server and
\* player share one condition variable, and its signal never goes to the server.
BufferHeard ==
    \A chunk \in Chunks :
        audio_buffer = chunk ~>
            chunk \in Range(heard) \/ chunk \notin Range(Stream) \/ faults > 0
===============================================================================
