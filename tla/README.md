# iad in TLA+

A TLA+ development of `ingenic-audiodaemon`: `iad`, the daemon that plays and
captures audio on an Ingenic SoC, and the programs around it. Paths are relative
to the repository's `src/` unless they start with `config/` or name a document.
`PROJECT.json` maps every definition to the lines it models; this file says what
the modules are, what TLC checks, what TLAPS proves and what is left.

## The system

| Part | State it keeps | Operations | Hard behaviour |
|---|---|---|---|
| Output server, `iad/network/output_server.c` | `active_client_sock`, the one-chunk slot `audio_buffer` / `audio_buffer_size` | accept, claim the output, read, copy, publish, wipe, release | shares one lock and one condition variable with the player; the end of a connection touches the slot without the lock |
| Play thread, `iad/audio/output.c` | the AO device, `g_ao_max_frame_size`, the allocation of `audio_buffer` | initialize, wait, send, reinitialize | blocks in the device with the lock held; replaces the buffer without the lock |
| Input server, `iad/network/input_server.c` | `client_list_head` | accept, register, start a record thread | a thread that cannot be started leaves a freed node in the list, whose memory and socket the next connection may get |
| Record threads, `iad/audio/input.c` | a frame each | poll, get, write to *every* client, unlink lost ones, release | all threads serve all clients; they race for frames and the loser may die; a write blocks with the lock held |
| Control server, `iad/network/control_server.c`, `network.c` | two sample variables, the socket paths | queued / not queued, GET, SET | the answer is stale at once; one silent client stops it |
| Signals and cleanup, `iad/utils/utils.c` | `g_stop_thread` | `handle_sigint`, `perform_cleanup` | frees and disables under running threads; handlers nest |
| Single instance, `iad/utils/utils.c`, `iad/iad.c` | the PID file, its lock and its content | `is_already_running`, `daemonize`, `remove_pid_file` | removal by name races with creation |
| Start and configuration, `iad/iad.c`, `iad/utils/cmdline.c`, `iad/utils/config.c` | the options, `config_root`, the socket names | parse, load, validate, get, start the threads, clean up | a rejected configuration is used all the same; items are used after the mutex is given up; three threads write the names |
| Composition, `iad/iad.c` | the threads, `audio_buffer_lock` | | everybody waits for whoever holds the one lock, and it is held in blocking calls |
| `iac`, `iac/` | its two sockets | ask, play, record, leave | writes its request on the data socket too; may be killed anywhere |
| `web_client`, `web_client/` | `active_ws_connections`, `daemon_sockfd`, `audio_buffer` | callbacks of WebSockets and of POSTs | one connection to `iad` for all; blocking calls in the one loop; a POST given up half way |
| `standalone/`: `audioplay`, `audio_daemon`, `audio_client` | the device; a slot and an active client as in `iad` | play a file; serve one client after the other | both threads wait on one condition variable; a failed frame stays in the slot |
| `wc-console` | none | print | |

The threads of `iad` are started by `iad/iad.c` (control, input, output, play,
in that order) and meet in `audio_buffer_lock`, which guards the slot, the list
of capture clients and the control server's look at `active_client_sock`.
`audio_data_cond` wakes the player when there is a chunk and would wake the
output server when the output becomes free; a signal handler sets
`g_stop_thread` under `g_stop_thread_mutex`, disables both devices, frees the
buffer and the configuration and exits. `iac` and `web_client` are clients of
the sockets; every client takes its turn at the output.

What makes each part correct:

* playback: one source owns the output; only its chunks are heard, in order,
  none twice; nobody sleeps on work; queued sources are served;
* capture: a client is sent every frame of a pass, none twice; losing a client
  disturbs no other; capture goes on while a client is registered;
* shutdown: a signal ends the process, without harm to a daemon that is idle and
  not initializing its device;
* single instance: one daemon runs, and a killed one does not lock out the next;
* configuration: whatever the file holds, the devices are given settings in
  range; a file that was accepted crashes the daemon at most on a connection to
  the output, each server binds its own name, a half that was switched off stays
  off;
* the daemon as a whole: nothing in it waits for itself, and who asks is served;
* `web_client`: holds the output only for somebody who streams, and lets other
  clients have it; the body of a request fits its buffer;
* standalone: what is played is in order and complete, and the last chunk of a
  client is heard.

## Modules

| Module | Models |
|---|---|
| `SingleSource` | abstract: what playback promises, with no threads, lock or buffer |
| `AudioOutput` | output server and play thread; implements `SingleSource`, and the playback half of `AudioDaemon` |
| `Shutdown` | extends `AudioOutput` with the signal handlers; still implements it |
| `Broadcast` | abstract: what capture promises, with no threads, lock or list |
| `AudioInput` | input server and record threads; implements `Broadcast`, and the capture half of `AudioDaemon` |
| `SingleInstance` | the PID file, `daemonize`, exits and kills |
| `Config` | options, configuration file, start of the threads, use of the settings |
| `ControlServer` | control server and variables |
| `AudioDaemon` | extends `ControlServer` with both halves and `iac`: all users of the lock |
| `WebClient` | `web_client` between browsers and `iad` |
| `Standalone` | `audioplay`, or `audio_daemon` with `audio_client` |
| `*Proofs` | theorems about the module of that name |
| `MC*` | the modules TLC runs |

### AudioOutput

Each thread has a program counter (`spc`, `ppc`) that names the statement it is
about to execute. A critical section that nothing can observe half done is one
action (`ServerRelease`: lines 104 to 107); where another thread can see the
middle, because the code does not hold the lock, it is two. So `ServerWipe` and
`ServerEmpty` (lines 101 and 102, without the lock) are separate from each other
and from `ServerRelease`, and `PlayerFrame`, which evaluates `audio_buffer_size`
a second time, may get either the value tested or the value there now, as the
compiler likes: the race is undefined behaviour.

| Variables | Code |
|---|---|
| `lock`, `waiting` | `audio_buffer_lock`, the waiters of `audio_data_cond` |
| `active_client_sock`, `audio_buffer`, `audio_buffer_size`, `g_stop_thread` | the globals of `utils.c` of these names |
| `allocated` | `audio_buffer != NULL` |
| `spc`, `client_sock`, `reads` | the server: its place, its socket, reads so far |
| `ppc`, `frmLen` | the player: its place, `frm.len` |
| `backlog`, `link`, `written` | the socket's queue and the clients' side of it |
| `device`, `devQueue`, `enableOK`, `played` | the AO device, its queue, the last enable, what it accepted |

A chunk is a pair of connection and number, since no property looks at its
bytes; `Silence` is what `memset` leaves and `Garbage` what a fresh `malloc`
holds. A size is 0 or positive. `pthread_cond_signal` wakes any one waiter,
`pthread_cond_wait` may return for nothing (`SpuriousWakeup`). Every system or
device call that can fail may fail, `MaxFaults` times in a run. A send to a
disabled device fails and is not counted. `read` may fail as well as reach the end
(`ServerReadFails`). When an initialization fails the process does not end at once:
the player is at `"exit"`, with `audio_buffer` already NULL if it was `malloc` that
failed (`PlayerMallocFails`), and the server runs until `PlayerExits`.
`CrashOnlyWithoutBuffer` says that this and the time before the first `malloc` are
the only two in which the server can write through NULL.

That enabling an enabled channel empties its queue is not in the vendor's
header: it is what the comment at `output_server.c:77` observes.

`SingleSource` is the promise. Its `owner` is `active_client_sock` and its
`heard` is `played`; chunks may be lost, and filler may be sent while somebody
owns the output.

### Shutdown

The handlers of SIGINT and SIGTERM run on the main thread, which sits in
`pthread_join`. `stack` holds the handlers entered and not left; only the
innermost one runs. `hpc` gives each its place in `perform_cleanup`. The
handler's steps go in between those of the two threads, which go on until
`exit`. The build is the Makefile's default, musl, where destroying a mutex or
condition variable that is in use has no effect; under another C library line 96
would be undefined behaviour.

The handler also deletes the configuration (`HandlerDelete`, `HandlerRoot`; the
mutex is recursive, so a handler nested in another may delete it twice,
`HandlerDoubleDelete`). The threads fetch items under that mutex and use them
after it: `Reading` is where they may hold some, `stale` who holds items that are
freed, and `UseFreed` the crash. `Document` is `config_root` when the threads
start. `IdleShutdownIsClean` therefore excepts a player that is initializing the
device. The capture half has the same window in its own initialization; `Config`
has it for every thread (`Dangling`, `UseCrashes`).

### AudioInput

`client_list` is the list, head first; `current[r]` is the place in it of record
thread `r`, which is named after the connection it was started for but writes to
all. The socket buffer of a connection holds `SockBuf` frames; then `write`
blocks, with the lock. A `write` may fail for any reason, and the client is
unlinked whatever it was (`WriteFails`, `Unlink`).

When `pthread_create` fails the node is freed and its socket closed, but the list
keeps the node; `dangling` holds it from then on. The next `accept` may open the
same descriptor and the next `malloc` return the same memory, so what a thread
finds there is open (`WriteFreed`): it may crash, remove the node, send the frame
to somebody who has had it, and go on anywhere, at the head again or past the
end. A client can then be sent a frame twice (`MCFrameOnce`), and what capture
promises it promises as long as the list is `Intact`. `RecorderSurvives` holds all
the same.

The second argument of `IMP_AI_GetFrame` is 1000, neither
`BLOCK` nor `NOBLOCK`, so a thread that lost the frame it had polled may wait or
fail; both are modelled.

`Broadcast` is the promise: frames go out in rounds, one round per frame and one
after the other; nobody joins during a round, and it ends when everybody who had
joined has been sent the frame or could not be written to. Its `joined` is the
list, a round is a pass over it, and `todo` what lies ahead of the thread that
walks. Once it is `broken`, which here is `~Intact`, it promises nothing.
`FrameOrder` says what is left of the order of frames when several threads race
for the lock: all clients see the same one, and it is that of the device while
there is one thread.

### SingleInstance

A process opens the PID file once, so a file is named after the process that
created it, and lives on when removed. `atexits` counts the registrations of
`remove_pid_file`, which a forked child inherits although it does not inherit
the lock.

### Config

A JSON node is a record with its type, its `valueint`, its `valuestring` and its
items, so that reading the wrong member of a union is visible. `Starts` is how
the program may be started: a command line and the file at each path the
configuration may be read from; `daemonize` moves to `/`, which changes what a
relative path means. `ValidateCrashes` is line 200 of `config.c`, where the
index of a loop over the AI table is used on the shorter AO table. `accepted` is
a history variable: `main` prints a message and goes on, whatever
`validate_json` says.

Reading a setting is two steps, `Fetch` and `Initialize`: the code looks an item
up under `config_mutex` and dereferences it after giving the mutex up. `Signal`,
in any thread, deletes the document in between; what is then read is any member
of `FreedMemory`, or the thread crashes (`UseCrashes`). `UpdateSocketPaths`
copies all names, unlocked, in each of three threads, except those whose `strdup`
fails (`NameRead`); `Truncated` gives what 32 bytes hold of a name. An abstract
socket name can be bound once.

`Volume` is the volume code of the two initializations and `ConnectionVolume` its
copy in `enable_output_channel`, which every connection runs (`SetVolume`);
`Reinitialize` is what follows a failed frame. `SetVol` and `SetGain` may fail and
the code goes on: `Given` then leaves the device the SDK's own value (NULL). The
rest of a connection is `Receive`, or `ReceiveCrashes` if there is no buffer yet or
`frame_size` is more than `StackSize`, the room the server's stack has for an array
of it (128K for a thread of musl).

### ControlServer

One connection is served at a time: read a request, answer, close. A request is
a record with its type, as `handle_control_client` tells them apart by length
and prefix. `Shown` is `snprintf` of an int into ten bytes, by arithmetic: of a
number of more than nine characters the last ones are missing. The words of a
request fit the 100 bytes `sscanf` reads them to, as `WordsFit` assumes; no client
of the repository sends longer ones. `Leftovers` are
the values an uninitialized string may parse as, when `SET` has no value. The
only step that needs `audio_buffer_lock` is the look at `active_client_sock`.

### AudioDaemon

Everything that takes `audio_buffer_lock` at once: output server, player, input
server, record threads, control server, with `iac` processes at the other ends.
Each half is modelled at the grain of that lock and without contents (slot full
or empty, number of writes in a socket), since the detail is in `AudioOutput`
and `AudioInput`; the two steps in which a thread keeps the lock over a call
that may block are states of their own: `ppc = "send"` and `rpc[c] = "write"`.
Failures that change what the others see are steps: `PlayerFails` leaves the
chunk in the slot and gives the lock up, `DeviceDrops` empties the device,
`OutputReadFails` gives up a connection that still holds chunks, after which its
`iac` cannot write (`IacLost`), `RecorderWriteFails` unlinks a recorder that is
still there, `InputDrops` closes a connection for want of memory, `RecorderEnds`
ends a thread.

That this is all the halves do is itself checked. `AudioOutput` and `AudioInput`
instantiate `AudioDaemon` with expressions over their own variables
(`Daemon == INSTANCE AudioDaemon WITH ...`), the other half and the control
server standing still: a connection is `queued` until the server has the lock
for it, the lock is held where it is held between two steps of `AudioDaemon`
(over `SendFrame`, over a walk), a record thread is there once its node is in
the list. `PlaybackAsInDaemon` and `CaptureAsInDaemon` then say that every step
of a thread of `iad` is one `AudioDaemon` has, or changes nothing it sees. They
are about the threads and the device only; the clients of `AudioDaemon` are
`iac` processes, which do less than any client may. The exception is
`ServerSpawnFails`: the freed node it leaves in the list is in `AudioInput` only.
An `iac` parses its options, asks, waits for the answer, connects whatever the
answer is, plays or records, and may be gone at any moment (`IacQuits`). The
request it writes on the data socket is the first chunk the output server reads
from it.

### WebClient

A libwebsockets loop calls one callback after the other; `Blocking` are the
states in which a callback sits in `connect` or `write` and no other runs.
`stage` is where each WebSocket or request is; the library's promise about the
order of its callbacks is external. `room` is what `audio_buffer` really holds,
`audio_buffer_size` what the code believes. `iad` is external here: `conns` are
the connections made to its output in their order, `head` the one it serves,
`other` those of other clients; it may not run, stop and start again.

### Standalone

One of two programs runs. `audioplay` sends a file and flushes; `audio_daemon`
has the structure of `iad`'s playback half, with differences that matter: both
threads wait on one condition variable, a frame that could not be sent stays in
the slot while the device is initialized again, and the end of a client wakes
everybody. The device keeps a queue and the history of what was heard. The lock
is not a variable: it is held in a state another thread can see only in
`SendFrame`, and `Unlocked` says so.

## Runs

| Run | Instance | States | Shows |
|---|---|---|---|
| `playback` | 2 clients (symmetric), 2 chunks each, no backlog but the one that waits, device queue of 2, 2 faults | 314,456 | `OneSourceAtATime` (the refinement), `PlaybackAsInDaemon`, `ServerNeverWaits`, `NoLostWakeup`, `NoOldAudio`, `FillerOnlyInRaces`, `CrashOnlyWithoutBuffer` |
| `playback_live` | 2 clients, 1 chunk, queue of 1, 1 fault, fair | 32,116 | `SlotEmpties`, `QueuedServed` |
| `shutdown` | 1 client, 2 chunks, 1 signal, 2 faults, a document, fair handler | 363,922 | `SignalEndsProcess`, `IdleShutdownIsClean` |
| `capture` | 3 clients (symmetric), 2 frames, socket buffer of 1, 1 fault | 1,732,147 | `FramesInRounds` (the refinement), `FrameOrder`, `NoFrameTwice`, `PassComplete`, `RecorderSurvives` |
| `capture_live` | 2 clients that read, 2 frames, 1 fault, fair | 166,226 | `CaptureFlows`, `CaptureAsInDaemon` |
| `single_instance` | 3 processes, fair | 138,492 | `OneUntilRemoved`, `OneInstancePerFile`, `StartsAgain` |
| `config` | the shipped `config/iad.json` and 100-odd documents with one defect each; every command line of one and two options; 1 fault | 1,712,161 | `AcceptedCrashesOnConnection`, `SettingsInRange`, `DisabledStaysOff`, `NamesServe`, `VolumeKept` |
| `daemon` | 2 `iac`s, 1 other caller of the control socket, buffers of 1 | 989,135 | `StuckOnOthers` |
| `daemon_live` | 2 `iac`s, fair | 43,017 | `Served` |
| `web` | 2 browsers, 2 POSTs, 1 other client, fair | 948,774 | `HeldForSomeone`, `CrashOnlyOutOfMemory`, `CutOffOnlyByPost`, `OthersServed` |
| `standalone` | a file or 2 clients of 3 frames, 1 fault, fair | 43,440 | `HeardInOrder`, `NothingDiscarded`, `FilePlayed`, `BufferHeard` |

One run states what the repository says and the code does not do:

| Run | Says | Happens |
|---|---|---|
| `one_instance` | `iad.c:51`, only one instance runs | the PID file is removed by name, before the lock goes, even when it is another's |

Seven more configurations each end in a counterexample of the same kind. They are
not among the runs, but for anybody to try:

| Configuration | Module | Says | Happens |
|---|---|---|---|
| `MCSourceHeard` | `MCAudioOutput` | README.md:30, queued playback from multiple sources | the last chunk of a source is dropped when it closes before the player has run: a short source may not be heard at all |
| `MCNotCutOff` | `MCAudioOutput` | `output_server.c:112`, clearing cuts small files off and is disabled | line 79 clears just the same when the next client is served |
| `MCDeviceStaysOff` | `MCShutdown` | `utils.c:93`, cleanup restores the initial state | the player takes the disabled device for an error and turns it on again |
| `MCSecondSignal` | `MCShutdown` | `utils.c:124`, the daemon exits gracefully | the second handler waits for a mutex the first one holds on the same thread |
| `MCSocketsReleased` | `MCAudioInput` | `input.c:119`, acquired resources are released | the socket of a lost client is never closed |
| `MCFrameOnce` | `MCAudioInput` | `input.c:119`, errors are handled gracefully | after `pthread_create` has failed the freed node leads back to the head, or its descriptor is somebody else's |
| `MCRejected` | `MCConfig` | `iad.c:71`, after an invalid configuration iad continues with default settings | what was read stays in use, and no default replaces it |

`MCSilentAsker.cfg` (module `MCAudioDaemon`) has a property that holds: `Served`
for one `iac` beside a client of the control socket that may stay silent as long
as it likes but not for ever. `daemon_live` has two `iac`s and no such client; the
two together have the state space of `daemon`, too large for a liveness check.

### Bounds

In `playback` two clients are an owner and one that waits for it or comes after
it; two chunks so that one can be overwritten and order can be violated; a device
queue of two so that one frame can be old and one new; two faults because a
reinitialization starts with one failure and its `malloc` may be the second, which
is how a daemon that has played crashes. In `shutdown` one client is enough for a
daemon that is idle or not, and two faults for a signal during a reinitialization
that fails. In `capture` one fault is any one call; what a second adds is in the
theorems, which have any number. Its CONSTRAINT stops where `pthread_create` has
failed, since none of its properties promises anything from there on;
`capture_live` goes on. Three capture
clients allow a removal at the head, in the middle and at the tail of the list;
two frames let two threads hold one each. Two are enough for
`CaptureAsInDaemon`, which looks at one step at a time: one that walks, and one
that is registered, lost or waits. Three processes are an instance, one that
leaves and one that enters, or a parent, its child and a rival. `ListenBacklog`
stands for 5; at 0 or 1 the queue is full within the instance. The written,
captured and failed counters are bounded by constants in the guards of `Write`,
`Capture` and `Fail`, and `RoomInHistory` bounds what a damaged list can make the
record threads send.

The code treats each item of a configuration by itself, so one defect at a time
(missing, of another type, at a limit and just beyond it) reaches every test in
it; two socket names equal in their first 31 characters need two items and are
in the instance. `frame_size` is negative, zero, the most the stack
holds, and more. Two `iac`s are a player and a recorder, two recorders, or two
players, and with buffers of one both blocking calls do block. Two browsers and
two POSTs let one close what another streams on; lengths one and two with an
initial buffer of one reach both sides of `realloc`. Three frames of the old
daemon are one in the device, one in the slot and one being read.
`CommandLines`, `MaxChunks`, `MaxMessages`, `MaxFaults`, `MaxWrites` and
`MaxFrames` are the bounds by name.

`CHECK_DEADLOCK FALSE` where the system stops: the process may end or crash, and
clients may have nothing more to do.

### Fairness

A thread that can run runs, and a thread that keeps finding a mutex free gets it
in the end: strong fairness of each thread's next step, because the other thread
takes the mutex again and again between two attempts. The player runs under
`SCHED_FIFO` but blocks in every round, so it does not starve the others.
Spurious wakeups are not fair, and a failure never is: a fair step leaves `faults`
alone, so that nothing goes on only because a call has to fail in the end. An
enabled AO device plays its queue. Clients owe
nothing: `QueuedServed` has "every client closes" as its premise, and
`capture_live` runs under `ReadingSpec`, in which clients read what they are
sent, since a client that does not read stops the daemon (`input.c:155`);
`CaptureFlows` promises nothing after a failed call.

In `AudioDaemon` each thread gets the lock now and then (strong fairness), a
device plays and an `iac` goes on (weak); another process on the control socket
hangs up in the end, since the server waits for it without a timeout. In
`WebClient` a blocking call returns when it can, `iad` reads and serves, and a
browser, a request and another client come to an end one way or the other, which
is what the kernel reports for a peer that is gone. In `Standalone` the device
and `audioplay` go on, server and player get the lock now and then; clients owe
nothing.

## Proofs

Each theorem holds for every value of the constants that its module's named
assumptions allow: any number of clients, chunks, frames, processes, documents
and failures. Most properties are not inductive; each proof module has the
inductive invariant from which they follow, one lemma per thread or group of
conjuncts with one step per action, and a last step with PTL.

`AudioOutputProofs`, from `NoClientAssumption` and `BoundsAssumption`: `TypeOK`
(which no run repeats) and every safety property of the run `playback`. Two
invariants build on each other:

* `ControlInv`: who holds the lock where (`LockOwned`), that the output belongs
  to the accepted client from the claim to the release (`OutputOwned`), which is
  why the server finds it free whenever it takes the lock; that only the player
  sleeps, on an empty buffer (`Sleepers`); at which places of the server the
  slot can be full or a frame be under way (`SlotFilled`), so that line 84 never
  meets a frame being sent;
* `DataInv`: the slot holds filler or an earlier chunk of the current client
  (`BufferHolds`); what was played had been read (`PlayedWasRead`); what is
  still to be sent is newer than all that was played of the same client
  (`SlotFresh`). The last one is what the unlocked wipe could break and does
  not: it replaces the chunk by silence, never by an older chunk.

`IInv` is `TypeOK` with both. `StartInv` adds that nothing is past the first
memset before the first `malloc` (`NotAllocatedYet`) and that the end of a
reinitialization has two failures behind it (`FailuresBehind`); it gives
`CrashOnlyWithoutBuffer` and is apart because a signal handler breaks it. `SendRefines` and `StepRefines` map
`PlayerSend` to `Hear` or `Fill`, `ServerLock` to `Acquire` or a stutter,
`ServerRelease` to `Release` and everything else to a stutter. `RaceInv` says
where silence can be on its way (`SilenceInRaces`) and charges each garbage
frame, heard or due, to a failure of its own (`FailureCounted`):
`FillerOnlyInRaces` follows. `NoOldAudio` needs that what the device has queued
after an enable was sent by the present client. `PlaybackInDaemon` maps
`ServerLock` to `OutputTakes`, `ServerRead` to `OutputReads`, `ServerPublish` to
`OutputPublishes`, `ServerEmpty` to `OutputEnds`, `ServerRelease` to
`OutputReleases`, `PlayerCheckFull` to `PlayerTakes`, `PlayerSend` to
`PlayerSends`, `PlayerSendFails` to `PlayerFails`, `PlayerDisable` and
`ServerEnable` to `DeviceDrops`, `ServerReadFails` to `OutputReadFails`, and the
rest to stutters. It rests on `IInv`,
that line 84 finds the slot empty for one, and on `ReadAll`: once `read` has
returned 0 the connection is at its end and stays there.

`ShutdownProofs`, about any set of signals: a handler's step takes no buffer
lock, publishes nothing and leaves filler (`HandlerFrame`), hence keeps `IInv`
(`FrameKeeps`) and maps to a stutter. So `ShutdownTypeOK` and the refinement
hold up to the end of the process; no run repeats them. `IdleShutdownIsClean` is proved under the
assumption that there is one signal, as in the run: a second handler may free
the buffer or the document twice. Its invariant has to know who can be reading
what was freed: only threads at a place of `Reading` are `stale`, and only once
the handler has deleted the document (`StaleReaders`).

`AudioInputProofs`, from `NamesAssumption` and `BoundsAssumption`: `TypeOK`
(which no run repeats), every safety property of the runs `capture` and
`capture_live`, and the refinement. All but `TypeOK` and `RecorderSurvives` say
what holds as long as the list is `Intact`, and the invariants below are under that
condition (`Kept`): a step that damages the list makes the claim empty, and nothing makes
the list whole again. `CaptureInv` says that a connection is
queued, accepted, listed and served in this order and once (`Sockets`), that the
lock belongs to who walks the list (`Passes`), and that a frame has one holder
and is new to every connection he has still to visit (`Frames`), which removing
a node anywhere does not disturb. `Survivor` strengthens
`RecorderSurvives`: the thread that is left is not one that has lost its frame
to another. `FrameOrder` is not inductive: `OrderInv` adds that a connection not
yet listed has been sent nothing (`NothingYet`), that what the walking thread
sends is the last frame of everybody it has served (`SentLast`), and that a
thread that is alone holds the newest frame (`HoldsNewest`). From the two,
`CaptureRefinement` maps `GetFrame` to `Fetch`, `RecorderLock` to `Begin`,
`Write` to `Deliver`, `Unlink` to `Leave`, `RecorderUnlock` to `End`,
`ServerRegister` to `Join` and all else to a stutter. That `Join` and `End` need
the list to be free, and `Leave` only removes who is due next, is where the lock
and the arithmetic of the list matter. `CaptureInDaemon` maps `ServerRegister` to
`InputRegisters`, which starts the thread as well, `ServerSpawn` and the steps
of a thread from one walk to the next to stutters, `PollFails` and
`GetFrameFails` to `RecorderEnds`, and each step of a walk to its own; `Sockets`
gives that a connection about to get its thread has none.

`SingleInstanceProofs`, from `NoFileAssumption`, for any set of processes: every
safety property of the run. The invariant adds that a process past `lockf` holds
the lock of the file it has open and one before it holds none (`LockHeld`), who
has registered `remove_pid_file` (`Registered`) and that without removals every
open file is the PID file (`OneFile`).

`ConfigProofs`, from `ConfigAssumption` and `DocumentAssumption` (numbers are
integers, names have a truncation), for any documents, command lines and
contents of freed memory: every property of the run `config`. `ConfigInv` says
what a thread has left behind at each place of `main` (`Stages`), that until the
document is freed what a thread is about to read is the document's (`Reads`),
that the device has the volume and the buffer the document gives, or none where
`SetVol` failed (`OutputSettings`; both copies of the volume code give the same),
that an accepted document is a valid one (`Accepted`), and that by the time a
server binds each name is the document's, or the default after a failure
(`NamesRead`). `AcceptedCrashesOnConnection` follows because `ReceiveCrashes` is
then the one crash left.

`AudioDaemonProofs`, from `ControlAssumption` and `DaemonAssumption`: `TypeOK`,
which says that the lock belongs to exactly the thread that is in the middle of
a frame or of a walk. It needs that walks stay inside the list and that a
connection is new wherever it is appended (`NewOnes`). `StuckOnOthers` says for
each place where a thread of `iad` waits that it does not wait for `iad`: who
holds the lock goes on (`HolderGoesOn`) or is in a call for a full device or a
recorder that does not read; `recv` waits for a client that has not been
answered (`ControlLine`), `read` for a player, connected or gone (`DataLines`:
recorders and players are never mixed up, although `iac` opens their sockets
after the control connection is over). `ShownThm` gives the integers for which
GET answers what SET stored.

`WebClientProofs`, from `WebAssumption`: every safety property of the run `web`.
`Held` covers the state in which `connect` blocks, `Memory` what `main` finds
before `malloc`.

`StandaloneProofs`, from `StandaloneAssumption`: every safety property of the
run `standalone`. `FileOrder` gives where each frame of a file is; `Connections`
that a connection holds the frames written and not read and is queued once;
`StreamTidy` that in what was heard, is queued and is in the slot no frame
follows one of the served client but another of it.

Only model-checked: liveness (`SlotEmpties`, `QueuedServed`,
`SignalEndsProcess`, `CaptureFlows`, `StartsAgain`, `Served`, `OthersServed`,
`BufferHeard`), which is out of the prover's reach. Every safety property a
passing run checks is stated by a theorem.

## Not modelled

* The bytes of audio, sample formats and gain curves: no state depends on them.
* `pause`, `resume`, `flush` and `clear` of `audio_common.c`,
  `get_network_config`: nothing calls them; `mute` is called from `output.c:202`
  and has no effect on the queue.
* `audio_imp.c` (noise suppression, filters, gain control): never called.
* The control connection, the request and the playback of
  `web_client/web_client_src`: no caller. Its PID file code is a copy of
  `iad`'s.
* `wc-console`: one callback that prints and keeps no state. Logging: text.
* The vendor's headers and the browser examples: declarations and pages. The
  device and the browsers are modelled as this code uses them.
* Of the standalone programs the Makefile builds only `audioplay`;
  `audio_daemon` would not link, its `handle_audio_error` being commented out.
  The model is what its source says.

* What a freed node, item or buffer reads as beyond what the sections above name:
  a crash, a failing call or any value of the model stand for it. What a stack
  overflow does but crash, and a socket name half copied.
* The initialization of the capture device at the moment a signal deletes the
  document is in `Config`, not in `Shutdown`.
* Requests on the control socket with a word of 100 characters or more
  (`WordsFit`).

## What remains

* `AudioDaemon` with the consequences of `pthread_create` failing, which
  `CaptureAsInDaemon` leaves to `AudioInput`.
* Memory and descriptors as resources: what leaks is named in the hazards.
