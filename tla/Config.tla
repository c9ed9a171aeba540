-------------------------------- MODULE Config --------------------------------
(***************************************************************************)
(* How iad starts and configures itself (iad/iad.c, utils/cmdline.c,       *)
(* utils/config.c, the getters of audio/audio_common.c and the device      *)
(* initialization of audio/output.c and audio/input.c): the command line,  *)
(* the JSON file, its validation, the threads that are started, and what   *)
(* each of them reads from the document, while a signal may free it.       *)
(*                                                                         *)
(* A JSON node is a record with its type, its valueint (0 unless it is a   *)
(* number, or 1 for true), its valuestring (NULL unless it is a string)    *)
(* and its items.  A name stands for a string of any length; Truncated     *)
(* gives its first 31 characters.                                          *)
(***************************************************************************)
EXTENDS Integers, Sequences

CONSTANTS
    NULL,
    Documents,    \* the documents cJSON_Parse may return a pointer to
    Content,      \* the root node of each
    NoDocument,   \* no file, an empty one, one that is not JSON
    Starts,       \* how the program is started: argv and the files it may find
    Truncated,    \* what is left of a socket name in a buffer of 32
    FreedMemory,  \* what the items of a freed document may read as
    StackSize,    \* the largest array the stack of the output server holds
    MaxFaults     \* bound: failing calls

Threads == {"control", "input", "output", "play"}
Servers == {"control", "input", "output"}
Halves  == {"AI", "AO"}

\* What each half reads of its section (get_audio_input_attributes,
\* get_audio_attributes and config_get_ao_frame_size).
Keys == {"sample_rate", "bitwidth", "soundmode", "frmNum", "chnCnt", "SetVol",
         "SetGain", "usrFrmDepth", "frame_size"}

OptionWords == {"-c relative", "-c absolute", "-d AI", "-d AO", "-d other", "-r",
                "-h", "-?"}

ASSUME ConfigAssumption ==
    /\ NULL \notin Documents \cup DOMAIN Truncated \cup Threads \cup {"main"}
    /\ NoDocument \cap Documents = {}
    /\ DOMAIN Content = Documents
    /\ \A s \in Starts :
           /\ s.argv \in Seq(OptionWords)
           /\ s.disk \in [{"absolute", "start", "/"} -> Documents \cup NoDocument]
    /\ FreedMemory \subseteq [Keys -> Int]
    /\ \A n \in DOMAIN Truncated : Truncated[n] \in DOMAIN Truncated
    /\ {"ingenic_audio_control", "ingenic_audio_input", "ingenic_audio_output"}
           \subseteq DOMAIN Truncated
    /\ StackSize \in Nat
    /\ MaxFaults \in Nat

VARIABLES
    argv,         \* the options getopt has still to return
    options,      \* CmdOptions
    disk,         \* the file at each path the configuration may be read from
    cwd,          \* the working directory
    pc,           \* of main
    config_root,
    accepted,     \* history: validate_json returned 1
    names,        \* AUDIO_*_SOCKET_PATH
    thread,       \* where each thread is
    items,        \* the nodes a thread has fetched and not yet read
    bound,        \* the name each server thread has bound
    device,       \* the settings each half's device was given
    handler,      \* the thread that runs handle_sigint after config_cleanup
    proc,
    faults        \* bound: failing calls so far

startVars  == <<argv, options, disk, cwd>>
loadVars   == <<config_root, accepted>>
threadVars == <<names, thread, items, bound, device>>
vars == <<startVars, pc, loadVars, threadVars, handler, proc, faults>>

DefaultName == [control |-> "ingenic_audio_control", input |-> "ingenic_audio_input",
                output |-> "ingenic_audio_output"]

Init ==
    /\ \E s \in Starts : argv = s.argv /\ disk = s.disk
    /\ \E path \in {"absolute", "relative"} :   \* the latter if readlink fails
           options = [config_file_path |-> path, disable_ai |-> FALSE,
                      disable_ao |-> FALSE, daemonize |-> FALSE]
    /\ cwd = "start"
    /\ pc = "getopt"
    /\ config_root = NULL
    /\ accepted = FALSE
    /\ names = DefaultName
    /\ thread = [t \in Threads |-> "off"]
    /\ items = [t \in Threads |-> NULL]
    /\ bound = [t \in Servers |-> NULL]
    /\ device = [h \in Halves |-> NULL]
    /\ handler = NULL
    /\ proc = "running"
    /\ faults = 0

MainGoes(from, to) ==
    /\ pc = from /\ pc' = to
    /\ handler # "main"

Goes(t, from, to) ==
    /\ thread[t] = from /\ thread' = [thread EXCEPT ![t] = to]
    /\ handler # t

Ends(how) == proc' = how

Fail == faults < MaxFaults /\ faults' = faults + 1

\* A handler in which the calls in failed fail.
MayFail(failed) == IF failed = {} THEN UNCHANGED faults ELSE Fail

-------------------------------------------------------------------------------
(***************************************************************************)
(* parse_cmdline and the rest of the start.                                *)
(***************************************************************************)
Parsed(o, word) ==
    CASE word = "-c relative" -> [o EXCEPT !.config_file_path = "relative"]
      [] word = "-c absolute" -> [o EXCEPT !.config_file_path = "absolute"]
      [] word = "-d AI"       -> [o EXCEPT !.disable_ai = TRUE]
      [] word = "-d AO"       -> [o EXCEPT !.disable_ao = TRUE]
      [] word = "-r"          -> [o EXCEPT !.daemonize = TRUE]

Option ==
    /\ MainGoes("getopt", "getopt")
    /\ argv # <<>> /\ Head(argv) \notin {"-d other", "-h", "-?"}
    /\ options' = Parsed(options, Head(argv))
    /\ argv' = Tail(argv)
    /\ UNCHANGED <<disk, cwd, loadVars, threadVars, handler, proc, faults>>

OptionRefused ==
    /\ MainGoes("getopt", "over")
    /\ argv # <<>> /\ Head(argv) \in {"-d other", "-h", "-?"}
    /\ Ends("exited")
    /\ UNCHANGED <<startVars, loadVars, threadVars, handler, faults>>

\* daemonize changes to "/" before the configuration is looked for.
Daemonize ==
    /\ MainGoes("getopt", "load")
    /\ argv = <<>>
    /\ cwd' = IF options.daemonize THEN "/" ELSE cwd
    /\ UNCHANGED <<argv, options, disk, loadVars, threadVars, handler, proc, faults>>

\* fork or setsid fails, or is_already_running returns 1.
StartRefused ==
    /\ MainGoes("getopt", "over")
    /\ argv = <<>>
    /\ Fail /\ Ends("exited")
    /\ UNCHANGED <<startVars, loadVars, threadVars, handler>>

-------------------------------------------------------------------------------
(***************************************************************************)
(* cJSON.                                                                  *)
(***************************************************************************)
\* cJSON_GetObjectItemCaseSensitive, which answers NULL for a NULL object.
Item(object, key) ==
    IF object # NULL /\ key \in DOMAIN object.items THEN object.items[key] ELSE NULL

Is(type, node) == node # NULL /\ node.type = type

network_keys == [control |-> "audio_control_socket_path",
                 input   |-> "audio_input_socket_path",
                 output  |-> "audio_output_socket_path"]

get_audio_config ==
    IF config_root = NULL THEN NULL ELSE Item(Content[config_root], "audio")

Section(audio, half) ==
    Item(audio, IF half = "AI" THEN "AI_attributes" ELSE "AO_attributes")

get_audio_attribute(half, key) == Item(Section(get_audio_config, half), key)

\* valueint is an int, and Truncated covers the socket names of the documents.
ASSUME DocumentAssumption ==
    \A d \in Documents :
        LET audio == Item(Content[d], "audio") IN
        /\ \A h \in Halves, k \in Keys :
               LET item == Item(Section(audio, h), k)
               IN item # NULL => item.int \in Int
        /\ \A t \in Servers :
               LET item == Item(Item(audio, "network"), network_keys[t])
               IN Is("string", item) => item.str \in DOMAIN Truncated

-------------------------------------------------------------------------------
(***************************************************************************)
(* config_load_from_file and validate_json.                                *)
(***************************************************************************)
FileFound ==
    disk[IF options.config_file_path = "relative" THEN cwd ELSE "absolute"]

Load ==
    /\ MainGoes("load", "validate")
    /\ FileFound \in Documents
    /\ config_root' = FileFound
    /\ UNCHANGED <<startVars, accepted, threadVars, handler, proc, faults>>

\* Not there, empty or not JSON; or calloc or fread fails.
LoadFails ==
    /\ MainGoes("load", "enable")
    /\ \/ FileFound \in NoDocument /\ UNCHANGED faults
       \/ FileFound \in Documents /\ Fail
    /\ UNCHANGED <<startVars, loadVars, threadVars, handler, proc>>

ao_attributes == <<
    <<"enabled", "bool">>, <<"device_id", "number">>, <<"channel_id", "number">>,
    <<"sample_rate", "number">>, <<"frmNum", "number">>, <<"bitwidth", "string">>,
    <<"soundmode", "string">>, <<"chnCnt", "number">>, <<"SetVol", "number">>,
    <<"SetGain", "number">>, <<"Enable_Agc", "bool">>, <<"AGC_attributes", "object">>,
    <<"Enable_Hpf", "bool">>, <<"HPF_attributes", "object">> >>

ai_attributes == <<
    <<"enabled", "bool">>, <<"device_id", "number">>, <<"channel_id", "number">>,
    <<"sample_rate", "number">>, <<"frmNum", "number">>, <<"bitwidth", "string">>,
    <<"soundmode", "string">>, <<"chnCnt", "number">>, <<"SetVol", "number">>,
    <<"SetGain", "number">>, <<"SetAlcGain", "number">>, <<"Enable_Ns", "bool">>,
    <<"Level_Ns", "number">>, <<"Enable_Hpf", "bool">>, <<"EnableAec", "bool">>,
    <<"Enable_Agc", "bool">>, <<"AGC_attributes", "object">> >>

\* Mutant: a string is asked for by its key only.
HaveAnyString(object, attributes) ==
    \A a \in attributes :
        Item(object, a[1]) # NULL /\ (a[2] = "string" \/ Is(a[2], Item(object, a[1])))

Have(object, attributes) ==
    \A a \in attributes : Is(a[2], Item(object, a[1]))

Attributes(table, first, last) == {table[i] : i \in first .. last}

ValidAgc(section) ==
    Have(Item(section, "AGC_attributes"),
         {<<"TargetLevelDbfs", "number">>, <<"CompressionGaindB", "number">>})

ValidAO(audio) ==
    LET section == Section(audio, "AO") IN
    /\ Is("object", section)
    /\ Have(section, Attributes(ao_attributes, 1, 14))
    /\ ValidAgc(section)
    /\ Have(Item(section, "HPF_attributes"), {<<"SetHpfCoFrequency", "number">>})

\* The part of the AI table that is checked without harm: from its fifteenth
\* entry on, line 200 reads ao_attributes past its end.
ValidAIStart(audio) ==
    LET section == Section(audio, "AI") IN
    Is("object", section) /\ Have(section, Attributes(ai_attributes, 1, 15))

validate_json(audio) ==
    /\ Is("object", audio)
    /\ ValidAO(audio)
    /\ ValidAIStart(audio)
    /\ Have(Section(audio, "AI"), Attributes(ai_attributes, 16, 17))
    /\ ValidAgc(Section(audio, "AI"))
    /\ Is("object", Item(audio, "network"))
    /\ \A t \in Servers : Is("string", Item(Item(audio, "network"), network_keys[t]))

\* A rejected document stays where it is and is used.
Validate ==
    /\ MainGoes("validate", "enable")
    /\ accepted' = validate_json(get_audio_config)
    /\ UNCHANGED <<startVars, config_root, threadVars, handler, proc, faults>>

\* What lies behind the table is no pointer to a string.
ValidateCrashes ==
    /\ MainGoes("validate", "over")
    /\ ValidAO(get_audio_config) /\ ValidAIStart(get_audio_config)
    /\ Ends("crashed")
    /\ UNCHANGED <<startVars, loadVars, threadVars, handler, faults>>

\* config_get_ai_enabled and config_get_ao_enabled: a missing section is enabled,
\* a section without the key is not.
Enabled(half) ==
    LET section == Section(get_audio_config, half)
        enabled == Item(section, "enabled")
    IN section = NULL \/ (Is("bool", enabled) /\ enabled.int = 1)

Decide ==
    /\ MainGoes("enable", "control")
    /\ options' = [options EXCEPT !.disable_ai = @ \/ ~Enabled("AI"),
                                  !.disable_ao = @ \/ ~Enabled("AO")]
    /\ UNCHANGED <<argv, disk, cwd, loadVars, threadVars, handler, proc, faults>>

-------------------------------------------------------------------------------
(***************************************************************************)
(* The threads main creates, in this order.                                *)
(***************************************************************************)
After == [control |-> "input", input |-> "output", output |-> "play", play |-> "join"]

\* Mutant: the play thread is started whatever the options are.
DisabledServers(t) ==
    \/ t = "input" /\ options.disable_ai
    \/ t = "output" /\ options.disable_ao

Disabled(t) ==
    \/ t = "input" /\ options.disable_ai
    \/ t \in {"output", "play"} /\ options.disable_ao

\* Where each thread function begins.
FirstStep == [control |-> "paths", input |-> "fetch", output |-> "paths", play |-> "fetch"]

Create(t) ==
    /\ MainGoes(t, After[t])
    /\ ~Disabled(t)
    /\ thread' = [thread EXCEPT ![t] = FirstStep[t]]
    /\ UNCHANGED <<startVars, loadVars, names, items, bound, device, handler, proc, faults>>

DoNotCreate(t) ==
    /\ MainGoes(t, After[t])
    /\ Disabled(t)
    /\ UNCHANGED <<startVars, loadVars, threadVars, handler, proc, faults>>

\* pthread_create fails: main returns 1, which ends the threads there are.
CreateFails(t) ==
    /\ MainGoes(t, "over")
    /\ ~Disabled(t)
    /\ Fail /\ Ends("exited")
    /\ UNCHANGED <<startVars, loadVars, threadVars, handler>>

-------------------------------------------------------------------------------
(***************************************************************************)
(* The device settings.                                                    *)
(***************************************************************************)
HalfOf(t) == IF t = "input" THEN "AI" ELSE "AO"

\* get_audio_attribute for every key: pointers into the document.  The mutex is
\* given up before they are read.
Fetch(t) ==
    /\ Goes(t, "fetch", "use")
    /\ items' = [items EXCEPT ![t] = [k \in Keys |-> get_audio_attribute(HalfOf(t), k)]]
    /\ UNCHANGED <<startVars, pc, loadVars, names, bound, device, handler, proc, faults>>

\* item->valueint: of a freed document, whatever is there now.
Value(t, freed, key, default) ==
    LET item == items[t][key] IN
    IF item = NULL THEN default ELSE IF handler = NULL THEN item.int ELSE freed[key]

ValidRates == {8000, 16000, 24000, 32000, 44100, 48000, 96000}

InRange(v, low, high, default) == IF v < low \/ v > high THEN default ELSE v

\* The volume code of the two initializations, ...
Volume(t, freed) ==
    LET default == IF t = "input" THEN 100 ELSE 90
    IN InRange(Value(t, freed, "SetVol", default), -30, 120, default)

\* Mutant: a connection falls back on the default of the other half.
VolumeOfInput(freed) == InRange(Value("output", freed, "SetVol", 100), -30, 120, 100)

\* ... and its copy in enable_output_channel.
ConnectionVolume(freed) == InRange(Value("output", freed, "SetVol", 90), -30, 120, 90)

config_get_ao_frame_size ==
    LET frame_size == get_audio_attribute("AO", "frame_size")
    IN IF Is("number", frame_size) THEN frame_size.int ELSE 1280

compute_numPerFrm(rate) == (rate * 40) \div 1000

\* What the half buffers: g_ao_max_frame_size, or usrFrmDepth.
BufferSize(t, freed) ==
    IF t = "input" THEN Value(t, freed, "usrFrmDepth", 40) ELSE config_get_ao_frame_size

\* Mutant: the gain is not looked at.
SettingsAnyGain(t, freed) ==
    LET rate == Value(t, freed, "sample_rate", 48000)
        valid == IF rate \in ValidRates THEN rate ELSE 48000
    IN [samplerate |-> valid,
        numPerFrm  |-> compute_numPerFrm(valid),
        frmNum     |-> Value(t, freed, "frmNum", IF t = "input" THEN 40 ELSE 20),
        buffer     |-> BufferSize(t, freed),
        chnCnt     |-> 1, gain |-> Value(t, freed, "SetGain", 25),
        vol        |-> Volume(t, freed)]

Settings(t, freed) ==
    LET rate   == Value(t, freed, "sample_rate", 48000)
        valid  == IF rate \in ValidRates THEN rate ELSE 48000
        chnCnt == Value(t, freed, "chnCnt", 1)
    IN [samplerate |-> valid,
        numPerFrm  |-> compute_numPerFrm(valid),
        frmNum     |-> Value(t, freed, "frmNum", IF t = "input" THEN 40 ELSE 20),
        buffer     |-> BufferSize(t, freed),
        chnCnt     |-> IF chnCnt > 1 THEN 1 ELSE chnCnt,
        gain       |-> InRange(Value(t, freed, "SetGain", 25), 0, 31, 25),
        vol        |-> Volume(t, freed)]

\* Whether string_to_bitwidth and string_to_soundmode are given a string.
StringsRead(t) ==
    \A k \in {"bitwidth", "soundmode"} : items[t][k] = NULL \/ Is("string", items[t][k])

\* What the thread fetched has been freed under it.
Dangling(t) == handler # NULL /\ \E k \in Keys : items[t][k] # NULL

\* malloc refuses a negative size.
FrameSizeOK == config_get_ao_frame_size >= 0

\* SetVol and SetGain may fail, which is only logged: the SDK's own value stays.
Given(settings, failed) ==
    [settings EXCEPT !.vol  = IF "vol" \in failed THEN NULL ELSE @,
                     !.gain = IF "gain" \in failed THEN NULL ELSE @]

\* initialize_audio_input_device and initialize_audio_output_device.
Initialize(t) ==
    /\ t \in {"input", "play"}
    /\ Goes(t, "use", IF t = "input" THEN "paths" ELSE "play")
    /\ StringsRead(t) \/ Dangling(t)
    /\ t = "play" => FrameSizeOK
    /\ \E freed \in FreedMemory, failed \in SUBSET {"vol", "gain"} :
           /\ device' = [device EXCEPT ![HalfOf(t)] = Given(Settings(t, freed), failed)]
           /\ MayFail(failed)
    /\ items' = [items EXCEPT ![t] = NULL]
    /\ UNCHANGED <<startVars, pc, loadVars, names, bound, handler, proc>>

\* The SDK refuses an attribute, or malloc the frame size: exit(EXIT_FAILURE).
InitializeFails(t) ==
    /\ t \in {"input", "play"}
    /\ Goes(t, "use", "over")
    /\ StringsRead(t) \/ Dangling(t)
    /\ \/ Fail
       \/ t = "play" /\ ~FrameSizeOK /\ UNCHANGED faults
    /\ Ends("exited")
    /\ UNCHANGED <<startVars, pc, loadVars, names, items, bound, device, handler>>

\* strcmp(NULL, ...), or a read of freed memory.
UseCrashes(t) ==
    /\ Goes(t, "use", "over")
    /\ (t \in {"input", "play"} /\ ~StringsRead(t)) \/ Dangling(t)
    /\ Ends("crashed")
    /\ UNCHANGED <<startVars, pc, loadVars, names, items, bound, device, handler, faults>>

\* reinitialize_audio_output_device, when a frame cannot be sent.
Reinitialize ==
    /\ Goes("play", "play", "fetch")
    /\ Fail
    /\ UNCHANGED <<startVars, pc, loadVars, names, items, bound, device, handler, proc>>

\* enable_output_channel, on every connection: it sets the volume again.
Connection ==
    /\ Goes("output", "listen", "fetch")
    /\ UNCHANGED <<startVars, pc, loadVars, names, items, bound, device, handler, proc, faults>>

\* The SDK refuses while the device is not initialized, and may fail otherwise.
SetVolume ==
    /\ Goes("output", "use", "receive")
    /\ \/ /\ device.AO # NULL
          /\ \E freed \in FreedMemory :
                 device' = [device EXCEPT !.AO.vol = ConnectionVolume(freed)]
          /\ UNCHANGED faults
       \/ /\ UNCHANGED device
          /\ (thread.play # "play" /\ UNCHANGED faults) \/ Fail
    /\ items' = [items EXCEPT !.output = NULL]
    /\ UNCHANGED <<startVars, pc, loadVars, names, bound, handler, proc>>

\* The rest of a connection: memset of the buffer, and an array of its size on
\* the stack.
Receive ==
    /\ Goes("output", "receive", "listen")
    /\ device.AO # NULL
    /\ UNCHANGED <<startVars, pc, loadVars, names, items, bound, device, handler, proc, faults>>

\* There is no buffer yet, or the stack overflows.
ReceiveCrashes ==
    /\ Goes("output", "receive", "over")
    /\ device.AO # NULL => device.AO.buffer > StackSize
    /\ Ends("crashed")
    /\ UNCHANGED <<startVars, pc, loadVars, names, items, bound, device, handler, faults>>

-------------------------------------------------------------------------------
(***************************************************************************)
(* The socket names.                                                       *)
(***************************************************************************)
\* config_get_socket_path, for each of the three.
config_get_socket_path(t) ==
    LET item == Item(Item(get_audio_config, "network"), network_keys[t])
    IN IF Is("string", item) THEN item.str ELSE NULL

\* What a server copies: nothing where strdup fails.
NameRead(s, failed) == IF s \in failed THEN NULL ELSE config_get_socket_path(s)

\* Mutant: a name the document does not have is copied all the same.
UpdateUnchecked(t) ==
    /\ Goes(t, "paths", "bind")
    /\ \E failed \in SUBSET Servers :
           /\ names' = [s \in Servers |->
                           IF NameRead(s, failed) = NULL THEN NULL
                           ELSE Truncated[NameRead(s, failed)]]
           /\ MayFail(failed)
    /\ UNCHANGED <<startVars, pc, loadVars, items, bound, device, handler, proc>>

\* Every server thread updates all three names, without a lock: the later ones
\* copy the same bytes over themselves.  A name whose strdup fails stays.
UpdateSocketPaths(t) ==
    /\ Goes(t, "paths", "bind")
    /\ \E failed \in SUBSET Servers :
           /\ names' = [s \in Servers |->
                           IF NameRead(s, failed) = NULL THEN names[s]
                           ELSE Truncated[NameRead(s, failed)]]
           /\ MayFail(failed)
    /\ UNCHANGED <<startVars, pc, loadVars, items, bound, device, handler, proc>>

\* Mutant: every server binds the name of the control server.
BindControl(t) ==
    /\ Goes(t, "bind", "listen")
    /\ \A s \in Servers : bound[s] # names.control
    /\ bound' = [bound EXCEPT ![t] = names.control]
    /\ UNCHANGED <<startVars, pc, loadVars, names, items, device, handler, proc, faults>>

Bind(t) ==
    /\ Goes(t, "bind", "listen")
    /\ \A s \in Servers : bound[s] # names[t]
    /\ bound' = [bound EXCEPT ![t] = names[t]]
    /\ UNCHANGED <<startVars, pc, loadVars, names, items, device, handler, proc, faults>>

\* The name is taken, or another call fails: the thread ends, the others go on.
BindFails(t) ==
    /\ Goes(t, "bind", "over")
    /\ \/ (\E s \in Servers : bound[s] = names[t]) /\ UNCHANGED faults
       \/ Fail
    /\ UNCHANGED <<startVars, pc, loadVars, names, items, bound, device, handler, proc>>

-------------------------------------------------------------------------------
\* SIGINT or SIGTERM, in any thread: perform_cleanup ends with config_cleanup.
Signal(t) ==
    /\ handler = NULL
    /\ IF t = "main" THEN pc # "over" ELSE thread[t] \notin {"off", "over"}
    /\ pc \notin {"getopt", "over"}
    /\ handler' = t
    /\ config_root' = NULL
    /\ UNCHANGED <<startVars, pc, accepted, threadVars, proc, faults>>

HandlerExits ==
    /\ handler # NULL
    /\ Ends("exited")
    /\ UNCHANGED <<startVars, pc, loadVars, threadVars, handler, faults>>

Running(A) == proc = "running" /\ A

MainStep ==
    Running(\/ Option \/ OptionRefused \/ Daemonize \/ StartRefused
            \/ Load \/ LoadFails \/ Validate \/ ValidateCrashes \/ Decide
            \/ \E t \in Threads : Create(t) \/ DoNotCreate(t) \/ CreateFails(t))

ThreadStep(t) ==
    Running(\/ Fetch(t) \/ Initialize(t) \/ InitializeFails(t) \/ UseCrashes(t)
            \/ (t = "output" /\ (SetVolume \/ Receive \/ ReceiveCrashes))
            \/ (t \in Servers /\ (UpdateSocketPaths(t) \/ Bind(t) \/ BindFails(t))))

SignalStep ==
    Running(HandlerExits \/ \E t \in Threads \cup {"main"} : Signal(t))

Environment == Running(Reinitialize \/ Connection)

Next ==
    \/ MainStep
    \/ \E t \in Threads : ThreadStep(t)
    \/ SignalStep
    \/ Environment

Spec == Init /\ [][Next]_vars

-------------------------------------------------------------------------------
SettingsRecord ==
    [samplerate: ValidRates, numPerFrm: Nat, frmNum: Int, buffer: Int, chnCnt: Int,
     gain: Int \cup {NULL}, vol: Int \cup {NULL}]

MainPCs == {"getopt", "load", "validate", "enable", "join", "over"} \cup Threads

\* Every variable stays in its type: a socket name is never NULL, a device gets
\* whole settings or none, and a thread reads a complete set of items.
TypeOK ==
    /\ argv \in Seq(OptionWords)
    /\ options \in [config_file_path: {"absolute", "relative"}, disable_ai: BOOLEAN,
                    disable_ao: BOOLEAN, daemonize: BOOLEAN]
    /\ cwd \in {"start", "/"}
    /\ pc \in MainPCs
    /\ config_root \in Documents \cup {NULL}
    /\ accepted \in BOOLEAN
    /\ thread \in [Threads -> {"off", "fetch", "use", "paths", "bind", "listen",
                               "receive", "play", "over"}]
    /\ names \in [Servers -> DOMAIN Truncated]
    /\ \A t \in Threads : items[t] = NULL \/ DOMAIN items[t] = Keys
    /\ bound \in [Servers -> DOMAIN Truncated \cup {NULL}]
    /\ \A h \in Halves : device[h] = NULL \/ device[h] \in SettingsRecord
    /\ handler \in Threads \cup {"main", NULL}
    /\ proc \in {"running", "exited", "crashed"}
    /\ faults \in 0 .. MaxFaults

\* The getters check neither type nor presence of what they dereference
\* (audio_common.c, output.c, input.c): they rely on validate_json.  Until a
\* signal frees the document, no thread crashes on what it reads of a document it
\* accepted; only a client that connects to the output can end iad (bound and over,
\* the output server), before the buffer is there or if frame_size, which nothing
\* checks, is more than its stack holds.
AcceptedCrashesOnConnection ==
    accepted /\ handler = NULL /\ proc = "crashed" =>
        /\ bound.output # NULL /\ thread.output = "over"
        /\ device.AO = NULL \/ config_get_ao_frame_size > StackSize

\* Whatever the document holds, validated or not, and even when it is freed
\* while a thread reads it, the devices are given a sample rate the SDK has, a
\* volume in -30 .. 120, a gain in 0 .. 31 (unless the SDK fails to take them) and
\* at most one channel.
SettingsInRange ==
    \A h \in Halves : device[h] # NULL =>
        /\ device[h].samplerate \in ValidRates
        /\ device[h].vol \in -30 .. 120 \cup {NULL}
        /\ device[h].gain \in 0 .. 31 \cup {NULL}
        /\ device[h].chnCnt \leq 1

\* enable_output_channel repeats the volume code of the initialization: until the
\* document is freed, a connection changes the volume of the output only if SetVol
\* failed in the initialization, and no step gives it another one.
VolumeKept ==
    [][device.AO # NULL /\ device'.AO # NULL /\ handler = NULL
         => \/ device'.AO.vol = device.AO.vol
            \/ device.AO.vol = NULL
            \/ device'.AO.vol = NULL /\ thread.play = "use"]_vars

\* A half disabled by an option stays off whatever the configuration says: no
\* thread of it is started, no device initialized and no name bound.
DisabledStaysOff ==
    /\ options.disable_ai /\ pc \notin {"getopt", "over"} =>
           thread.input = "off" /\ device.AI = NULL /\ bound.input = NULL
    /\ options.disable_ao /\ pc \notin {"getopt", "over"} =>
           /\ thread.output = "off" /\ thread.play = "off"
           /\ device.AO = NULL /\ bound.output = NULL

Distinct ==
    LET name == [t \in Servers |-> Truncated[config_get_socket_path(t)]]
    IN \A s, t \in Servers : s # t => name[s] # name[t]

\* With an accepted document whose socket names differ in their first 31
\* characters, whichever thread copies the names when: unless a call fails, every
\* server binds the name the document gives it, and none ends because the name is
\* taken.  After a failed strdup only the document's name or the default is bound.
NamesServe ==
    accepted /\ handler = NULL /\ Distinct =>
        \A t \in Servers :
            /\ bound[t] # NULL =>
                   \/ bound[t] = Truncated[config_get_socket_path(t)]
                   \/ bound[t] = DefaultName[t] /\ faults > 0
            /\ thread[t] = "over" /\ bound[t] = NULL => faults > 0

\* iad.c:71, of a document that validate_json rejects: "Invalid configuration
\* format. Continuing with default settings."
RejectedMeansDefaults ==
    pc \in Threads \cup {"join"} /\ ~accepted /\ handler = NULL =>
        \A h \in Halves : device[h] # NULL =>
            device[h].samplerate = 48000 /\ device[h].gain \in {25, NULL}
===============================================================================
